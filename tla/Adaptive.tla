------------------------------ MODULE Adaptive ------------------------------
(***************************************************************************)
(* One client, its k and m, and the calls that share them.  put_adaptive   *)
(* exchanges k, m and the coder of the client for the length of an upload, *)
(* put and put_delta read them again after every request, and put_delta    *)
(* numbers new shards by them, whatever the file was stored with.  The     *)
(* watcher makes one call after the other, for private files; the          *)
(* dashboard's requests put contents beside it, with the same client.      *)
(*                                                                         *)
(* Nodes stay alive, so that shard i of a file has one node.  Two requests *)
(* do not put one content at once, and what a failed put still has under   *)
(* way is not followed: FileStore has both.                                *)
(***************************************************************************)
EXTENDS Integers, Sequences

CONSTANTS
    Private,        \* the watcher's files
    Contents,       \* what a file may hold: its chunks' texts; also file ids
    Texts,
    Requests,       \* the dashboard's requests
    Watch,          \* the watcher's task
    Schemes,        \* pairs of k and m, as the tracker may recommend them
    Own,            \* the k and m the client was made with
    Length,         \* <<text, scheme>> -> length of a shard
    MaxCalls,       \* bound: uploads that begin
    MaxFaults,      \* bound: requests that fail, and restarts
    None

ASSUME AdaptiveAssumption ==
    /\ Contents \subseteq Seq(Texts) \ {<<>>} /\ Private \cap Contents = {}
    /\ Watch \notin Requests
    /\ \A s \in Schemes : s \in [k : Nat, m : Nat] /\ s.k > 0 /\ s.m > 0
    /\ Own \in Schemes /\ None \notin Schemes
    /\ Length \in [Texts \X Schemes -> Nat]
    /\ MaxCalls \in Nat /\ MaxFaults \in Nat

Procs == Requests \cup {Watch}
Files == Private \cup Contents

(* A chunk as it was uploaded: its nonce and place in the file tell its    *)
(* ciphertext from others, and its shards have the indices from base on.   *)
Chunk == [nonce : 0 .. MaxCalls, pos : Nat, text : Texts, scheme : Schemes, base : Nat]
ChunksOf(d) == [DOMAIN d -> Chunk]
Records(d) == [scheme : Schemes, chunks : ChunksOf(d)]

VARIABLES
    params,     \* self.k, self.m and self.coder
    call,       \* task -> the upload it is in
    files,      \* tracker: file id -> its record, or None
    held,       \* the nodes: records of file, index and the chunk it is of
    calls,
    faults,
    spoilt,     \* history: files whose record is of an upload during which
                \*          k and m changed, or that met shards of its length,
                \*          or of an update with other k and m than before
    failed      \* history: files with an upload that did not come to its end

vars == <<params, call, files, held, calls, faults, spoilt, failed>>

Idle ==
    [at |-> "idle", delta |-> FALSE, file |-> None, data |-> <<>>, nonce |-> 0, over |-> None,
     scheme |-> None, cur |-> None, left |-> {}, todo |-> {}, done |-> <<>>, trim |-> {},
     whole |-> {}, header |-> None, sound |-> TRUE]

Shards(s) == s.k + s.m

(* Seeded bug: chunks are counted from 0 here and from 1 elsewhere. *)
BaseOneLow(i, s) == (i - 2) * Shards(s)

Base(i, s) == (i - 1) * Shards(s)
Region(c) == c.base .. c.base + Shards(c.scheme) - 1

Shard(f, i, c) == [file |-> f, index |-> i, of |-> c]
Whole(f, c) == \A i \in Region(c) : Shard(f, i, c) \in held

----------------------------------------------------------------------------
(* Calls begin. *)

Begin(p, c) ==
    /\ call[p].at = "idle" /\ calls < MaxCalls /\ calls' = calls + 1
    /\ call' = [call EXCEPT ![p] = c]
    /\ UNCHANGED <<params, files, held, faults, spoilt, failed>>

put_adaptive(f, d) ==
    Begin(Watch, [Idle EXCEPT !.at = "asking", !.file = f, !.data = d, !.nonce = calls + 1])

put_delta(f, d) ==
    Begin(Watch, [Idle EXCEPT !.at = "opening", !.delta = TRUE, !.file = f, !.data = d,
                              !.nonce = calls + 1])

put(r, d) ==
    /\ \A q \in Requests : call[q].file # d
    /\ Begin(r, [Idle EXCEPT !.at = "opening", !.file = d, !.data = d])

(* Another k and m of the client, under the calls that still read them.    *)
Exchange(s) ==
    [q \in Procs |-> IF s # params /\ call[q].at \in {"write", "trim"}
                     THEN [call[q] EXCEPT !.sound = FALSE] ELSE call[q]]

(* The recommendation; over is what finally will restore. *)
Override(s) ==
    /\ call[Watch].at = "asking"
    /\ params' = s
    /\ call' = [Exchange(s) EXCEPT ![Watch].at = "opening",
                    ![Watch].over = IF s = params THEN None ELSE params]
    /\ UNCHANGED <<files, held, calls, faults, spoilt, failed>>

(* Seeded bug: k and m are restored without a finally. *)
RestoredIfAnswered(p) ==
    IF call[p].at = "ack" /\ call[p].over # None THEN call[p].over ELSE params

Restored(p) == IF call[p].over = None THEN params ELSE call[p].over

End(p) ==
    /\ params' = Restored(p)
    /\ call' = [Exchange(Restored(p)) EXCEPT ![p] = Idle]

----------------------------------------------------------------------------
(* put and put_delta, once the list of nodes is there. *)

Encode(c, i) ==
    [nonce |-> c.nonce, pos |-> i, text |-> c.data[i], scheme |-> params,
     base |-> Base(i, c.scheme)]

(* The next chunk is encoded, or chunks beyond the new end are deleted, or *)
(* the record is made, before the task waits again.                        *)
Continue(c) ==
    IF c.todo # {}
    THEN {[c EXCEPT !.at = "write", !.cur = Encode(c, i), !.left = Region(Encode(c, i)),
                    !.todo = @ \ {i}] : i \in {j \in c.todo : \A l \in c.todo : j <= l}}
    ELSE {[c EXCEPT !.at = IF c.trim = {} THEN "store" ELSE "trim", !.cur = None,
                    !.header = IF c.trim = {} THEN params ELSE None]}

Reused(r, d) == {i \in DOMAIN d \cap DOMAIN r.chunks : d[i] = r.chunks[i].text}

(* Seeded bug: the last chunk that stays is deleted too. *)
TrimmedMore(r, d) == UNION {Region(r.chunks[i]) : i \in DOMAIN r.chunks \ (DOMAIN d \ {Len(d)})}

Trimmed(r, d) == UNION {Region(r.chunks[i]) : i \in DOMAIN r.chunks \ DOMAIN d}

(* A content that is stored already is only registered; put_delta of a     *)
(* file that is not is a put.                                              *)
Open(p) ==
    LET c == call[p]
        r == files[c.file]
        kept == IF c.delta /\ r # None THEN Reused(r, c.data) ELSE {}
    IN
    /\ c.at = "opening"
    /\ IF c.file \in Contents /\ r # None THEN End(p)
       ELSE /\ \E d \in Continue([c EXCEPT
                  !.scheme = params,
                  !.todo   = DOMAIN c.data \ kept,
                  !.done   = [i \in DOMAIN c.data |-> IF i \in kept THEN r.chunks[i] ELSE None],
                  !.trim   = IF c.delta /\ r # None THEN Trimmed(r, c.data) ELSE {},
                  !.whole  = {i \in kept : Whole(c.file, r.chunks[i])},
                  !.sound  = /\ c.file \notin failed
                             /\ c.delta /\ r # None => c.file \notin spoilt /\ r.scheme = params]) :
                  call' = [call EXCEPT ![p] = d]
            /\ UNCHANGED params
    /\ UNCHANGED <<files, held, calls, faults, spoilt, failed>>

(* A node writes nothing over a shard of the same length. *)
Keeps(f, i, c) ==
    \E h \in held : h.file = f /\ h.index = i
                    /\ Length[<<h.of.text, h.of.scheme>>] = Length[<<c.text, c.scheme>>]

Stored(f, i, c) ==
    IF Keeps(f, i, c) THEN held
    ELSE {h \in held : h.file = f => h.index # i} \cup {Shard(f, i, c)}

(* The last answer for a chunk lets the task go on. *)
StoreShard(p, i) ==
    LET c == call[p]
        now == [c EXCEPT !.left = @ \ {i}, !.sound = @ /\ Shard(c.file, i, c.cur) \in held']
    IN
    /\ c.at = "write" /\ i \in c.left
    /\ held' = Stored(c.file, i, c.cur)
    /\ \E d \in IF c.left = {i} THEN Continue([now EXCEPT !.done[c.cur.pos] = c.cur]) ELSE {now} :
          call' = [call EXCEPT ![p] = d]
    /\ UNCHANGED <<params, files, calls, faults, spoilt, failed>>

(* put_delta does not mind when a deletion fails. *)
Trim(p) ==
    LET c == call[p] IN
    /\ c.at = "trim"
    /\ \E gone \in SUBSET c.trim :
          held' = {h \in held : h.file = c.file => h.index \notin gone}
    /\ call' = [call EXCEPT ![p].at = "store", ![p].header = params]
    /\ UNCHANGED <<params, files, calls, faults, spoilt, failed>>

StoreMeta(p) ==
    LET c == call[p] IN
    /\ c.at = "store"
    /\ files' = [files EXCEPT ![c.file] = [scheme |-> c.header, chunks |-> c.done]]
    /\ spoilt' = IF c.sound THEN spoilt \ {c.file} ELSE spoilt \cup {c.file}
    /\ call' = [call EXCEPT ![p].at = "ack"]
    /\ UNCHANGED <<params, held, calls, faults, failed>>

Answered(p) ==
    /\ call[p].at = "ack"
    /\ End(p)
    /\ UNCHANGED <<files, held, calls, faults, spoilt, failed>>

----------------------------------------------------------------------------
(* A request fails, or the client is started again. *)

Unfinished(P) == {call[p].file : p \in {q \in P : call[q].at \in {"write", "trim", "store"}}}

Fails(p) ==
    /\ call[p].at \notin {"idle", "trim"}
    /\ faults < MaxFaults /\ faults' = faults + 1
    /\ End(p)
    /\ failed' = failed \cup Unfinished({p})
    /\ UNCHANGED <<files, held, calls, spoilt>>

Restart ==
    /\ faults < MaxFaults /\ faults' = faults + 1
    /\ params' = Own
    /\ call' = [p \in Procs |-> Idle]
    /\ failed' = failed \cup Unfinished(Procs)
    /\ UNCHANGED <<files, held, calls, spoilt>>

Init ==
    /\ params = Own /\ call = [p \in Procs |-> Idle]
    /\ files = [f \in Files |-> None] /\ held = {}
    /\ calls = 0 /\ faults = 0 /\ spoilt = {} /\ failed = {}

Next ==
    \/ \E f \in Private, d \in Contents : put_adaptive(f, d) \/ put_delta(f, d)
    \/ \E r \in Requests, d \in Contents : put(r, d)
    \/ \E s \in Schemes : Override(s)
    \/ \E p \in Procs :
          \/ Open(p) \/ Trim(p) \/ StoreMeta(p) \/ Answered(p) \/ Fails(p)
          \/ \E i \in call[p].left : StoreShard(p, i)
    \/ Restart

Spec == Init /\ [][Next]_vars

----------------------------------------------------------------------------
Writing == {"write", "trim", "store"}
Maybe(S) == S \cup {None}

Call(d) ==
    [at : {"idle", "asking", "opening", "ack"} \cup Writing, delta : BOOLEAN, sound : BOOLEAN,
     file : Maybe(Files), data : {d}, nonce : 0 .. MaxCalls,
     over : Maybe(Schemes), scheme : Maybe(Schemes), header : Maybe(Schemes),
     cur : Maybe(Chunk), left : SUBSET Nat, todo : SUBSET Nat, trim : SUBSET Nat,
     whole : SUBSET Nat, done : [DOMAIN d -> Maybe(Chunk)] \cup {<<>>}]

CallOK(c) ==
    /\ \E d \in Contents \cup {<<>>} : c \in Call(d)
    /\ c.at # "idle" => c.file \in Files /\ c.data \in Contents
    /\ c.at \in Writing \cup {"ack"} =>
          c.scheme \in Schemes /\ c.done \in [DOMAIN c.data -> Maybe(Chunk)]
    /\ c.at = "write" => c.cur \in Chunk /\ c.left \subseteq Region(c.cur)
    /\ c.at \in {"store", "ack"} => c.header \in Schemes /\ c.done \in ChunksOf(c.data)

TypeOK ==
    /\ params \in Schemes /\ DOMAIN call = Procs /\ \A p \in Procs : CallOK(call[p])
    /\ DOMAIN files = Files
    /\ \A f \in Files : files[f] = None \/ \E d \in Contents : files[f] \in Records(d)
    /\ \A h \in held : h.file \in Files /\ h.index \in Nat /\ h.of \in Chunk
    /\ calls \in 0 .. MaxCalls /\ faults \in 0 .. MaxFaults
    /\ spoilt \subseteq Files /\ failed \subseteq Files

Busy(f) == \E p \in Procs : call[p].file = f /\ call[p].at \in Writing

(* Shards are where a download looks for them: it takes k + m of the       *)
(* record times the chunk's number off a shard's index.                    *)
Aligned(r) ==
    \A i \in DOMAIN r.chunks : r.chunks[i].scheme = r.scheme /\ r.chunks[i].base = Base(i, r.scheme)

(* A stored file can be decoded, chunk by chunk, with the k and m of its   *)
(* record: updates of some of its chunks, with what put_adaptive does to   *)
(* the client's k and m before and after them, keep shards and record of   *)
(* one numbering.                                                          *)
ReadsBack ==
    \A f \in Files \ (spoilt \cup failed) : files[f] # None /\ ~Busy(f) =>
        /\ Aligned(files[f])
        /\ \A i \in DOMAIN files[f].chunks : Whole(f, files[f].chunks[i])

(* Whatever fails in an adaptive upload, the client has its own k and m    *)
(* when none is in progress.                                               *)
OverrideEnds == (\A p \in Procs : call[p].over = None) => params = Own

(* Docstring of put_delta: "Unchanged chunks keep their existing shards".  *)
UnchangedKeepShards ==
    \A p \in Procs : call[p].at \in {"store", "ack"} =>
        \A i \in call[p].whole : Whole(call[p].file, call[p].done[i])
=============================================================================
