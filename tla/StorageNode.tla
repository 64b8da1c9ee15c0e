---------------------------- MODULE StorageNode ----------------------------
(***************************************************************************)
(* One storage node: the shard directory, its least-recently-used order,   *)
(* and the handlers that change them (storage_node.py).                    *)
(*                                                                         *)
(* Between two awaits a handler is atomic (one asyncio loop), so every     *)
(* action below is the code between two awaits.  The node runs either with *)
(* a TCP listener or as a poller of an HTTP server; the direct HTTP shard  *)
(* endpoint runs in both modes.  A shard file is abstracted to the payload *)
(* it was written from and the number of bytes that reached the disk: a    *)
(* crash in the middle of write_bytes leaves a shorter file.               *)
(***************************************************************************)
EXTENDS Integers, FiniteSets

CONSTANTS
    Shards,         \* shard names, file_id and index
    Data,           \* shard payloads
    Size,           \* payload -> its length in bytes
    MaxShard,       \* the longest payload the node accepts
    Donated,        \* donated_bytes
    Requests,       \* direct HTTP connections open at one time
    MaxStaged,      \* bound: shards staged for the node at one time
    None            \* "no such file", "idle"

File == [data: Data, len: 0 .. MaxShard]

ASSUME ShardsAssumption == IsFiniteSet(Shards) /\ None \notin Shards \cup File
ASSUME SizeAssumption == /\ MaxShard \in Nat \ {0}
                         /\ Size \in [Data -> 1 .. MaxShard]
ASSUME DonatedAssumption == Donated \in Nat \ {0}

VARIABLES
    httpMode,   \* heartbeat_url is set: poll a server, no TCP listener
    disk,       \* shard -> its file, or None
    older,      \* <<s, t>>: the mtime of s is below the mtime of t
    direct,     \* direct HTTP store requests waiting for their body
    staged,     \* shard -> payload staged for this node on the server
    pull,       \* the poll in progress: shards to pull, and the one to confirm
    reply       \* the answer the last step sent

vars == <<httpMode, disk, older, direct, staged, pull, reply>>

Disk == [Shards -> File \cup {None}]
Idle == [todo |-> {}, stored |-> None]
Answer(kind) == [kind |-> kind]
Silent == Answer("none")
Stored(s, d) == [kind |-> "stored", shard |-> s, data |-> d]

----------------------------------------------------------------------------
(* Capacity.  A byte on disk is a shard and an offset in its file. *)

Present(dk) == {s \in Shards : dk[s] # None}

Bytes(dk) == {b \in Shards \X (1 .. MaxShard) :
                dk[b[1]] # None /\ b[2] <= dk[b[1]].len}

used_bytes(dk) == Cardinality(Bytes(dk))

free_bytes(dk) == IF used_bytes(dk) <= Donated
                  THEN Donated - used_bytes(dk) ELSE 0

Without(dk, gone) == [s \in Shards |-> IF s \in gone THEN None ELSE dk[s]]

(* Eviction visits the files by mtime, so it removes a prefix of the order. *)
LruPrefixes(dk, order) ==
    {P \in SUBSET Present(dk) : \A s, t \in Present(dk) :
        t \in P /\ <<s, t>> \in order => s \in P}

(* The loop's break condition once the shards of P are gone: free_bytes is *)
(* read from the directory again, and the bytes freed are added to it.     *)
StopsAfter(dk, P, needed) ==
    free_bytes(Without(dk, P)) + (used_bytes(dk) - used_bytes(Without(dk, P)))
        >= needed

_evict_shards(dk, order, needed) ==
    {E \in LruPrefixes(dk, order) :
        /\ StopsAfter(dk, E, needed) \/ E = Present(dk)
        /\ \A P \in LruPrefixes(dk, order) :
              P \subseteq E /\ P # E => ~StopsAfter(dk, P, needed)}

(* Every caller evicts only when the payload does not fit. *)
Evictions(dk, order, needed) ==
    IF needed > free_bytes(dk) THEN _evict_shards(dk, order, needed) ELSE {{}}

(* Seeded bug: the order of the evicted files is not recomputed. *)
ForgetNothing(order, gone) == order

Forget(order, gone) == {p \in order : p[1] \notin gone /\ p[2] \notin gone}

(* os.utime, or a write: s becomes the most recently used file. *)
Touch(order, s, dk) ==
    {p \in order : p[1] # s} \cup {<<t, s>> : t \in Present(dk) \ {s}}

----------------------------------------------------------------------------
(* Seeded bug: any file of that name is taken for the shard. *)
SameName(dk, s, d) == dk[s] # None

SameSize(dk, s, d) == dk[s] # None /\ dk[s].len = Size[d]

(* Seeded bug: store_shard leaves it to its callers to make room. *)
store_evicting_nothing(dk, order, s, d, n) ==
    /\ disk' = [dk EXCEPT ![s] = IF SameSize(dk, s, d) THEN @ ELSE [data |-> d, len |-> n]]
    /\ older' = Touch(order, s, disk')

(* store_shard on the directory dk: nothing is written over a file of the  *)
(* payload's length, and there is no check after the eviction.  n is the   *)
(* number of bytes that reach the disk.                                    *)
store_shard(dk, order, s, d, n) ==
    \/ /\ SameSize(dk, s, d) /\ n = Size[d]
       /\ disk' = dk
       /\ older' = Touch(order, s, dk)
    \/ /\ ~SameSize(dk, s, d)
       /\ \E E \in Evictions(dk, order, Size[d]) :
            /\ disk' = [Without(dk, E) EXCEPT ![s] = [data |-> d, len |-> n]]
            /\ older' = Touch(Forget(order, E), s, disk')

(* The handlers that check capacity evict if the payload does not fit, look *)
(* again, and only then store.                                             *)
RefusedStore(s, d) ==
    \E E \in Evictions(disk, older, Size[d]) :
        /\ Size[d] > free_bytes(Without(disk, E))
        /\ disk' = Without(disk, E)
        /\ older' = Forget(older, E)

AcceptedStore(s, d, n) ==
    \E E \in Evictions(disk, older, Size[d]) :
        /\ Size[d] <= free_bytes(Without(disk, E))
        /\ store_shard(Without(disk, E), Forget(older, E), s, d, n)

CheckedStore(s, d) ==
    \/ RefusedStore(s, d) /\ reply' = Answer("full")
    \/ AcceptedStore(s, d, Size[d]) /\ reply' = Stored(s, d)

(* Whoever reads a shard touches it. *)
FetchShard(s) ==
    /\ disk[s] # None
    /\ older' = Touch(older, s, disk)
    /\ reply' = Silent
    /\ UNCHANGED <<httpMode, disk, direct, staged, pull>>

DirectFetch(s) == FetchShard(s)

----------------------------------------------------------------------------
(* TCP listener. *)

TcpFetch(s) == ~httpMode /\ FetchShard(s)

(* The proof sent to the tracker is made from the shard, which is read.    *)
AuditChallenge(s) == ~httpMode /\ FetchShard(s)

TcpStore(s, d) ==
    /\ ~httpMode
    /\ CheckedStore(s, d)
    /\ UNCHANGED <<httpMode, direct, staged, pull>>

TcpDelete(s) ==
    /\ ~httpMode
    /\ disk[s] # None
    /\ disk' = Without(disk, {s})
    /\ older' = Forget(older, {s})
    /\ reply' = Silent
    /\ UNCHANGED <<httpMode, direct, staged, pull>>

----------------------------------------------------------------------------
(* Direct HTTP endpoint: the existing file is looked at before the body is *)
(* awaited, everything else happens after it.                              *)

DirectStoreBegin(r, s, d) ==
    /\ direct[r] = None
    /\ direct' = [direct EXCEPT ![r] =
          [shard |-> s, data |-> d, existed |-> SameSize(disk, s, d)]]
    /\ reply' = Silent
    /\ UNCHANGED <<httpMode, disk, older, staged, pull>>

DirectStoreEnd(r) ==
    /\ direct[r] # None
    /\ direct' = [direct EXCEPT ![r] = None]
    /\ IF direct[r].existed
       THEN /\ reply' = Answer("existed")
            /\ UNCHANGED <<disk, older>>
       ELSE CheckedStore(direct[r].shard, direct[r].data)
    /\ UNCHANGED <<httpMode, staged, pull>>

DirectStoreAbort(r) ==
    /\ direct[r] # None
    /\ direct' = [direct EXCEPT ![r] = None]
    /\ reply' = Silent
    /\ UNCHANGED <<httpMode, disk, older, staged, pull>>

----------------------------------------------------------------------------
(* HTTP poll loop.  The server that stages shards is external. *)

StageShard(s, d) ==
    /\ httpMode
    /\ Cardinality({t \in Shards \ {s} : staged[t] # None}) < MaxStaged
    /\ staged' = [staged EXCEPT ![s] = d]
    /\ reply' = Silent
    /\ UNCHANGED <<httpMode, disk, older, direct, pull>>

Poll ==
    /\ httpMode
    /\ pull = Idle
    /\ pull' = [Idle EXCEPT !.todo = {s \in Shards : staged[s] # None}]
    /\ pull' # pull
    /\ reply' = Silent
    /\ UNCHANGED <<httpMode, disk, older, direct, staged>>

(* The fetched copy goes to store_shard as it is, without a capacity check. *)
PullShard(s) ==
    /\ s \in pull.todo /\ pull.stored = None
    /\ staged[s] # None
    /\ store_shard(disk, older, s, staged[s], Size[staged[s]])
    /\ pull' = [todo |-> pull.todo \ {s}, stored |-> s]
    /\ reply' = Stored(s, staged[s])
    /\ UNCHANGED <<httpMode, direct, staged>>

PullFails(s) ==
    /\ s \in pull.todo /\ pull.stored = None
    /\ pull' = [pull EXCEPT !.todo = @ \ {s}]
    /\ reply' = Silent
    /\ UNCHANGED <<httpMode, disk, older, direct, staged>>

ConfirmShard ==
    /\ pull.stored # None
    /\ staged' = [staged EXCEPT ![pull.stored] = None]
    /\ pull' = [pull EXCEPT !.stored = None]
    /\ reply' = Silent
    /\ UNCHANGED <<httpMode, disk, older, direct>>

ConfirmFails ==
    /\ pull.stored # None
    /\ pull' = [pull EXCEPT !.stored = None]
    /\ reply' = Silent
    /\ UNCHANGED <<httpMode, disk, older, direct, staged>>

(* What clients asked for is pushed once everything is pulled. *)
PushShard(s) == httpMode /\ pull = Idle /\ FetchShard(s)

----------------------------------------------------------------------------
(* The process dies while write_bytes runs: the file holds n bytes of the  *)
(* payload, every connection and the poll are gone; the directory and the  *)
(* mtimes are what the restarted node reads.                               *)
CrashInStore(s, d, n) ==
    /\ \/ /\ \/ ~httpMode
             \/ \E r \in Requests :
                  direct[r] = [shard |-> s, data |-> d, existed |-> FALSE]
          /\ AcceptedStore(s, d, n)
       \/ /\ s \in pull.todo /\ pull.stored = None /\ staged[s] = d
          /\ store_shard(disk, older, s, d, n)
    /\ direct' = [r \in Requests |-> None]
    /\ pull' = Idle
    /\ reply' = Silent
    /\ UNCHANGED <<httpMode, staged>>

Init ==
    /\ httpMode \in BOOLEAN
    /\ disk = [s \in Shards |-> None]
    /\ older = {}
    /\ direct = [r \in Requests |-> None]
    /\ staged = [s \in Shards |-> None]
    /\ pull = Idle
    /\ reply = Silent

Next ==
    \/ \E s \in Shards :
          \/ DirectFetch(s) \/ TcpFetch(s) \/ AuditChallenge(s) \/ PushShard(s)
          \/ TcpDelete(s) \/ PullShard(s) \/ PullFails(s)
    \/ \E s \in Shards, d \in Data : TcpStore(s, d) \/ StageShard(s, d)
    \/ \E r \in Requests : DirectStoreEnd(r) \/ DirectStoreAbort(r)
    \/ \E r \in Requests, s \in Shards, d \in Data : DirectStoreBegin(r, s, d)
    \/ \E s \in Shards, d \in Data, n \in 0 .. MaxShard :
          n < Size[d] /\ CrashInStore(s, d, n)
    \/ Poll \/ ConfirmShard \/ ConfirmFails

Spec == Init /\ [][Next]_vars

----------------------------------------------------------------------------
(* order is a strict total order of the files of dk. *)
Orders(order, dk) ==
    /\ order \subseteq Present(dk) \X Present(dk)
    /\ \A s, t \in Present(dk) :
          IF s = t THEN <<s, t>> \notin order
                   ELSE <<s, t>> \in order <=> <<t, s>> \notin order
    /\ \A s, t, u \in Present(dk) :
          <<s, t>> \in order /\ <<t, u>> \in order => <<s, u>> \in order

TypeOK ==
    /\ httpMode \in BOOLEAN
    /\ disk \in Disk
    /\ Orders(older, disk)
    /\ direct \in [Requests -> [shard: Shards, data: Data, existed: BOOLEAN] \cup {None}]
    /\ staged \in [Shards -> Data \cup {None}]
    /\ pull \in [todo: SUBSET Shards, stored: Shards \cup {None}]
    /\ reply \in [kind: {"none", "full", "existed"}] \cup
          [kind: {"stored"}, shard: Shards, data: Data]

(* A node with a TCP listener never holds more than it donated, whatever   *)
(* the interleaving of TCP and direct HTTP stores and wherever it crashes. *)
(* A polling node stores what it pulls without looking again at what       *)
(* eviction freed; it may exceed its donation, but by less than one shard  *)
(* of the largest size, and never by more however many shards it pulls.    *)
CapacityBound ==
    used_bytes(disk) <= IF httpMode THEN Donated + MaxShard - 1 ELSE Donated

(* When a store is acknowledged, a file of the payload's full length is on *)
(* the disk: a truncated file left by a crash is never taken for the shard *)
(* and acknowledged again without being rewritten.                         *)
AckedIsWhole ==
    reply.kind = "stored" =>
        disk[reply.shard] # None /\ disk[reply.shard].len = Size[reply.data]
=============================================================================
