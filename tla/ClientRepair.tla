---------------------------- MODULE ClientRepair ----------------------------
(***************************************************************************)
(* Repair by the owner's client: DFSClient.repair and the watcher's        *)
(* _repair_cycle, on one file, beside nodes that stop and return, the      *)
(* tracker's own repair, and uploads and deletions by other clients.       *)
(*                                                                         *)
(* A record places each shard twice.  shard_map is what the tracker looks  *)
(* at for dead nodes, and chunks[c].shard_map is what a download follows.  *)
(* A shard on a node is the upload its bytes come from; uploads of a       *)
(* convergent file are all the same.  All shards have one length.          *)
(***************************************************************************)
EXTENDS Integers, FiniteSets, Functions

CONSTANTS
    NumNodes,
    K, NShards,     \* shards needed of a chunk, and shards of a chunk
    NChunks,
    Listings,       \* may a file listing contain the chunks?  The tracker's
                    \* does not, and a server behind the REST interface might
    MaxFaults,      \* bound: nodes that stop
    MaxUploads,     \* bound: uploads
    None, Spare

Nodes == 1 .. NumNodes
Indices == 0 .. NChunks * NShards - 1
Uploads == 0 .. MaxUploads

Placement == [Indices -> Nodes]
Record == [of: Uploads, map: Placement, hash: [Indices -> Uploads \cup {Spare}],
           cmap: Placement, chash: [Indices -> Uploads \cup {Spare}]]

ASSUME RepairAssumption ==
    /\ NumNodes \in Nat \ {0} /\ NChunks \in Nat \ {0}
    /\ K \in 1 .. NShards /\ NShards \in Nat
    /\ Listings \subseteq BOOLEAN /\ MaxFaults \in Nat /\ MaxUploads \in Nat
    /\ {None, Spare} \cap Uploads = {} /\ None # Spare /\ None \notin Record

VARIABLES
    convergent, lists,  \* how files are encrypted, and what a listing has
    up, alive,      \* nodes that run, and those the tracker believes to
    held,           \* <<node, index>> -> what the node stores
    file,           \* the tracker's record of the file, or None
    uploads,
    job,            \* the repair in progress
    faults,
    lost,           \* history: shards lost by their node, stored as spares or
                    \*          by a private upload that failed, or rebuilt for
                    \*          a node that kept the other bytes it had
    crossed         \* history: the file was deleted or stored again under a
                    \*          repair, or stored over shards of other bytes

mode == <<convergent, lists>>
nodes == <<up, alive, faults>>
history == <<lost, crossed>>
vars == <<mode, nodes, held, file, uploads, job, history>>

ChunkOf(i) == i \div NShards
Least(S) == CHOOSE i \in S : \A j \in S : i <= j
First(S, n) == {i \in S : Cardinality({j \in S : j < i}) < n}
Dead(map) == {i \in Indices : map[i] \notin alive}

Resting ==
    [at |-> "idle", fmeta |-> None, dead |-> {}, todo |-> {},
     preferred |-> {}, data |-> None, meta |-> None, repaired |-> 0]

----------------------------------------------------------------------------
(* The others. *)

(* put goes round the ring of alive nodes; a node keeps what it has.  The  *)
(* placement is that of all chunks and of each.                            *)
Ring(i) == CHOOSE n \in alive :
              Cardinality({a \in alive : a < n}) = i % Cardinality(alive)

Key == IF convergent THEN 0 ELSE uploads + 1

Written(where, g) ==
    [x \in DOMAIN held |->
        IF x[2] \in where /\ x[1] = Ring(x[2]) /\ held[x] = None THEN g ELSE held[x]]

Uploaded(g) ==
    LET map == [i \in Indices |-> Ring(i)]
        all == [i \in Indices |-> g]
    IN [of |-> g, map |-> map, hash |-> all, cmap |-> map, chash |-> all]

Keeps(g) == \E i \in Indices : held[<<Ring(i), i>>] \notin {None, g}

Upload ==
    /\ uploads < MaxUploads /\ uploads' = uploads + 1
    /\ alive # {} /\ alive \subseteq up
    /\ held' = Written(Indices, Key) /\ file' = Uploaded(Key)
    /\ crossed' = (Keeps(Key) \/ (job.at # "idle" /\ (crossed \/ ~convergent)))

Put == Upload /\ UNCHANGED <<mode, nodes, job, lost>>

(* Nodes that do not run keep their shards. *)
Delete ==
    /\ file # None /\ file' = None
    /\ held' = [x \in DOMAIN held |->
                   IF x[1] \in up /\ x[1] = file.map[x[2]] THEN None ELSE held[x]]
    /\ crossed' = (job.at # "idle")
    /\ UNCHANGED <<mode, nodes, uploads, job, lost>>

Stop(n) ==
    /\ n \in up /\ faults < MaxFaults
    /\ faults' = faults + 1 /\ up' = up \ {n}
    /\ \/ UNCHANGED <<held, lost>>
       \/ /\ held' = [x \in DOMAIN held |-> IF x[1] = n THEN None ELSE held[x]]
          /\ lost' = lost \cup ({n} \X Indices)
    /\ UNCHANGED <<mode, alive, file, uploads, job, crossed>>

Expire(n) ==
    /\ n \in alive \ up /\ alive' = alive \ {n}
    /\ UNCHANGED <<mode, up, faults, held, file, uploads, job, history>>

Return(n) ==
    /\ n \notin up /\ up' = up \cup {n} /\ alive' = alive \cup {n}
    /\ UNCHANGED <<mode, faults, held, file, uploads, job, history>>

(* A node skips the store of a shard when it has one of the same length:   *)
(* whatever bytes an earlier upload left there, it keeps and acknowledges. *)
_store_shard(n, i, data) == IF held[<<n, i>>] = None THEN [held EXCEPT ![<<n, i>>] = data] ELSE held
Kept(n, i, data) == {x \in {<<n, i>>} : held[x] \notin {None, data}}

(* What module Repair does for one shard, when its chunk can be rebuilt.   *)
TrackerRepairs(i, n) ==
    LET good == {j \in Indices : /\ ChunkOf(j) = ChunkOf(i) /\ file.cmap[j] \in alive \cap up
                                 /\ held[<<file.cmap[j], j>>] = file.chash[j]}
    IN /\ file # None /\ i \in Dead(file.map) /\ n \in alive \cap up
       /\ Cardinality(good) >= K
       /\ held' = _store_shard(n, i, file.chash[i])
       /\ lost' = lost \cup Kept(n, i, file.chash[i])
       /\ file' = [file EXCEPT !.map[i] = n, !.cmap[i] = n, !.hash[i] = file.chash[i]]
       /\ UNCHANGED <<mode, nodes, uploads, job, crossed>>

----------------------------------------------------------------------------
(* The repair. *)

Finished == job' = Resting

(* The listing and the alive nodes are fetched once.  The watcher then     *)
(* asks the tracker for each file's health.  There may be nothing to do.   *)
RepairStart(watcher) ==
    /\ job.at = "idle"
    /\ IF file = None \/ (~watcher /\ Dead(file.map) = {}) THEN UNCHANGED job
       ELSE job' = [Resting EXCEPT !.at = IF watcher THEN "health" ELSE "local",
                       !.fmeta = file, !.dead = Dead(file.map)]
    /\ UNCHANGED <<mode, nodes, held, file, uploads, history>>

(* A file without a record is reported as healthy. *)
CheckHealth ==
    /\ job.at = "health"
    /\ IF file = None \/ Dead(file.map) = {} THEN Finished
       ELSE job' = [job EXCEPT !.at = "spares", !.dead = Dead(file.map)]
    /\ UNCHANGED <<mode, nodes, held, file, uploads, history>>

(* Nodes that hold nothing of the file, if there are any. *)
Preferred(map) ==
    LET others == alive \ Range(map) IN IF others = {} THEN alive ELSE others

(* repair_with_spares fetches the record; without one, the cycle ends.     *)
SparesStart ==
    /\ job.at = "spares"
    /\ IF file = None \/ alive = {} THEN Finished
       ELSE job' = [job EXCEPT !.at = "spare", !.meta = file, !.todo = job.dead,
                       !.preferred = Preferred(file.map)]
    /\ UNCHANGED <<mode, nodes, held, file, uploads, history>>

(* _save_spare_shards encodes each chunk with more parity and numbers the  *)
(* extra shards from the chunk's base: those are the next chunk's indices. *)
HasSpare(i) == i >= NShards

(* The spare goes to some preferred node that has room; or there is no     *)
(* spare in the cache, or every store of it fails.                         *)
StoreSpare(n) ==
    LET i == Least(job.todo) IN
    /\ job.at = "spare" /\ job.todo # {} /\ HasSpare(i) /\ n \in job.preferred \cap up
    /\ held' = _store_shard(n, i, Spare)
    /\ lost' = lost \cup {<<n, i>>}
    /\ job' = [job EXCEPT !.todo = @ \ {i}, !.meta.map[i] = n, !.repaired = @ + 1]
    /\ UNCHANGED <<mode, nodes, file, uploads, crossed>>

NoSpare ==
    /\ job.at = "spare" /\ job.todo # {}
    /\ job' = [job EXCEPT !.todo = @ \ {Least(@)}]
    /\ UNCHANGED <<mode, nodes, held, file, uploads, history>>

(* The record fetched before the stores is written back, unless the        *)
(* request fails, which is only logged.  As many shards as were repaired   *)
(* are dropped from the head of the list, whichever they were.             *)
SparesDone ==
    /\ job.at = "spare" /\ job.todo = {}
    /\ file' \in IF job.repaired = 0 THEN {file} ELSE {file, job.meta}
    /\ IF job.repaired = Cardinality(job.dead) THEN Finished
       ELSE job' = [job EXCEPT !.at = "local", !.meta = None, !.repaired = 0,
                       !.dead = @ \ First(@, job.repaired), !.preferred = {}]
    /\ UNCHANGED <<mode, nodes, held, uploads, history>>

(* The file is in the watched directory and put once more.  Over TCP a     *)
(* convergent put finds that the content exists and uploads nothing.       *)
Reupload ==
    /\ job.at = "local" /\ Finished
    /\ \/ convergent /\ file # None /\ UNCHANGED <<held, file, uploads, crossed>>
       \/ /\ uploads < MaxUploads /\ uploads' = uploads + 1
          /\ alive # {} /\ alive \subseteq up
          /\ held' = Written(Indices, Key) /\ file' = Uploaded(Key)
          /\ crossed' = Keeps(Key)
    /\ UNCHANGED <<mode, nodes, lost>>

(* There is no such file, or the put fails half way. *)
NoLocalFile ==
    /\ job.at = "local"
    /\ \/ UNCHANGED <<held, uploads, lost>>
       \/ /\ uploads < MaxUploads /\ uploads' = uploads + 1 /\ alive # {}
          /\ \E c \in 1 .. NChunks :
                held' = Written({i \in Indices : ChunkOf(i) < c /\ Ring(i) \in up}, Key)
          /\ lost' = lost \cup {x \in DOMAIN held : held'[x] # held[x] /\ ~convergent}
    /\ job' = [job EXCEPT !.at = "collect"]
    /\ UNCHANGED <<mode, nodes, file, crossed>>

(* With chunks in the listing they are repaired one by one; without them   *)
(* the file is taken for one of a single chunk, number 0.                  *)
Chunk == IF lists THEN ChunkOf(Least(job.dead)) ELSE 0
InHand == {i \in job.dead : lists => ChunkOf(i) = Chunk}

(* Seeded bug: the count of repaired shards is not reset for a chunk. *)
NextChunkKeeping == IF job.dead = InHand THEN Finished
                    ELSE job' = [job EXCEPT !.at = "collect", !.dead = @ \ InHand,
                                    !.todo = {}, !.data = None, !.meta = None]

NextChunk == IF job.dead = InHand THEN Finished
             ELSE job' = [job EXCEPT !.at = "collect", !.dead = @ \ InHand, !.todo = {},
                             !.data = None, !.meta = None, !.repaired = 0]

Verified(map, hash, i) == map[i] \in up /\ held[<<map[i], i>>] = hash[i]

(* Shards that are not on dead nodes are fetched in order up to the k-th   *)
(* that verifies; some requests may fail.  Decoding wants k of the chunk:  *)
(* in a file taken for a single chunk, others raise an exception.          *)
Collect ==
    LET map  == IF lists THEN job.fmeta.cmap ELSE job.fmeta.map
        hash == IF lists THEN job.fmeta.chash ELSE job.fmeta.hash
        good == {i \in Indices \ job.dead :
                    /\ lists => ChunkOf(i) = Chunk
                    /\ Verified(map, hash, i)}
    IN /\ job.at = "collect"
       /\ \E answered \in SUBSET good :
             LET got == First(answered, K) IN
             IF Cardinality(got) < K \/ \E i \in got : ChunkOf(i) # Chunk THEN NextChunk
             ELSE job' = [job EXCEPT !.at = "place",
                     !.todo = {i \in InHand : ChunkOf(i) = Chunk},
                     !.data = held[<<map[Least(got)], Least(got)>>],
                     !.preferred = Preferred(job.fmeta.map)]
       /\ UNCHANGED <<mode, nodes, held, file, uploads, history>>

(* The listing is brought up to date, as far as it has chunks. *)
Placed(rec, i, n, data) ==
    [rec EXCEPT !.map[i] = n, !.hash[i] = data,
        !.cmap[i] = IF lists THEN n ELSE @, !.chash[i] = IF lists THEN data ELSE @]

(* The rebuilt shard goes to some preferred node that has room. *)
Place(n) ==
    LET i == Least(job.todo) IN
    /\ job.at = "place" /\ job.todo # {} /\ n \in job.preferred \cap up
    /\ held' = _store_shard(n, i, job.data)
    /\ lost' = lost \cup Kept(n, i, job.data)
    /\ job' = [job EXCEPT !.todo = @ \ {i}, !.repaired = @ + 1,
                  !.fmeta = Placed(@, i, n, job.data)]
    /\ UNCHANGED <<mode, nodes, file, uploads, crossed>>

(* Seeded bug: a shard that could not be stored is placed all the same. *)
PlaceAnyway ==
    /\ job.at = "place" /\ job.todo # {}
    /\ \E n \in job.preferred : job' = [job EXCEPT !.todo = @ \ {Least(@)},
          !.repaired = @ + 1, !.fmeta.map[Least(job.todo)] = n,
          !.fmeta.cmap[Least(job.todo)] = n]
    /\ UNCHANGED <<mode, nodes, held, file, uploads, history>>

PlaceFails ==
    /\ job.at = "place" /\ job.todo # {}
    /\ job' = [job EXCEPT !.todo = @ \ {Least(@)}]
    /\ UNCHANGED <<mode, nodes, held, file, uploads, history>>

(* The record is fetched again. *)
Refetch ==
    /\ job.at = "place" /\ job.todo = {}
    /\ IF job.repaired = 0 \/ file = None THEN NextChunk
       ELSE job' = [job EXCEPT !.at = "update", !.meta = file]
    /\ UNCHANGED <<mode, nodes, held, file, uploads, history>>

(* It gets the maps of the listing, with the repairs made since: that of   *)
(* all shards, and that of the chunk if the listing had it.                *)
Merged(new, old) ==
    [new EXCEPT !.map = old.map, !.hash = old.hash,
        !.cmap = [i \in Indices |-> IF lists /\ ChunkOf(i) = Chunk THEN old.cmap[i] ELSE @[i]],
        !.chash = [i \in Indices |-> IF lists /\ ChunkOf(i) = Chunk THEN old.chash[i] ELSE @[i]]]

Update ==
    /\ job.at = "update"
    /\ file' \in {file, Merged(job.meta, job.fmeta)}
    /\ NextChunk
    /\ UNCHANGED <<mode, nodes, held, uploads, history>>

Init ==
    /\ convergent \in BOOLEAN /\ lists \in Listings
    /\ up = Nodes /\ alive = Nodes /\ faults = 0
    /\ held = [x \in Nodes \X Indices |-> None]
    /\ file = None /\ uploads = 0 /\ job = Resting
    /\ lost = {} /\ crossed = FALSE

RepairStep ==
    \/ CheckHealth \/ SparesStart \/ NoSpare \/ SparesDone
    \/ Reupload \/ NoLocalFile \/ Collect \/ PlaceFails \/ Refetch \/ Update
    \/ \E n \in Nodes : StoreSpare(n) \/ Place(n)

Next ==
    \/ RepairStep \/ \E watcher \in BOOLEAN : RepairStart(watcher)
    \/ Put \/ Delete
    \/ \E n \in Nodes : Stop(n) \/ Expire(n) \/ Return(n)
    \/ \E i \in Indices, n \in Nodes : TrackerRepairs(i, n)

Spec == Init /\ [][Next]_vars

----------------------------------------------------------------------------
TypeOK ==
    /\ up \subseteq Nodes /\ alive \subseteq Nodes /\ faults \in 0 .. MaxFaults
    /\ held \in [Nodes \X Indices -> Uploads \cup {None, Spare}]
    /\ file \in Record \cup {None} /\ uploads \in Uploads
    /\ job.dead \subseteq Indices /\ job.todo \subseteq job.dead
    /\ job.fmeta \in Record \cup {None} /\ job.meta \in Record \cup {None}
    /\ job.repaired + Cardinality(job.todo) <= Cardinality(job.dead)
    /\ lost \subseteq Nodes \X Indices /\ crossed \in BOOLEAN

(* No repair makes a download fail: whatever old listings and old records  *)
(* it writes back over those of the tracker's repair and of other uploads, *)
(* a node that a chunk names has the shard the chunk's hash and the file's *)
(* key are of.  It may only have lost it, been sent a spare, or kept the   *)
(* bytes an earlier upload left there; and the file not have been deleted  *)
(* or re-encrypted under the repair.                                       *)
DownloadsHold ==
    file # None /\ ~crossed => \A i \in Indices :
        \/ held[<<file.cmap[i], i>>] = file.of /\ file.chash[i] = file.of
        \/ <<file.cmap[i], i>> \in lost

(* Docstring of repair: "Scan all owned files and repair any shards on     *)
(* dead/missing nodes".  When no shard is on a dead node any more, those   *)
(* that a download asks for are not either.                                *)
RepairedIsFetchable ==
    file # None /\ Dead(file.map) = {} => Dead(file.cmap) = {}
=============================================================================
