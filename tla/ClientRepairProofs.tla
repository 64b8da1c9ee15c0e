------------------------- MODULE ClientRepairProofs -------------------------
(***************************************************************************)
(* What a repair by the owner's client does to the record of a file and to *)
(* its shards, for any number of nodes, chunks, shards, faults and uploads.*)
(***************************************************************************)
EXTENDS ClientRepair, FiniteSetTheorems, WellFoundedInduction, TLAPS

Stages == {"idle", "health", "spares", "spare", "local", "collect", "place", "update"}
Data == Uploads \cup {Spare}
Stored == Data \cup {None}

Jobs == [at: Stages, fmeta: Record \cup {None}, dead: SUBSET Indices,
         todo: SUBSET Indices, preferred: SUBSET Nodes, data: Stored,
         meta: Record \cup {None}, repaired: Nat]

(* What the repair has in hand at each of its stages.  The count of shards *)
(* repaired is only kept while they are being placed, else a later chunk   *)
(* would have more repaired than it had dead.                              *)
InHandAt ==
    /\ job.todo \subseteq job.dead
    /\ job.at \notin {"spare", "place"} => job.todo = {}
    /\ job.at # "idle" => job.fmeta \in Record
    /\ job.at \in {"spare", "update"} => job.meta \in Record
    /\ job.at = "place" => job.data \in Data
    /\ job.at \notin {"spare", "place", "update"} => job.repaired = 0
    /\ job.repaired + Cardinality(job.todo) <= Cardinality(job.dead)

Typed ==
    /\ convergent \in BOOLEAN /\ lists \in BOOLEAN
    /\ up \subseteq Nodes /\ alive \subseteq Nodes /\ faults \in 0 .. MaxFaults
    /\ held \in [Nodes \X Indices -> Stored]
    /\ file \in Record \cup {None} /\ uploads \in Uploads
    /\ lost \subseteq Nodes \X Indices /\ crossed \in BOOLEAN
    /\ job \in Jobs /\ InHandAt

(* A record by which a download gets upload g from nodes that hold what    *)
(* "have" says, up to the shards in "but".                                 *)
Sound(rec, g, have, but) ==
    /\ rec.of = g
    /\ \A i \in Indices : /\ rec.chash[i] = g
                          /\ \/ have[<<rec.cmap[i], i>>] = g
                             \/ <<rec.cmap[i], i>> \in but

(* As long as nobody deleted or re-encrypted the file under the repair,    *)
(* the listing it began with, and the record it is about to write back,    *)
(* are as good as the tracker's: they may place shards elsewhere, but they *)
(* place shards of the same upload.  So is the shard it is placing.        *)
OfOneUpload ==
    /\ convergent /\ file # None => file.of = 0
    /\ file # None => Sound(file, file.of, held, lost)
    /\ job.at # "idle" =>
          /\ file # None
          /\ Sound(job.fmeta, file.of, held, lost)
          /\ job.meta # None => Sound(job.meta, file.of, held, lost)
          /\ job.at = "place" /\ lists => job.data = file.of

Inv == Typed /\ (~crossed => OfOneUpload)

----------------------------------------------------------------------------
(* Indices, ranks and records *)

LEMMA Constants ==
    /\ NChunks * NShards \in Nat /\ IsFiniteSet(Indices) /\ Indices \subseteq Nat
    /\ None \notin Data /\ 0 \in Uploads /\ None \notin Uploads
<1>1. NChunks \in Nat /\ NShards \in Nat
  BY RepairAssumption
<1>2. NChunks * NShards \in Nat
  BY <1>1
<1>3. IsFiniteSet(Indices)
  BY <1>2, FS_Interval DEF Indices
<1> QED
  BY <1>2, <1>3, RepairAssumption DEF Indices, Uploads, Data

LEMMA LeastExists ==
    ASSUME NEW S, S \subseteq Nat, S # {}
    PROVE  \E i \in S : \A j \in S : i <= j
<1>1. \E x \in S : \A y \in S : ~ (<<y, x>> \in OpToRel(<, Nat))
  BY NatLessThanWellFounded, WFMin
<1>2. PICK x \in S : \A y \in S : ~ (<<y, x>> \in OpToRel(<, Nat))
  BY <1>1
<1>3. ASSUME NEW y \in S PROVE x <= y
  <2>1. x \in Nat /\ y \in Nat /\ <<y, x>> \in Nat \X Nat
    BY <1>3
  <2>2. ~ (y < x)
    BY <2>1, <1>2 DEF OpToRel
  <2> QED
    BY <2>1, <2>2
<1> QED
  BY <1>3

LEMMA LeastIsIn ==
    ASSUME NEW S, S \subseteq Nat, S # {}
    PROVE  Least(S) \in S
BY LeastExists DEF Least

(* Counting numbers upwards from below S, the count of those passed goes   *)
(* up by one at each member.                                               *)
LEMMA RankExists ==
    ASSUME NEW N \in Nat, NEW S \in SUBSET (1 .. N),
           NEW r \in Nat, r < Cardinality(S)
    PROVE  \E n \in S : Cardinality({a \in S : a < n}) = r
<1> DEFINE Below(m) == {a \in S : a < m}
           M == {m \in Nat : Cardinality(Below(m)) > r}
<1>0. S \subseteq Nat /\ \A a \in S : 1 <= a /\ a <= N
  OBVIOUS
<1>1. IsFiniteSet(S)
  <2>1. IsFiniteSet(1 .. N)
    BY FS_Interval
  <2> QED
    BY <2>1, FS_Subset
<1>2. ASSUME NEW m \in Nat PROVE IsFiniteSet(Below(m)) /\ Cardinality(Below(m)) \in Nat
  <2>1. Below(m) \in SUBSET S
    OBVIOUS
  <2>2. IsFiniteSet(Below(m))
    BY <2>1, <1>1, FS_Subset
  <2> QED
    BY <2>2, FS_CardinalityType
<1>3. N + 1 \in Nat /\ Below(N + 1) = S
  <2>1. \A a \in S : a < N + 1
    BY <1>0
  <2>2. Below(N + 1) = S
    BY <2>1, Zenon
  <2> QED
    BY <2>2
<1>4. M # {} /\ M \subseteq Nat
  BY <1>3
<1>5. PICK m \in M : \A j \in M : m <= j
  BY <1>4, LeastExists
<1>6. m # 0
  <2>1. \A a \in S : ~ (a < 0)
    BY <1>0
  <2>2. Below(0) = {}
    BY <2>1, Zenon
  <2> QED
    BY <2>2, FS_EmptySet, <1>5
<1>7. m - 1 \in Nat /\ m - 1 \notin M
  BY <1>5, <1>6
<1>8. Cardinality(Below(m - 1)) <= r
  BY <1>7, <1>2
<1>9. Cardinality(Below(m)) > r
  BY <1>5
<1>10. CASE m - 1 \in S
  <2>0. m \in Nat /\ \A a \in S : a < m <=> a < m - 1 \/ a = m - 1
    BY <1>5, <1>7, <1>0
  <2>1. Below(m) = Below(m - 1) \cup {m - 1}
    BY <2>0, <1>10, Zenon
  <2>2. IsFiniteSet(Below(m - 1)) /\ Cardinality(Below(m - 1)) \in Nat
    BY <1>2, <1>7
  <2>3. Cardinality(Below(m)) <= Cardinality(Below(m - 1)) + 1
    <3>1. Cardinality(Below(m - 1) \cup {m - 1}) =
            IF m - 1 \in Below(m - 1) THEN Cardinality(Below(m - 1))
                                      ELSE Cardinality(Below(m - 1)) + 1
      BY <2>2, FS_AddElement, Zenon
    <3> QED
      BY <3>1, <2>1, <2>2
  <2>4. Cardinality(Below(m)) \in Nat
    BY <1>2, <1>5
  <2>5. Cardinality(Below(m - 1)) = r
    BY <2>2, <2>3, <2>4, <1>8, <1>9
  <2> QED
    BY <2>5, <1>10
<1>11. CASE m - 1 \notin S
  <2>0. m \in Nat /\ \A a \in S : a < m <=> a < m - 1
    BY <1>5, <1>7, <1>0, <1>11
  <2>1. Below(m) = Below(m - 1)
    BY <2>0, Zenon
  <2> QED
    BY <2>1, <1>8, <1>9, <1>2, <1>7
<1> QED
  BY <1>10, <1>11

LEMMA RingIsAlive ==
    ASSUME alive \subseteq Nodes, alive # {}, NEW i \in Indices
    PROVE  Ring(i) \in alive
<1>1. NumNodes \in Nat /\ alive \in SUBSET (1 .. NumNodes)
  BY RepairAssumption DEF Nodes
<1>2. IsFiniteSet(alive)
  <2>1. IsFiniteSet(1 .. NumNodes)
    BY <1>1, FS_Interval
  <2> QED
    BY <2>1, <1>1, FS_Subset
<1>3. Cardinality(alive) \in Nat \ {0}
  BY <1>2, FS_CardinalityType, FS_EmptySet
<1>4. i % Cardinality(alive) \in Nat /\ i % Cardinality(alive) < Cardinality(alive)
  BY <1>3, Constants
<1>5. \E n \in alive : Cardinality({a \in alive : a < n}) = i % Cardinality(alive)
  BY <1>1, <1>4, RankExists
<1> QED
  BY <1>5 DEF Ring

LEMMA SubsetsAreFinite ==
    ASSUME NEW S \in SUBSET Indices
    PROVE  /\ IsFiniteSet(S) /\ Cardinality(S) \in Nat
           /\ \A i \in S : Cardinality(S \ {i}) = Cardinality(S) - 1
           /\ \A T \in SUBSET S : Cardinality(T) <= Cardinality(S)
<1>1. IsFiniteSet(S)
  BY Constants, FS_Subset
<1> QED
  BY <1>1, FS_CardinalityType, FS_RemoveElement, FS_Subset

----------------------------------------------------------------------------
(* Types *)

LEMMA TypedIsTypeOK == Typed => TypeOK
BY DEF Typed, InHandAt, Jobs, Stored, Data, TypeOK

LEMMA FileIsARecord ==
    ASSUME Typed, file # None
    PROVE  file \in Record /\ file.of \in Uploads
BY DEF Typed, Record

LEMMA DeadAreIndices == \A map : Dead(map) \in SUBSET Indices
BY DEF Dead

LEMMA UploadedIsARecord ==
    ASSUME Typed, alive # {}, NEW g \in Uploads
    PROVE  Uploaded(g) \in Record
<1>1. [i \in Indices |-> Ring(i)] \in Placement
  <2>1. \A i \in Indices : Ring(i) \in Nodes
    BY RingIsAlive DEF Typed
  <2> QED
    BY <2>1 DEF Placement
<1>2. [i \in Indices |-> g] \in [Indices -> Uploads \cup {Spare}]
  OBVIOUS
<1> QED
  BY <1>1, <1>2 DEF Uploaded, Record

LEMMA KeyIsAnUpload ==
    ASSUME Typed, uploads < MaxUploads
    PROVE  Key \in Uploads /\ uploads + 1 \in Uploads
BY RepairAssumption DEF Typed, Uploads, Key

(* A put writes nothing over what a node has. *)
LEMMA WrittenTypes ==
    ASSUME Typed, NEW S, NEW g \in Uploads
    PROVE  /\ Written(S, g) \in [Nodes \X Indices -> Stored]
           /\ \A x \in Nodes \X Indices : held[x] # None => Written(S, g)[x] = held[x]
BY DEF Typed, Written, Stored, Data

LEMMA StoreTypes ==
    ASSUME Typed, NEW n \in Nodes, NEW i \in Indices, NEW data \in Data
    PROVE  /\ _store_shard(n, i, data) \in [Nodes \X Indices -> Stored]
           /\ \A x \in Nodes \X Indices : held[x] # None =>
                 _store_shard(n, i, data)[x] = held[x]
           /\ Kept(n, i, data) \in SUBSET (Nodes \X Indices)
           /\ \/ _store_shard(n, i, data)[<<n, i>>] = data
              \/ <<n, i>> \in Kept(n, i, data)
<1>1. <<n, i>> \in Nodes \X Indices /\ data \in Stored
  BY DEF Stored
<1>2. held \in [Nodes \X Indices -> Stored]
  BY DEF Typed
<1> QED
  BY <1>1, <1>2 DEF _store_shard, Kept

LEMMA InitTypes == Init => Typed
<1> SUFFICES ASSUME Init PROVE Typed
  OBVIOUS
<1>1. job \in Jobs /\ InHandAt
  BY FS_EmptySet DEF Init, Resting, Jobs, Stages, Stored, InHandAt
<1>2. faults \in 0 .. MaxFaults /\ uploads \in Uploads /\ lists \in BOOLEAN
  BY RepairAssumption, Constants DEF Init
<1> QED
  BY <1>1, <1>2 DEF Init, Typed, Stored

LEMMA JobUnchanged ==
    ASSUME Typed, job' = job
    PROVE  job' \in Jobs /\ InHandAt'
BY DEF Typed, InHandAt

LEMMA RestingTypes ==
    ASSUME Finished
    PROVE  job' \in Jobs /\ InHandAt'
<1>1. Resting \in Jobs
  BY DEF Resting, Jobs, Stages, Stored
<1> QED
  BY <1>1, FS_EmptySet DEF Finished, Resting, InHandAt

LEMMA OthersTypes ==
    ASSUME Typed,
           \/ Put \/ Delete
           \/ \E n \in Nodes : Stop(n) \/ Expire(n) \/ Return(n)
           \/ \E i \in Indices, n \in Nodes : TrackerRepairs(i, n)
    PROVE  Typed'
<1>1. CASE Put
  <2>1. /\ Key \in Uploads /\ uploads' \in Uploads /\ uploads' = uploads + 1
        /\ alive # {} /\ held' = Written(Indices, Key) /\ file' = Uploaded(Key)
    BY <1>1, KeyIsAnUpload DEF Put, Upload
  <2>2. held' \in [Nodes \X Indices -> Stored] /\ file' \in Record
    BY <2>1, WrittenTypes, UploadedIsARecord
  <2>3. crossed' \in BOOLEAN
    BY <1>1 DEF Put, Upload
  <2> QED
    BY <1>1, <2>1, <2>2, <2>3, JobUnchanged DEF Put, Typed, mode, nodes
<1>2. CASE Delete
  <2>1. held' \in [Nodes \X Indices -> Stored]
    BY <1>2 DEF Delete, Typed, Stored
  <2> QED
    BY <1>2, <2>1, JobUnchanged DEF Delete, Typed, mode, nodes
<1>3. ASSUME NEW n \in Nodes, Stop(n) PROVE Typed'
  <2>1. held' \in [Nodes \X Indices -> Stored] /\ lost' \subseteq Nodes \X Indices
    BY <1>3 DEF Stop, Typed, Stored
  <2>2. faults' \in 0 .. MaxFaults
    BY <1>3, RepairAssumption DEF Stop, Typed
  <2> QED
    BY <1>3, <2>1, <2>2, JobUnchanged DEF Stop, Typed, mode, nodes
<1>4. ASSUME NEW n \in Nodes, Expire(n) \/ Return(n) PROVE Typed'
  BY <1>4, JobUnchanged DEF Expire, Return, Typed, mode, nodes, history
<1>5. ASSUME NEW i \in Indices, NEW n \in Nodes, TrackerRepairs(i, n) PROVE Typed'
  <2>1. file \in Record /\ file.chash[i] \in Data
    BY <1>5, FileIsARecord DEF TrackerRepairs, Record, Data
  <2>2. held' \in [Nodes \X Indices -> Stored] /\ lost' \subseteq Nodes \X Indices
    BY <1>5, <2>1, StoreTypes DEF TrackerRepairs, Typed
  <2>3. file' \in Record
    BY <1>5, <2>1 DEF TrackerRepairs, Record, Placement, Data
  <2> QED
    BY <1>5, <2>2, <2>3, JobUnchanged DEF TrackerRepairs, Typed, mode, nodes
<1> QED
  BY <1>1, <1>2, <1>3, <1>4, <1>5

(* A shard that has been dealt with is off the list and counted once.      *)
LEMMA OneLess ==
    ASSUME Typed, job.todo # {}
    PROVE  /\ Least(job.todo) \in job.todo /\ Least(job.todo) \in Indices
           /\ job.todo \ {Least(job.todo)} \subseteq job.dead
           /\ job.repaired + Cardinality(job.todo \ {Least(job.todo)}) + 1
                 <= Cardinality(job.dead)
           /\ Cardinality(job.todo \ {Least(job.todo)}) \in Nat
           /\ Cardinality(job.dead) \in Nat
<1>1. /\ job.todo \in SUBSET Indices /\ job.dead \in SUBSET Indices
      /\ job.todo \subseteq job.dead /\ job.repaired \in Nat
      /\ job.repaired + Cardinality(job.todo) <= Cardinality(job.dead)
  BY DEF Typed, Jobs, InHandAt
<1>2. Least(job.todo) \in job.todo
  BY <1>1, Constants, LeastIsIn
<1>3. /\ Cardinality(job.todo) \in Nat /\ Cardinality(job.dead) \in Nat
      /\ Cardinality(job.todo \ {Least(job.todo)}) = Cardinality(job.todo) - 1
  BY <1>1, <1>2, SubsetsAreFinite
<1>4. job.todo \ {Least(job.todo)} \in SUBSET Indices
  BY <1>1
<1>5. Cardinality(job.todo \ {Least(job.todo)}) \in Nat
  BY <1>4, SubsetsAreFinite
<1> QED
  BY <1>1, <1>2, <1>3, <1>5

LEMMA NextChunkTypes ==
    ASSUME Typed, NextChunk, job.at # "idle"
    PROVE  job' \in Jobs /\ InHandAt'
<1>1. CASE job.dead = InHand
  BY <1>1, RestingTypes DEF NextChunk
<1>2. CASE job.dead # InHand
  <2> DEFINE d == job.dead \ InHand
  <2>1. job' = [job EXCEPT !.at = "collect", !.dead = d, !.todo = {},
                   !.data = None, !.meta = None, !.repaired = 0]
    BY <1>2 DEF NextChunk
  <2>2. d \in SUBSET Indices /\ job \in Jobs /\ job.fmeta \in Record
    BY DEF Typed, Jobs, InHandAt
  <2>3. Cardinality(d) \in Nat
    BY <2>2, SubsetsAreFinite
  <2> HIDE DEF d
  <2>4. job' \in Jobs
    BY <2>1, <2>2 DEF Jobs, Stages, Stored
  <2>5. /\ job'.at = "collect" /\ job'.dead = d /\ job'.todo = {}
        /\ job'.repaired = 0 /\ job'.fmeta = job.fmeta
    BY <2>1, <2>2 DEF Jobs
  <2> QED
    BY <2>2, <2>3, <2>4, <2>5, FS_EmptySet DEF InHandAt
<1> QED
  BY <1>1, <1>2

LEMMA StartTypes ==
    ASSUME Typed, NEW watcher \in BOOLEAN, RepairStart(watcher)
    PROVE  Typed'
<1>1. CASE UNCHANGED job
  BY <1>1, JobUnchanged DEF RepairStart, Typed, mode, nodes, history
<1>2. CASE job' = [Resting EXCEPT !.at = IF watcher THEN "health" ELSE "local",
                       !.fmeta = file, !.dead = Dead(file.map)] /\ file # None
  <2> DEFINE d == Dead(file.map)
  <2>1. d \in SUBSET Indices /\ file \in Record
    BY <1>2, DeadAreIndices, FileIsARecord
  <2>2. Cardinality(d) \in Nat
    BY <2>1, SubsetsAreFinite
  <2> HIDE DEF d
  <2>3. job' \in Jobs
    BY <1>2, <2>1 DEF d, Resting, Jobs, Stages, Stored
  <2>4. /\ job'.at \in {"health", "local"} /\ job'.dead = d /\ job'.todo = {}
        /\ job'.repaired = 0 /\ job'.fmeta = file
    BY <1>2 DEF d, Resting
  <2>5. InHandAt'
    BY <2>1, <2>2, <2>4, FS_EmptySet DEF InHandAt
  <2> QED
    BY <1>2, <2>3, <2>5 DEF RepairStart, Typed, mode, nodes, history
<1> QED
  BY <1>1, <1>2 DEF RepairStart

LEMMA HealthTypes ==
    ASSUME Typed, CheckHealth
    PROVE  Typed'
<1>1. CASE Finished
  BY <1>1, RestingTypes DEF CheckHealth, Typed, mode, nodes, history
<1>2. CASE job' = [job EXCEPT !.at = "spares", !.dead = Dead(file.map)]
  <2> DEFINE d == Dead(file.map)
  <2>1. d \in SUBSET Indices /\ job \in Jobs /\ job.fmeta \in Record
        /\ job.repaired = 0 /\ job.todo = {}
    BY DeadAreIndices DEF CheckHealth, Typed, InHandAt
  <2>2. Cardinality(d) \in Nat
    BY <2>1, SubsetsAreFinite
  <2> HIDE DEF d
  <2>3. job' \in Jobs
    BY <1>2, <2>1 DEF d, Jobs, Stages
  <2>4. /\ job'.at = "spares" /\ job'.dead = d /\ job'.todo = {}
        /\ job'.repaired = 0 /\ job'.fmeta = job.fmeta
    BY <1>2, <2>1 DEF d, Jobs
  <2>5. InHandAt'
    BY <2>1, <2>2, <2>4, FS_EmptySet DEF InHandAt
  <2> QED
    BY <1>2, <2>3, <2>5 DEF CheckHealth, Typed, mode, nodes, history
<1> QED
  BY <1>1, <1>2 DEF CheckHealth

LEMMA SparesStartTypes ==
    ASSUME Typed, SparesStart
    PROVE  Typed'
<1>1. CASE Finished
  BY <1>1, RestingTypes DEF SparesStart, Typed, mode, nodes, history
<1>2. CASE ~ Finished
  <2>1. /\ job' = [job EXCEPT !.at = "spare", !.meta = file, !.todo = job.dead,
                      !.preferred = Preferred(file.map)]
        /\ file # None
    BY <1>2 DEF SparesStart
  <2>2. file \in Record /\ Preferred(file.map) \in SUBSET Nodes
    BY <2>1, FileIsARecord DEF Preferred, Typed
  <2>3. job \in Jobs /\ job.fmeta \in Record /\ job.dead \in SUBSET Indices
        /\ job.repaired = 0
    BY DEF SparesStart, Typed, InHandAt, Jobs
  <2>4. Cardinality(job.dead) \in Nat
    BY <2>3, SubsetsAreFinite
  <2>5. job' \in Jobs
    BY <2>1, <2>2, <2>3 DEF Jobs, Stages
  <2>6. /\ job'.at = "spare" /\ job'.dead = job.dead /\ job'.todo = job.dead
        /\ job'.repaired = 0 /\ job'.fmeta = job.fmeta /\ job'.meta = file
    BY <2>1, <2>3 DEF Jobs
  <2>7. InHandAt'
    BY <2>2, <2>3, <2>4, <2>6 DEF InHandAt
  <2> QED
    BY <2>5, <2>7 DEF SparesStart, Typed, mode, nodes, history
<1> QED
  BY <1>1, <1>2

LEMMA StoreSpareTypes ==
    ASSUME Typed, NEW n \in Nodes, StoreSpare(n)
    PROVE  Typed'
<1> DEFINE i == Least(job.todo)
           rest == job.todo \ {i}
<1>1. /\ job.at = "spare" /\ job.todo # {} /\ lost' = lost \cup {<<n, i>>}
      /\ held' = _store_shard(n, i, Spare)
      /\ job' = [job EXCEPT !.todo = @ \ {i}, !.meta.map[i] = n, !.repaired = @ + 1]
  BY DEF StoreSpare
<1>2. /\ i \in Indices /\ rest \subseteq job.dead /\ Cardinality(rest) \in Nat
      /\ job.repaired + Cardinality(rest) + 1 <= Cardinality(job.dead)
      /\ Cardinality(job.dead) \in Nat
  BY <1>1, OneLess
<1>3. job \in Jobs /\ job.fmeta \in Record /\ job.meta \in Record
      /\ job.dead \in SUBSET Indices /\ job.repaired \in Nat
  BY <1>1 DEF Typed, InHandAt, Jobs
<1> DEFINE meta == [job.meta EXCEPT !.map[i] = n]
<1>4. meta \in Record
  BY <1>2, <1>3 DEF Record, Placement
<1> DEFINE count == job.repaired + 1
<1>5. /\ job' = [job EXCEPT !.todo = rest, !.meta = meta, !.repaired = count]
      /\ count \in Nat
  BY <1>1, <1>3 DEF Jobs
<1>6. held' \in [Nodes \X Indices -> Stored]
  BY <1>1, <1>2, StoreTypes DEF Data
<1>7. lost' \subseteq Nodes \X Indices
  BY <1>1, <1>2 DEF Typed
<1> HIDE DEF i, rest, meta, count
<1>8. rest \subseteq Indices
  BY <1>2, <1>3
<1>9. job' \in Jobs
  BY <1>3, <1>4, <1>5, <1>8 DEF Jobs
<1>10. /\ job'.at = "spare" /\ job'.dead = job.dead /\ job'.todo = rest
       /\ job'.repaired = count /\ job'.fmeta = job.fmeta
       /\ job'.meta = meta
  BY <1>1, <1>3, <1>5 DEF Jobs
<1>11. InHandAt'
  BY <1>2, <1>3, <1>4, <1>10 DEF InHandAt, count
<1> QED
  BY <1>6, <1>7, <1>9, <1>11 DEF StoreSpare, Typed, mode, nodes

LEMMA OneSkippedTypes ==
    ASSUME Typed, NoSpare \/ PlaceFails
    PROVE  Typed'
<1> DEFINE i == Least(job.todo)
           rest == job.todo \ {i}
<1>1. /\ job.at \in {"spare", "place"} /\ job.todo # {}
      /\ job' = [job EXCEPT !.todo = @ \ {i}]
  BY DEF NoSpare, PlaceFails
<1>2. /\ rest \subseteq job.dead /\ Cardinality(rest) \in Nat
      /\ job.repaired + Cardinality(rest) + 1 <= Cardinality(job.dead)
      /\ Cardinality(job.dead) \in Nat
  BY <1>1, OneLess
<1>3. job \in Jobs /\ job.dead \in SUBSET Indices /\ job.repaired \in Nat
  BY <1>1 DEF Typed, InHandAt, Jobs
<1>4. job' = [job EXCEPT !.todo = rest]
  BY <1>1, <1>3 DEF Jobs
<1> HIDE DEF i, rest
<1>5. rest \subseteq Indices
  BY <1>2, <1>3
<1>6. job' \in Jobs
  BY <1>3, <1>4, <1>5 DEF Jobs
<1>7. /\ job'.at = job.at /\ job'.dead = job.dead /\ job'.todo = rest
      /\ job'.repaired = job.repaired /\ job'.fmeta = job.fmeta
      /\ job'.meta = job.meta /\ job'.data = job.data
  BY <1>1, <1>3, <1>4 DEF Jobs
<1>8. job.repaired + Cardinality(rest) <= Cardinality(job.dead)
  BY <1>2, <1>3
<1>9. InHandAt'
  BY <1>1, <1>2, <1>7, <1>8 DEF InHandAt, Typed
<1> QED
  BY <1>6, <1>9 DEF NoSpare, PlaceFails, Typed, mode, nodes, history

LEMMA SparesDoneTypes ==
    ASSUME Typed, SparesDone
    PROVE  Typed'
<1>1. job \in Jobs /\ job.fmeta \in Record /\ job.meta \in Record /\ job.todo = {}
  BY DEF SparesDone, Typed, InHandAt
<1>2. file' \in Record \cup {None}
  BY <1>1 DEF SparesDone, Typed
<1>3. CASE Finished
  BY <1>2, <1>3, RestingTypes DEF SparesDone, Typed, mode, nodes, history
<1>4. CASE ~ Finished
  <2> DEFINE d == job.dead \ First(job.dead, job.repaired)
  <2>1. job' = [job EXCEPT !.at = "local", !.meta = None, !.repaired = 0,
                   !.dead = d, !.preferred = {}]
    BY <1>4 DEF SparesDone
  <2>2. d \in SUBSET Indices
    BY <1>1 DEF Jobs
  <2>3. Cardinality(d) \in Nat
    BY <2>2, SubsetsAreFinite
  <2> HIDE DEF d
  <2>4. job' \in Jobs
    BY <1>1, <2>1, <2>2 DEF Jobs, Stages
  <2>5. /\ job'.at = "local" /\ job'.dead = d /\ job'.todo = {}
        /\ job'.repaired = 0 /\ job'.fmeta = job.fmeta
    BY <1>1, <2>1 DEF Jobs
  <2>6. InHandAt'
    BY <1>1, <2>3, <2>5, FS_EmptySet DEF InHandAt
  <2> QED
    BY <1>2, <2>4, <2>6 DEF SparesDone, Typed, mode, nodes, history
<1> QED
  BY <1>3, <1>4

LEMMA ReuploadTypes ==
    ASSUME Typed, Reupload
    PROVE  Typed'
<1>1. job' \in Jobs /\ InHandAt'
  BY RestingTypes DEF Reupload
<1>2. CASE UNCHANGED <<held, file, uploads, crossed>>
  BY <1>1, <1>2 DEF Reupload, Typed, mode, nodes
<1>3. CASE ~ UNCHANGED <<held, file, uploads, crossed>>
  <2>1. /\ Key \in Uploads /\ uploads' \in Uploads /\ alive # {}
        /\ held' = Written(Indices, Key) /\ file' = Uploaded(Key)
        /\ crossed' = Keeps(Key)
    BY <1>3, KeyIsAnUpload DEF Reupload
  <2>2. held' \in [Nodes \X Indices -> Stored] /\ file' \in Record
        /\ crossed' \in BOOLEAN
    BY <2>1, WrittenTypes, UploadedIsARecord DEF Keeps
  <2> QED
    BY <1>1, <2>1, <2>2 DEF Reupload, Typed, mode, nodes
<1> QED
  BY <1>2, <1>3

LEMMA NoLocalFileTypes ==
    ASSUME Typed, NoLocalFile
    PROVE  Typed'
<1>1. job \in Jobs /\ job.at = "local" /\ job' = [job EXCEPT !.at = "collect"]
  BY DEF NoLocalFile, Typed
<1>2. job' \in Jobs
  BY <1>1 DEF Jobs, Stages
<1>3. /\ job'.at = "collect" /\ job'.dead = job.dead /\ job'.todo = job.todo
      /\ job'.repaired = job.repaired /\ job'.fmeta = job.fmeta
  BY <1>1 DEF Jobs
<1>4. InHandAt'
  BY <1>1, <1>3 DEF InHandAt, Typed
<1>5. CASE UNCHANGED <<held, uploads, lost>>
  BY <1>2, <1>4, <1>5 DEF NoLocalFile, Typed, mode, nodes
<1>6. CASE ~ UNCHANGED <<held, uploads, lost>>
  <2>1. Key \in Uploads /\ uploads' \in Uploads
    BY <1>6, KeyIsAnUpload DEF NoLocalFile
  <2>2. PICK c \in 1 .. NChunks :
           held' = Written({i \in Indices : ChunkOf(i) < c /\ Ring(i) \in up}, Key)
    BY <1>6 DEF NoLocalFile
  <2>3. held' \in [Nodes \X Indices -> Stored]
    BY <2>1, <2>2, WrittenTypes
  <2>4. lost' \subseteq Nodes \X Indices
    BY <1>6 DEF NoLocalFile, Typed
  <2> QED
    BY <1>2, <1>4, <2>1, <2>3, <2>4 DEF NoLocalFile, Typed, mode, nodes
<1> QED
  BY <1>5, <1>6

(* What is decoded is what the nodes sent, checked against its hash.       *)
LEMMA CollectTypes ==
    ASSUME Typed, Collect
    PROVE  Typed'
<1> DEFINE map == IF lists THEN job.fmeta.cmap ELSE job.fmeta.map
           hash == IF lists THEN job.fmeta.chash ELSE job.fmeta.hash
           good == {i \in Indices \ job.dead :
                       /\ lists => ChunkOf(i) = Chunk
                       /\ Verified(map, hash, i)}
<1>1. /\ job.at = "collect" /\ job \in Jobs /\ job.fmeta \in Record
      /\ job.repaired = 0 /\ job.dead \in SUBSET Indices
  BY DEF Collect, Typed, InHandAt, Jobs
<1>2. PICK answered \in SUBSET good :
         IF Cardinality(First(answered, K)) < K
               \/ \E i \in First(answered, K) : ChunkOf(i) # Chunk THEN NextChunk
         ELSE job' = [job EXCEPT !.at = "place",
                         !.todo = {i \in InHand : ChunkOf(i) = Chunk},
                         !.data = held[<<map[Least(First(answered, K))],
                                         Least(First(answered, K))>>],
                         !.preferred = Preferred(job.fmeta.map)]
  BY DEF Collect
<1> DEFINE got == First(answered, K)
<1>3. CASE NextChunk
  <2>1. job' \in Jobs /\ InHandAt'
    BY <1>1, <1>3, NextChunkTypes
  <2> QED
    BY <2>1 DEF Collect, Typed, mode, nodes, history
<1>4. CASE ~ NextChunk
  <2> DEFINE i == Least(got)
             todo == {j \in InHand : ChunkOf(j) = Chunk}
             data == held[<<map[i], i>>]
             preferred == Preferred(job.fmeta.map)
  <2>1. /\ ~ (Cardinality(got) < K)
        /\ job' = [job EXCEPT !.at = "place", !.todo = todo, !.data = data,
                      !.preferred = preferred]
    BY <1>2, <1>4
  <2>2. got # {}
    BY <2>1, FS_EmptySet, RepairAssumption
  <2>3. got \subseteq good /\ got \subseteq Nat
    BY Constants DEF First
  <2>4. i \in good
    BY <2>2, <2>3, LeastIsIn
  <2>5. data = hash[i] /\ i \in Indices
    BY <2>4 DEF Verified
  <2>6. data \in Data
    BY <2>5, <1>1 DEF Record, Data
  <2>7. todo \subseteq job.dead /\ todo \in SUBSET Indices
    BY <1>1 DEF InHand
  <2>8. Cardinality(todo) \in Nat /\ Cardinality(todo) <= Cardinality(job.dead)
    BY <1>1, <2>7, SubsetsAreFinite
  <2>9. preferred \in SUBSET Nodes
    BY DEF Preferred, Typed
  <2> HIDE DEF todo, data, preferred, i, got
  <2>10. job' \in Jobs
    BY <1>1, <2>1, <2>6, <2>7, <2>9 DEF Jobs, Stages, Stored
  <2>11. /\ job'.at = "place" /\ job'.dead = job.dead /\ job'.todo = todo
         /\ job'.repaired = 0 /\ job'.fmeta = job.fmeta /\ job'.data = data
    BY <1>1, <2>1 DEF Jobs
  <2>12. InHandAt'
    BY <1>1, <2>6, <2>7, <2>8, <2>11 DEF InHandAt
  <2> QED
    BY <2>10, <2>12 DEF Collect, Typed, mode, nodes, history
<1> QED
  BY <1>3, <1>4

LEMMA PlaceTypes ==
    ASSUME Typed, NEW n \in Nodes, Place(n)
    PROVE  Typed'
<1> DEFINE i == Least(job.todo)
           rest == job.todo \ {i}
           count == job.repaired + 1
           fmeta == Placed(job.fmeta, i, n, job.data)
<1>1. /\ job.at = "place" /\ job.todo # {} /\ held' = _store_shard(n, i, job.data)
      /\ lost' = lost \cup Kept(n, i, job.data)
  BY DEF Place
<1>0. job' = [job EXCEPT !.todo = @ \ {i}, !.repaired = @ + 1, !.fmeta = fmeta]
  BY DEF Place
<1>2. /\ i \in Indices /\ rest \subseteq job.dead /\ Cardinality(rest) \in Nat
      /\ job.repaired + Cardinality(rest) + 1 <= Cardinality(job.dead)
      /\ Cardinality(job.dead) \in Nat
  BY <1>1, OneLess
<1>3. job \in Jobs /\ job.fmeta \in Record /\ job.data \in Data
      /\ job.dead \in SUBSET Indices /\ job.repaired \in Nat
  BY <1>1 DEF Typed, InHandAt, Jobs
<1>4. fmeta \in Record
  BY <1>2, <1>3 DEF Placed, Record, Placement, Data
<1>5. held' \in [Nodes \X Indices -> Stored] /\ lost' \subseteq Nodes \X Indices
  BY <1>1, <1>2, <1>3, StoreTypes DEF Typed
<1>6. /\ job' = [job EXCEPT !.todo = rest, !.repaired = count, !.fmeta = fmeta]
      /\ count \in Nat
  BY <1>0, <1>1, <1>3 DEF Jobs
<1> HIDE DEF i, rest, fmeta, count
<1>7. rest \subseteq Indices
  BY <1>2, <1>3
<1>8. job' \in Jobs
  BY <1>3, <1>4, <1>6, <1>7 DEF Jobs
<1>9. /\ job'.at = "place" /\ job'.dead = job.dead /\ job'.todo = rest
      /\ job'.repaired = count /\ job'.fmeta = fmeta /\ job'.data = job.data
  BY <1>1, <1>3, <1>6 DEF Jobs
<1>10. InHandAt'
  BY <1>2, <1>3, <1>4, <1>9 DEF InHandAt, count
<1> QED
  BY <1>5, <1>8, <1>10 DEF Place, Typed, mode, nodes

LEMMA RefetchTypes ==
    ASSUME Typed, Refetch
    PROVE  Typed'
<1>1. /\ job.at = "place" /\ job.todo = {} /\ job \in Jobs /\ job.fmeta \in Record
      /\ job.repaired + Cardinality(job.todo) <= Cardinality(job.dead)
  BY DEF Refetch, Typed, InHandAt
<1>2. CASE NextChunk
  BY <1>1, <1>2, NextChunkTypes DEF Refetch, Typed, mode, nodes, history
<1>3. CASE ~ NextChunk
  <2>1. job' = [job EXCEPT !.at = "update", !.meta = file] /\ file # None
    BY <1>3 DEF Refetch
  <2>2. file \in Record
    BY <2>1, FileIsARecord
  <2>3. job' \in Jobs
    BY <1>1, <2>1, <2>2 DEF Jobs, Stages
  <2>4. /\ job'.at = "update" /\ job'.dead = job.dead /\ job'.todo = job.todo
        /\ job'.repaired = job.repaired /\ job'.fmeta = job.fmeta /\ job'.meta = file
    BY <1>1, <2>1 DEF Jobs
  <2>5. InHandAt'
    BY <1>1, <2>2, <2>4 DEF InHandAt
  <2> QED
    BY <2>3, <2>5 DEF Refetch, Typed, mode, nodes, history
<1> QED
  BY <1>2, <1>3

LEMMA UpdateTypes ==
    ASSUME Typed, Update
    PROVE  Typed'
<1>1. job.at = "update" /\ job \in Jobs /\ job.fmeta \in Record /\ job.meta \in Record
  BY DEF Update, Typed, InHandAt
<1>2. Merged(job.meta, job.fmeta) \in Record
  BY <1>1 DEF Merged, Record, Placement
<1>3. file' \in Record \cup {None}
  BY <1>2 DEF Update, Typed
<1>4. job' \in Jobs /\ InHandAt'
  BY <1>1, NextChunkTypes DEF Update
<1> QED
  BY <1>3, <1>4 DEF Update, Typed, mode, nodes, history

LEMMA StepTypes == Typed /\ [Next]_vars => Typed'
<1> SUFFICES ASSUME Typed, [Next]_vars PROVE Typed'
  OBVIOUS
<1>1. CASE RepairStep
  BY <1>1, HealthTypes, SparesStartTypes, OneSkippedTypes, SparesDoneTypes,
     ReuploadTypes, NoLocalFileTypes, CollectTypes, RefetchTypes, UpdateTypes,
     StoreSpareTypes, PlaceTypes DEF RepairStep
<1>2. CASE \E watcher \in BOOLEAN : RepairStart(watcher)
  BY <1>2, StartTypes
<1>3. CASE UNCHANGED vars
  BY <1>3, JobUnchanged DEF vars, mode, nodes, history, Typed
<1> QED
  BY <1>1, <1>2, <1>3, OthersTypes DEF Next

(* The record and the repair are well formed: no more shards are counted   *)
(* as repaired than were on dead nodes, over all the chunks of a repair.   *)
THEOREM TypeCorrect == Spec => []TypeOK
<1>1. Spec => []Typed
  BY InitTypes, StepTypes, PTL DEF Spec
<1> QED
  BY <1>1, TypedIsTypeOK, PTL

----------------------------------------------------------------------------
(* Downloads *)

(* No step but a deletion takes a shard from a node that the history does  *)
(* not name: stores skip what is there.                                    *)
ShardsStay ==
    /\ lost \subseteq lost'
    /\ \A x \in Nodes \X Indices :
          held[x] # None => held'[x] = held[x] \/ x \in lost'

LEMMA SoundStays ==
    ASSUME Typed, ShardsStay, NEW rec \in Record, NEW g \in Uploads,
           Sound(rec, g, held, lost)
    PROVE  Sound(rec, g, held', lost')
<1>1. \A i \in Indices : <<rec.cmap[i], i>> \in Nodes \X Indices
  BY DEF Record, Placement
<1>2. g # None
  BY Constants
<1> QED
  BY <1>1, <1>2 DEF Sound, ShardsStay

LEMMA DeleteAside ==
    ASSUME Typed, Next, ~ Delete
    PROVE  ShardsStay
<1>1. ASSUME UNCHANGED held, lost \subseteq lost' PROVE ShardsStay
  BY <1>1 DEF ShardsStay
<1>2. CASE Put
  <2>1. Key \in Uploads /\ held' = Written(Indices, Key) /\ lost' = lost
    BY <1>2, KeyIsAnUpload DEF Put, Upload
  <2> QED
    BY <2>1, WrittenTypes DEF ShardsStay
<1>3. ASSUME NEW n \in Nodes, Stop(n) PROVE ShardsStay
  <2>1. CASE UNCHANGED <<held, lost>>
    BY <2>1, <1>1
  <2>2. CASE /\ held' = [x \in DOMAIN held |-> IF x[1] = n THEN None ELSE held[x]]
             /\ lost' = lost \cup ({n} \X Indices)
    BY <2>2 DEF ShardsStay, Typed
  <2> QED
    BY <1>3, <2>1, <2>2 DEF Stop
<1>4. ASSUME NEW n \in Nodes, Expire(n) \/ Return(n) PROVE ShardsStay
  BY <1>4, <1>1 DEF Expire, Return, history
<1>5. ASSUME NEW i \in Indices, NEW n \in Nodes, TrackerRepairs(i, n) PROVE ShardsStay
  <2>1. file.chash[i] \in Data
    BY <1>5, FileIsARecord DEF TrackerRepairs, Record, Data
  <2>2. held' = _store_shard(n, i, file.chash[i]) /\ lost \subseteq lost'
    BY <1>5 DEF TrackerRepairs
  <2> QED
    BY <2>1, <2>2 DEF ShardsStay, _store_shard, Typed
<1>6. ASSUME NEW n \in Nodes, StoreSpare(n) PROVE ShardsStay
  <2>1. /\ Least(job.todo) \in Indices /\ Spare \in Data
        /\ held' = _store_shard(n, Least(job.todo), Spare) /\ lost \subseteq lost'
    BY <1>6, OneLess DEF StoreSpare, Data
  <2> QED
    BY <2>1 DEF ShardsStay, _store_shard, Typed
<1>7. ASSUME NEW n \in Nodes, Place(n) PROVE ShardsStay
  <2>1. /\ Least(job.todo) \in Indices /\ job.data \in Data
        /\ held' = _store_shard(n, Least(job.todo), job.data) /\ lost \subseteq lost'
    BY <1>7, OneLess DEF Place, Typed, InHandAt
  <2> QED
    BY <2>1 DEF ShardsStay, _store_shard, Typed
<1>8. CASE Reupload
  <2>1. CASE UNCHANGED held
    BY <1>8, <2>1, <1>1 DEF Reupload
  <2>2. CASE ~ UNCHANGED held
    <3>1. Key \in Uploads /\ held' = Written(Indices, Key) /\ lost' = lost
      BY <1>8, <2>2, KeyIsAnUpload DEF Reupload
    <3> QED
      BY <3>1, WrittenTypes DEF ShardsStay
  <2> QED
    BY <2>1, <2>2
<1>9. CASE NoLocalFile
  <2>1. CASE UNCHANGED <<held, lost>>
    BY <2>1, <1>1
  <2>2. CASE ~ UNCHANGED <<held, lost>>
    <3>1. Key \in Uploads /\ lost \subseteq lost'
      BY <1>9, <2>2, KeyIsAnUpload DEF NoLocalFile
    <3>2. PICK c \in 1 .. NChunks :
             held' = Written({i \in Indices : ChunkOf(i) < c /\ Ring(i) \in up}, Key)
      BY <1>9, <2>2 DEF NoLocalFile
    <3> QED
      BY <3>1, <3>2, WrittenTypes DEF ShardsStay
  <2> QED
    BY <2>1, <2>2
<1>10. CASE CheckHealth \/ SparesStart \/ NoSpare \/ SparesDone \/ Collect
            \/ PlaceFails \/ Refetch \/ Update
            \/ \E watcher \in BOOLEAN : RepairStart(watcher)
  BY <1>10, <1>1 DEF CheckHealth, SparesStart, NoSpare, SparesDone, Collect,
     PlaceFails, Refetch, Update, RepairStart, history
<1> QED
  BY <1>2, <1>3, <1>4, <1>5, <1>6, <1>7, <1>8, <1>9, <1>10 DEF Next, RepairStep

(* What a step of a repair, or beside it, has to show: the record it       *)
(* leaves is of the upload the record was of, and so is what the repair    *)
(* then has in hand.                                                       *)
FileStays ==
    \/ file' = file
    \/ file # None /\ file' # None /\ Sound(file', file.of, held', lost')

JobGoesOn ==
    job'.at # "idle" =>
        /\ file # None
        /\ \/ job.at # "idle" /\ job'.fmeta = job.fmeta
           \/ Sound(job'.fmeta, file.of, held', lost')
        /\ \/ job'.meta = None
           \/ job.at # "idle" /\ job'.meta = job.meta
           \/ Sound(job'.meta, file.of, held', lost')
        /\ job'.at = "place" /\ lists => job'.data = file.of

LEMMA Continues ==
    ASSUME Typed, Typed', OfOneUpload, ShardsStay, UNCHANGED mode,
           FileStays, JobGoesOn
    PROVE  OfOneUpload'
<1>1. CASE file = None
  <2>1. job'.at = "idle" /\ file' = None
    BY <1>1 DEF FileStays, JobGoesOn
  <2> QED
    BY <2>1 DEF OfOneUpload
<1>2. CASE file # None
  <2>1. PICK g \in Uploads : g = file.of
    BY <1>2, FileIsARecord
  <2>2. file \in Record /\ Sound(file, g, held, lost)
    BY <1>2, <2>1, FileIsARecord DEF OfOneUpload
  <2>3. Sound(file, g, held', lost')
    BY <2>1, <2>2, SoundStays
  <2>4. Sound(file', g, held', lost') /\ file' # None
    <3>1. CASE file' = file
      BY <3>1, <2>3, <1>2
    <3>2. CASE file' # file
      BY <3>2, <2>1 DEF FileStays
    <3> QED
      BY <3>1, <3>2
  <2>5. file'.of = g
    BY <2>4 DEF Sound
  <2>6. convergent' => g = 0
    BY <1>2, <2>1 DEF OfOneUpload, mode
  <2>7. ASSUME job'.at # "idle"
        PROVE  Sound(job'.fmeta, g, held', lost')
    <3>1. CASE job.at # "idle" /\ job'.fmeta = job.fmeta
      <4>1. job.fmeta \in Record /\ Sound(job.fmeta, g, held, lost)
        BY <3>1, <2>1 DEF Typed, InHandAt, OfOneUpload
      <4> QED
        BY <3>1, <4>1, SoundStays
    <3> QED
      BY <2>7, <2>1, <3>1 DEF JobGoesOn
  <2>8. ASSUME job'.at # "idle", job'.meta # None
        PROVE  Sound(job'.meta, g, held', lost')
    <3>1. CASE job.at # "idle" /\ job'.meta = job.meta
      <4>1. job.meta \in Record /\ Sound(job.meta, g, held, lost)
        BY <2>8, <3>1, <2>1 DEF Typed, Jobs, OfOneUpload
      <4> QED
        BY <3>1, <4>1, SoundStays
    <3> QED
      BY <2>8, <2>1, <3>1 DEF JobGoesOn
  <2>9. job'.at = "place" /\ lists' => job'.data = g
    BY <2>1 DEF JobGoesOn, mode
  <2> QED
    BY <2>4, <2>5, <2>6, <2>7, <2>8, <2>9 DEF OfOneUpload
<1> QED
  BY <1>1, <1>2

LEMMA NextChunkContinues ==
    ASSUME Typed, NextChunk
    PROVE  \/ job'.at = "idle"
           \/ job'.at = "collect" /\ job'.fmeta = job.fmeta /\ job'.meta = None
<1>1. job \in Jobs
  BY DEF Typed
<1>2. CASE job.dead = InHand
  BY <1>2 DEF NextChunk, Finished, Resting
<1>3. CASE job.dead # InHand
  <2>1. job' = [job EXCEPT !.at = "collect", !.dead = @ \ InHand, !.todo = {},
                   !.data = None, !.meta = None, !.repaired = 0]
    BY <1>3 DEF NextChunk
  <2> QED
    BY <1>1, <2>1 DEF Jobs
<1> QED
  BY <1>2, <1>3

LEMMA FileIsSound ==
    ASSUME Typed, OfOneUpload, ShardsStay, file # None
    PROVE  Sound(file, file.of, held', lost')
BY FileIsARecord, SoundStays DEF OfOneUpload

(* The repair's own steps, but for those that store or write something. *)
LEMMA QuietSteps ==
    ASSUME Typed, Typed', OfOneUpload, ShardsStay,
           \/ CheckHealth \/ SparesStart \/ NoSpare \/ NoLocalFile
           \/ PlaceFails \/ Refetch
           \/ \E watcher \in BOOLEAN : RepairStart(watcher)
    PROVE  OfOneUpload'
<1>1. UNCHANGED mode /\ file' = file /\ job \in Jobs
  BY DEF CheckHealth, SparesStart, NoSpare, NoLocalFile, PlaceFails, Refetch,
     RepairStart, Typed
<1>2. job.at # "idle" => file # None
  BY DEF OfOneUpload
<1>3. CASE CheckHealth
  <2>0. job.at # "idle"
    BY <1>3 DEF CheckHealth
  <2>1. CASE Finished
    BY <1>1, <2>1, Continues DEF FileStays, JobGoesOn, Finished, Resting
  <2>2. CASE job' = [job EXCEPT !.at = "spares", !.dead = Dead(file.map)]
    <3>1. job'.at = "spares" /\ job'.fmeta = job.fmeta /\ job'.meta = job.meta
      BY <1>1, <2>2 DEF Jobs
    <3> QED
      BY <1>1, <1>2, <2>0, <3>1, Continues DEF FileStays, JobGoesOn
  <2> QED
    BY <1>3, <2>1, <2>2 DEF CheckHealth
<1>4. CASE SparesStart
  <2>0. job.at # "idle"
    BY <1>4 DEF SparesStart
  <2>1. CASE Finished
    BY <1>1, <2>1, Continues DEF FileStays, JobGoesOn, Finished, Resting
  <2>2. CASE ~ Finished
    <3>1. job' = [job EXCEPT !.at = "spare", !.meta = file, !.todo = job.dead,
                     !.preferred = Preferred(file.map)]
      BY <1>4, <2>2 DEF SparesStart
    <3>2. job'.at = "spare" /\ job'.fmeta = job.fmeta /\ job'.meta = file
      BY <1>1, <3>1 DEF Jobs
    <3> QED
      BY <1>1, <1>2, <2>0, <3>2, FileIsSound, Continues DEF FileStays, JobGoesOn
  <2> QED
    BY <2>1, <2>2
<1>5. CASE NoSpare \/ PlaceFails \/ NoLocalFile
  <2>1. /\ job.at # "idle" /\ job'.fmeta = job.fmeta /\ job'.meta = job.meta
        /\ job'.data = job.data /\ (job'.at = "place" => job.at = "place")
    BY <1>1, <1>5 DEF NoSpare, PlaceFails, NoLocalFile, Jobs
  <2>2. job'.at = "place" /\ lists => job'.data = file.of
    BY <2>1 DEF OfOneUpload
  <2> QED
    BY <1>1, <1>2, <2>1, <2>2, Continues DEF FileStays, JobGoesOn
<1>6. CASE Refetch
  <2>1. job.at # "idle"
    BY <1>6 DEF Refetch
  <2>2. CASE NextChunk
    BY <1>1, <1>2, <2>1, <2>2, NextChunkContinues, Continues DEF FileStays, JobGoesOn
  <2>3. CASE ~ NextChunk
    <3>1. job'.at = "update" /\ job'.fmeta = job.fmeta /\ job'.meta = file
      BY <1>1, <1>6, <2>3 DEF Refetch, Jobs
    <3> QED
      BY <1>1, <1>2, <2>1, <3>1, FileIsSound, Continues DEF FileStays, JobGoesOn
  <2> QED
    BY <2>2, <2>3
<1>7. CASE \E watcher \in BOOLEAN : RepairStart(watcher)
  <2>1. \/ UNCHANGED job /\ job.at = "idle"
        \/ file # None /\ job'.at \in {"health", "local"}
                       /\ job'.fmeta = file /\ job'.meta = None
    BY <1>7 DEF RepairStart, Resting
  <2> QED
    BY <1>1, <2>1, FileIsSound, Continues DEF FileStays, JobGoesOn
<1> QED
  BY <1>3, <1>4, <1>5, <1>6, <1>7

LEMMA StoreSpareContinues ==
    ASSUME Typed, Typed', OfOneUpload, ShardsStay, NEW n \in Nodes, StoreSpare(n)
    PROVE  OfOneUpload'
<1> DEFINE i == Least(job.todo)
           meta == [job.meta EXCEPT !.map[i] = n]
<1>1. /\ job.at = "spare" /\ job.todo # {} /\ file' = file /\ UNCHANGED mode
      /\ job \in Jobs /\ job.meta \in Record
  BY DEF StoreSpare, Typed, InHandAt
<1>2. job' = [job EXCEPT !.todo = @ \ {i}, !.meta = meta, !.repaired = @ + 1]
  BY <1>1 DEF StoreSpare, Jobs
<1>3. i \in Indices /\ job.meta # None
  BY <1>1, OneLess, RepairAssumption
<1>4. /\ meta.of = job.meta.of /\ meta.chash = job.meta.chash
      /\ meta.cmap = job.meta.cmap
  BY <1>1 DEF Record
<1>5. file # None /\ Sound(job.meta, file.of, held, lost)
  BY <1>1, <1>3 DEF OfOneUpload
<1>6. Sound(job.meta, file.of, held', lost')
  BY <1>1, <1>5, FileIsARecord, SoundStays
<1>7. Sound(meta, file.of, held', lost')
  BY <1>4, <1>6 DEF Sound
<1> HIDE DEF meta
<1>8. job'.at = "spare" /\ job'.fmeta = job.fmeta /\ job'.meta = meta
  BY <1>1, <1>2 DEF Jobs
<1> QED
  BY <1>1, <1>5, <1>7, <1>8, Continues DEF FileStays, JobGoesOn

LEMMA SparesDoneContinues ==
    ASSUME Typed, Typed', OfOneUpload, ShardsStay, SparesDone
    PROVE  OfOneUpload'
<1>1. /\ job.at = "spare" /\ UNCHANGED mode /\ job \in Jobs /\ job.meta \in Record
      /\ file' \in {file, job.meta}
  BY DEF SparesDone, Typed, InHandAt
<1>2. file # None /\ job.meta # None /\ Sound(job.meta, file.of, held, lost)
  BY <1>1, RepairAssumption DEF OfOneUpload
<1>3. Sound(job.meta, file.of, held', lost')
  BY <1>1, <1>2, FileIsARecord, SoundStays
<1>4. FileStays
  BY <1>1, <1>2, <1>3 DEF FileStays
<1>5. CASE Finished
  BY <1>1, <1>4, <1>5, Continues DEF JobGoesOn, Finished, Resting
<1>6. CASE ~ Finished
  <2>1. job' = [job EXCEPT !.at = "local", !.meta = None, !.repaired = 0,
                   !.dead = @ \ First(@, job.repaired), !.preferred = {}]
    BY <1>6 DEF SparesDone
  <2>2. job'.at = "local" /\ job'.fmeta = job.fmeta /\ job'.meta = None
    BY <1>1, <2>1 DEF Jobs
  <2> QED
    BY <1>1, <1>2, <1>4, <2>2, Continues DEF JobGoesOn
<1> QED
  BY <1>5, <1>6

(* What is decoded is of the upload because the chunk's hashes are.        *)
LEMMA CollectContinues ==
    ASSUME Typed, Typed', OfOneUpload, ShardsStay, Collect
    PROVE  OfOneUpload'
<1> DEFINE map == IF lists THEN job.fmeta.cmap ELSE job.fmeta.map
           hash == IF lists THEN job.fmeta.chash ELSE job.fmeta.hash
           good == {i \in Indices \ job.dead :
                       /\ lists => ChunkOf(i) = Chunk
                       /\ Verified(map, hash, i)}
<1>1. /\ job.at = "collect" /\ job \in Jobs /\ file' = file /\ UNCHANGED mode
      /\ file # None /\ Sound(job.fmeta, file.of, held, lost)
  BY DEF Collect, Typed, OfOneUpload
<1>2. PICK answered \in SUBSET good :
         IF Cardinality(First(answered, K)) < K
               \/ \E i \in First(answered, K) : ChunkOf(i) # Chunk THEN NextChunk
         ELSE job' = [job EXCEPT !.at = "place",
                         !.todo = {i \in InHand : ChunkOf(i) = Chunk},
                         !.data = held[<<map[Least(First(answered, K))],
                                         Least(First(answered, K))>>],
                         !.preferred = Preferred(job.fmeta.map)]
  BY DEF Collect
<1> DEFINE got == First(answered, K)
<1>3. CASE NextChunk
  BY <1>1, <1>3, NextChunkContinues, Continues DEF FileStays, JobGoesOn
<1>4. CASE ~ NextChunk
  <2> DEFINE i == Least(got)
             data == held[<<map[i], i>>]
             todo == {j \in InHand : ChunkOf(j) = Chunk}
             preferred == Preferred(job.fmeta.map)
  <2>1. /\ ~ (Cardinality(got) < K)
        /\ job' = [job EXCEPT !.at = "place", !.todo = todo, !.data = data,
                      !.preferred = preferred]
    BY <1>2, <1>4
  <2>2. got # {}
    BY <2>1, FS_EmptySet, RepairAssumption
  <2>3. got \subseteq good /\ got \subseteq Nat
    BY Constants DEF First
  <2>4. i \in good
    BY <2>2, <2>3, LeastIsIn
  <2>5. data = hash[i] /\ i \in Indices
    BY <2>4 DEF Verified
  <2>6. lists => data = file.of
    BY <2>5, <1>1 DEF Sound
  <2> HIDE DEF todo, data, preferred, i, got
  <2>7. /\ job'.at = "place" /\ job'.fmeta = job.fmeta /\ job'.data = data
        /\ job'.meta = job.meta
    BY <1>1, <2>1 DEF Jobs
  <2> QED
    BY <1>1, <2>6, <2>7, Continues DEF FileStays, JobGoesOn
<1> QED
  BY <1>3, <1>4

(* The rebuilt shard is where the listing now places it, or the node kept  *)
(* other bytes and the history says so.                                    *)
LEMMA PlaceContinues ==
    ASSUME Typed, Typed', OfOneUpload, ShardsStay, NEW n \in Nodes, Place(n)
    PROVE  OfOneUpload'
<1> DEFINE i == Least(job.todo)
           fmeta == Placed(job.fmeta, i, n, job.data)
<1>1. /\ job.at = "place" /\ job.todo # {} /\ job \in Jobs /\ job.fmeta \in Record
      /\ file' = file /\ UNCHANGED mode /\ job.data \in Data
      /\ held' = _store_shard(n, i, job.data)
      /\ lost' = lost \cup Kept(n, i, job.data)
  BY DEF Place, Typed, InHandAt
<1>2. job' = [job EXCEPT !.todo = @ \ {i}, !.repaired = @ + 1, !.fmeta = fmeta]
  BY DEF Place
<1>3. i \in Indices /\ <<n, i>> \in Nodes \X Indices
  BY <1>1, OneLess
<1>4. /\ file # None /\ Sound(job.fmeta, file.of, held, lost)
      /\ lists => job.data = file.of
  BY <1>1 DEF OfOneUpload
<1>5. Sound(job.fmeta, file.of, held', lost')
  BY <1>1, <1>4, FileIsARecord, SoundStays
<1>6. held'[<<n, i>>] = job.data \/ <<n, i>> \in lost'
  BY <1>1, <1>3, StoreTypes
<1>7. Sound(fmeta, file.of, held', lost')
  <2>1. /\ fmeta.of = job.fmeta.of
        /\ fmeta.cmap = IF lists THEN [job.fmeta.cmap EXCEPT ![i] = n]
                        ELSE job.fmeta.cmap
        /\ fmeta.chash = IF lists THEN [job.fmeta.chash EXCEPT ![i] = job.data]
                         ELSE job.fmeta.chash
    BY <1>1, <1>3 DEF Placed, Record, Placement
  <2>2. /\ DOMAIN job.fmeta.cmap = Indices /\ DOMAIN job.fmeta.chash = Indices
    BY <1>1 DEF Record, Placement
  <2> HIDE DEF i, fmeta
  <2>3. CASE ~ lists
    BY <2>1, <2>3, <1>5 DEF Sound
  <2>4. CASE lists
    <3>1. ASSUME NEW j \in Indices
          PROVE  /\ fmeta.chash[j] = file.of
                 /\ \/ held'[<<fmeta.cmap[j], j>>] = file.of
                    \/ <<fmeta.cmap[j], j>> \in lost'
      <4>1. CASE j = i
        BY <4>1, <2>1, <2>2, <2>4, <1>4, <1>6
      <4>2. CASE j # i
        BY <4>2, <2>1, <2>2, <2>4, <1>5 DEF Sound
      <4> QED
        BY <4>1, <4>2
    <3> QED
      BY <3>1, <2>1, <1>5 DEF Sound
  <2> QED
    BY <2>3, <2>4
<1> HIDE DEF fmeta
<1>8. /\ job'.at = "place" /\ job'.fmeta = fmeta /\ job'.data = job.data
      /\ job'.meta = job.meta
  BY <1>1, <1>2 DEF Jobs
<1> QED
  BY <1>1, <1>4, <1>7, <1>8, Continues DEF FileStays, JobGoesOn

(* The old listing and the new record are of the same upload, so whichever *)
(* of them a chunk's placement is taken from it is a placement of that.    *)
LEMMA UpdateContinues ==
    ASSUME Typed, Typed', OfOneUpload, ShardsStay, Update
    PROVE  OfOneUpload'
<1> DEFINE merged == Merged(job.meta, job.fmeta)
<1>1. /\ job.at = "update" /\ UNCHANGED mode /\ file' \in {file, merged}
      /\ job.meta \in Record /\ job.fmeta \in Record /\ NextChunk
  BY DEF Update, Typed, InHandAt
<1>2. /\ file # None /\ job.meta # None /\ Sound(job.meta, file.of, held, lost)
      /\ Sound(job.fmeta, file.of, held, lost)
  BY <1>1, RepairAssumption DEF OfOneUpload
<1>3. /\ Sound(job.meta, file.of, held', lost')
      /\ Sound(job.fmeta, file.of, held', lost')
  BY <1>1, <1>2, FileIsARecord, SoundStays
<1>4. /\ merged.of = job.meta.of
      /\ \A i \in Indices :
            \/ /\ merged.cmap[i] = job.meta.cmap[i]
               /\ merged.chash[i] = job.meta.chash[i]
            \/ /\ merged.cmap[i] = job.fmeta.cmap[i]
               /\ merged.chash[i] = job.fmeta.chash[i]
  BY <1>1 DEF Merged, Record
<1>5. Sound(merged, file.of, held', lost')
  BY <1>3, <1>4 DEF Sound
<1>6. merged \in Record
  BY <1>1 DEF Merged, Record, Placement
<1> HIDE DEF merged
<1>7. FileStays
  BY <1>1, <1>2, <1>5, <1>6, RepairAssumption DEF FileStays
<1> QED
  BY <1>1, <1>2, <1>7, NextChunkContinues, Continues DEF JobGoesOn

LEMMA UploadedIsSound ==
    ASSUME Typed, alive # {}, NEW g \in Uploads, ~ Keeps(g),
           held' = Written(Indices, g)
    PROVE  Sound(Uploaded(g), g, held', lost')
<1>1. ASSUME NEW i \in Indices
      PROVE  Uploaded(g).cmap[i] = Ring(i) /\ Uploaded(g).chash[i] = g
  BY DEF Uploaded
<1>2. ASSUME NEW i \in Indices
      PROVE  held'[<<Ring(i), i>>] = g
  <2>1. <<Ring(i), i>> \in Nodes \X Indices
    BY RingIsAlive DEF Typed
  <2>2. held[<<Ring(i), i>>] \in {None, g}
    BY DEF Keeps
  <2> QED
    BY <2>1, <2>2 DEF Written, Typed
<1> QED
  BY <1>1, <1>2 DEF Sound, Uploaded

LEMMA PutContinues ==
    ASSUME Typed, Typed', Put, ShardsStay, ~ crossed', ~ crossed => OfOneUpload
    PROVE  OfOneUpload'
<1>1. /\ Key \in Uploads /\ alive # {} /\ held' = Written(Indices, Key)
      /\ file' = Uploaded(Key) /\ UNCHANGED mode /\ job' = job
  BY KeyIsAnUpload DEF Put, Upload
<1>2. ~ Keeps(Key) /\ (job.at = "idle" \/ (~ crossed /\ convergent))
  <2>1. crossed' = (Keeps(Key) \/ (job.at # "idle" /\ (crossed \/ ~ convergent)))
    BY DEF Put, Upload
  <2> QED
    BY <2>1
<1>3. Sound(file', Key, held', lost') /\ file' # None
  BY <1>1, <1>2, UploadedIsSound, UploadedIsARecord, RepairAssumption
<1>4. file'.of = Key /\ (convergent => Key = 0)
  BY <1>3 DEF Sound, Key
<1>5. CASE job.at = "idle"
  BY <1>1, <1>3, <1>4, <1>5 DEF OfOneUpload, mode
<1>6. CASE job.at # "idle"
  <2>1. OfOneUpload /\ file # None /\ file.of = Key
    BY <1>2, <1>4, <1>6 DEF OfOneUpload
  <2>2. FileStays
    BY <1>3, <2>1 DEF FileStays
  <2>3. JobGoesOn
    BY <1>1, <1>6, <2>1 DEF JobGoesOn, OfOneUpload
  <2> QED
    BY <1>1, <2>1, <2>2, <2>3, Continues
<1> QED
  BY <1>5, <1>6

LEMMA ReuploadContinues ==
    ASSUME Typed, Typed', Reupload, ShardsStay, ~ crossed', ~ crossed => OfOneUpload
    PROVE  OfOneUpload'
<1>1. job'.at = "idle" /\ UNCHANGED mode
  BY DEF Reupload, Finished, Resting
<1>2. CASE UNCHANGED <<held, file, uploads, crossed>>
  BY <1>1, <1>2, Continues DEF FileStays, JobGoesOn
<1>3. CASE ~ UNCHANGED <<held, file, uploads, crossed>>
  <2>1. /\ Key \in Uploads /\ alive # {} /\ held' = Written(Indices, Key)
        /\ file' = Uploaded(Key) /\ ~ Keeps(Key)
    BY <1>3, KeyIsAnUpload DEF Reupload
  <2>2. Sound(file', Key, held', lost')
    BY <2>1, UploadedIsSound
  <2>3. file'.of = Key /\ (convergent => Key = 0)
    BY <2>2 DEF Sound, Key
  <2> QED
    BY <1>1, <2>2, <2>3 DEF OfOneUpload, mode
<1> QED
  BY <1>2, <1>3

LEMMA TrackerRepairsContinues ==
    ASSUME Typed, Typed', OfOneUpload, ShardsStay,
           NEW i \in Indices, NEW n \in Nodes, TrackerRepairs(i, n)
    PROVE  OfOneUpload'
<1>1. /\ file # None /\ UNCHANGED mode /\ job' = job
      /\ held' = _store_shard(n, i, file.chash[i])
      /\ lost' = lost \cup Kept(n, i, file.chash[i])
      /\ file' = [file EXCEPT !.map[i] = n, !.cmap[i] = n, !.hash[i] = file.chash[i]]
  BY DEF TrackerRepairs
<1>2. file \in Record /\ file.chash[i] \in Data
  BY <1>1, FileIsARecord DEF Record, Data
<1>3. Sound(file, file.of, held', lost')
  BY <1>1, FileIsSound
<1>4. held'[<<n, i>>] = file.chash[i] \/ <<n, i>> \in lost'
  BY <1>1, <1>2, StoreTypes
<1>5. /\ file'.of = file.of /\ file'.chash = file.chash
      /\ file'.cmap = [file.cmap EXCEPT ![i] = n] /\ DOMAIN file.cmap = Indices
  BY <1>1, <1>2 DEF Record, Placement
<1>6. ASSUME NEW j \in Indices
      PROVE  \/ held'[<<file'.cmap[j], j>>] = file.of
             \/ <<file'.cmap[j], j>> \in lost'
  <2>1. CASE j = i
    BY <2>1, <1>3, <1>4, <1>5 DEF Sound
  <2>2. CASE j # i
    BY <2>2, <1>3, <1>5 DEF Sound
  <2> QED
    BY <2>1, <2>2
<1>7. Sound(file', file.of, held', lost')
  BY <1>3, <1>5, <1>6 DEF Sound
<1>8. file' \in Record
  BY <1>1, <1>2 DEF Record, Placement, Data
<1>9. FileStays
  BY <1>1, <1>7, <1>8, RepairAssumption DEF FileStays
<1>10. JobGoesOn
  BY <1>1 DEF JobGoesOn, OfOneUpload
<1> QED
  BY <1>1, <1>9, <1>10, Continues

LEMMA FaultsContinue ==
    ASSUME Typed, Typed', OfOneUpload, ShardsStay,
           NEW n \in Nodes, Stop(n) \/ Expire(n) \/ Return(n)
    PROVE  OfOneUpload'
<1>1. UNCHANGED mode /\ file' = file /\ job' = job
  BY DEF Stop, Expire, Return
<1>2. FileStays /\ JobGoesOn
  BY <1>1 DEF FileStays, JobGoesOn, OfOneUpload
<1> QED
  BY <1>1, <1>2, Continues

LEMMA StepKeepsOneUpload ==
    ASSUME Inv, [Next]_vars, Typed', ~ crossed'
    PROVE  OfOneUpload'
<1>1. CASE UNCHANGED vars
  BY <1>1 DEF Inv, vars, mode, nodes, history, OfOneUpload, Sound
<1>2. CASE Delete
  BY <1>2 DEF Delete, OfOneUpload
<1>3. CASE Next /\ ~ Delete
  <2>1. Typed /\ (~ crossed => OfOneUpload) /\ ShardsStay
    BY <1>3, DeleteAside DEF Inv
  <2>2. CASE Put
    BY <2>1, <2>2, PutContinues
  <2>3. CASE Reupload
    BY <2>1, <2>3, ReuploadContinues
  <2>4. ASSUME ~ Put, ~ Reupload PROVE OfOneUpload'
    <3>1. crossed' = crossed
      BY <1>3, <2>4 DEF Next, RepairStep, CheckHealth, SparesStart, NoSpare,
         SparesDone, NoLocalFile, Collect, PlaceFails, Refetch, Update, StoreSpare,
         Place, RepairStart, Stop, Expire, Return, TrackerRepairs, history
    <3>2. OfOneUpload
      BY <3>1, <2>1
    <3>3. CASE \E i \in Indices, n \in Nodes : TrackerRepairs(i, n)
      BY <2>1, <3>2, <3>3, TrackerRepairsContinues
    <3>4. CASE \E n \in Nodes : Stop(n) \/ Expire(n) \/ Return(n)
      BY <2>1, <3>2, <3>4, FaultsContinue
    <3>5. CASE \E n \in Nodes : StoreSpare(n) \/ Place(n)
      BY <2>1, <3>2, <3>5, StoreSpareContinues, PlaceContinues
    <3>6. CASE SparesDone \/ Collect \/ Update
      BY <2>1, <3>2, <3>6, SparesDoneContinues, CollectContinues, UpdateContinues
    <3>7. CASE CheckHealth \/ SparesStart \/ NoSpare \/ NoLocalFile \/ PlaceFails
               \/ Refetch \/ \E watcher \in BOOLEAN : RepairStart(watcher)
      BY <2>1, <3>2, <3>7, QuietSteps
    <3> QED
      BY <1>3, <2>4, <3>3, <3>4, <3>5, <3>6, <3>7 DEF Next, RepairStep
  <2> QED
    BY <2>2, <2>3, <2>4
<1> QED
  BY <1>1, <1>2, <1>3

LEMMA InvIsInductive == Spec => []Inv
<1>1. Init => Inv
  BY InitTypes DEF Init, Inv, OfOneUpload, Resting
<1>2. Inv /\ [Next]_vars => Inv'
  <2> SUFFICES ASSUME Inv, [Next]_vars PROVE Inv'
    OBVIOUS
  <2>1. Typed'
    BY StepTypes DEF Inv
  <2> QED
    BY <2>1, StepKeepsOneUpload DEF Inv
<1> QED
  BY <1>1, <1>2, PTL DEF Spec

(* Whatever an owner's repair writes back, over a record that the tracker  *)
(* or another upload has changed since it was read, a chunk names nodes    *)
(* that have its shard, of the upload the file's key is of, unless the     *)
(* node lost it or kept other bytes.  It holds although the maps it writes *)
(* may be old: the shards of every map it can have read are still there.   *)
THEOREM RepairsKeepDownloads == Spec => []DownloadsHold
<1>1. Inv => DownloadsHold
  BY DEF Inv, OfOneUpload, Sound, DownloadsHold
<1> QED
  BY <1>1, InvIsInductive, PTL

=============================================================================
