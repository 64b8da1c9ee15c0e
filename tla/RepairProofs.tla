--------------------------- MODULE RepairProofs ---------------------------
(* What the repair loop does to records and shards, for any number of     *)
(* nodes, files, shards and faults.                                       *)
EXTENDS Repair, FiniteSetTheorems, TLAPS

(* A record is being repaired from its inspection to its last shard, and   *)
(* no more shards are placed than were dead.                               *)
InProgress ==
    /\ repair.at \in {"collect", "place", "answer"} => repair.meta \in Records
    /\ repair.at \in {"place", "answer"} =>
          repair.repaired + Cardinality(repair.dead) <= NShards

(* The loop knows no version of a record that has not been stored. *)
KnownVersions ==
    /\ \A o \in repair.todo : o[2] <= latest[o[1]]
    /\ repair.at \in {"collect", "place", "answer"} =>
          repair.meta[2] <= latest[repair.meta[1]]

Sound(x) == disk[x] = "good" \/ x \in damaged

(* While an answer is awaited the shard is on the node it was sent to, as  *)
(* long as the record it belongs to is the one in the table.               *)
SentIsThere ==
    repair.at = "answer" /\ repair.meta[1] \in listed
                         /\ repair.meta[2] = latest[repair.meta[1]] =>
        \A i \in Indices : NextDead(i) => Sound(<<repair.target, repair.meta[1], i>>)

Inv ==
    /\ TypeOK /\ InProgress /\ KnownVersions /\ repair.rebuilt = "good"
    /\ SentIsThere /\ MapHolds /\ DamageStaysPut
----------------------------------------------------------------------------
(* Types *)

LEMMA OneIsANode == 1 \in Nodes
BY NodesAssumption DEF Nodes

LEMMA LatestIsARecord ==
    ASSUME TypeOK, NEW f \in listed
    PROVE  f \in Files /\ <<f, latest[f]>> \in Records
BY BoundsAssumption DEF TypeOK, Records, Versions

LEMMA DeadAreFinite ==
    ASSUME NEW S \in SUBSET Indices
    PROVE  /\ IsFiniteSet(S) /\ Cardinality(S) \in 0 .. NShards
           /\ \A i \in S : Cardinality(S \ {i}) = Cardinality(S) - 1
<1>1. IsFiniteSet(Indices) /\ Cardinality(Indices) = NShards
  BY FS_Interval, ShardsAssumption DEF Indices
<1>2. IsFiniteSet(S) /\ Cardinality(S) <= NShards
  BY <1>1, FS_Subset
<1>3. Cardinality(S) \in Nat
  BY <1>2, FS_CardinalityType
<1> QED
  BY <1>2, <1>3, FS_RemoveElement, ShardsAssumption

LEMMA RestingIsAState == Resting \in RepairState
BY ShardsAssumption DEF Resting, RepairState

LEMMA InitTypes == Init => TypeOK /\ InProgress
<1> SUFFICES ASSUME Init PROVE TypeOK /\ InProgress
  OBVIOUS
<1>1. shard_map \in [Records -> Placement]
  BY OneIsANode DEF Init, Placement
<1>2. repair \in RepairState
  BY RestingIsAState DEF Init
<1>3. /\ up \in SUBSET Nodes /\ alive \in SUBSET Nodes
      /\ disk \in [Shards -> {"good", "bad", "none"}]
      /\ listed = {} /\ latest \in [Files -> 0 .. MaxUploads]
      /\ damaged \in SUBSET Shards /\ faults \in 0 .. MaxFaults
  BY BoundsAssumption DEF Init
<1>4. repair.at = "idle" /\ repair.target = 0
  BY DEF Init, Resting
<1>5. TypeOK
  BY <1>1, <1>2, <1>3, <1>4 DEF TypeOK
<1> QED
  BY <1>4, <1>5 DEF InProgress

(* What nodes do to themselves, and clients to the tables. *)
LEMMA NodeTypes ==
    ASSUME TypeOK, InProgress, NEW n \in Nodes,
           Node(n) \/ \E f \in Files, i \in Indices : Damage(n, f, i)
    PROVE  TypeOK' /\ InProgress'
<1>1. UNCHANGED <<listed, latest, shard_map, repair>>
  BY DEF Node, Heartbeat, Expire, Crash, Return, Lapse, Damage, tableVars
<1>2. up' \in SUBSET Nodes /\ alive' \in SUBSET Nodes
  BY DEF Node, Heartbeat, Expire, Crash, Return, Lapse, Damage, TypeOK
<1>3. faults' \in 0 .. MaxFaults
  <2>1. faults' = faults \/ (faults < MaxFaults /\ faults' = faults + 1)
    BY DEF Node, Heartbeat, Expire, Crash, Return, Lapse, Damage
  <2> QED
    BY <2>1, BoundsAssumption DEF TypeOK
<1>4. /\ disk' \in [Shards -> {"good", "bad", "none"}]
      /\ damaged' \in SUBSET Shards
  <2>1. CASE Node(n)
    BY <2>1 DEF Node, Heartbeat, Expire, Crash, Return, Lapse, TypeOK
  <2>2. CASE \E f \in Files, i \in Indices : Damage(n, f, i)
    <3>1. PICK f \in Files, i \in Indices : Damage(n, f, i)
      BY <2>2
    <3>2. <<n, f, i>> \in Shards
      BY DEF Shards
    <3> QED
      BY <3>1, <3>2 DEF Damage, TypeOK
  <2> QED
    BY <2>1, <2>2
<1> QED
  BY <1>1, <1>2, <1>3, <1>4 DEF TypeOK, InProgress

LEMMA UploadTypes ==
    ASSUME TypeOK, InProgress, NEW f \in Files, Upload(f)
    PROVE  TypeOK' /\ InProgress'
<1>1. PICK map \in [Indices -> alive \ Full] :
        /\ disk' = [x \in Shards |->
              IF x[2] = f /\ map[x[3]] = x[1] /\ disk[x] = "none" THEN "good" ELSE disk[x]]
        /\ shard_map' = [shard_map EXCEPT ![<<f, latest[f] + 1>>] = map]
  BY DEF Upload
<1>2. map \in Placement
  BY DEF Placement, TypeOK
<1>3. /\ latest[f] < MaxUploads /\ latest' = [latest EXCEPT ![f] = @ + 1]
      /\ listed' = listed \cup {f}
      /\ damaged' \subseteq damaged
      /\ UNCHANGED <<up, alive, faults, repair>>
  BY DEF Upload
<1>4. disk' \in [Shards -> {"good", "bad", "none"}]
  BY <1>1 DEF TypeOK
<1>5. shard_map' \in [Records -> Placement]
  BY <1>1, <1>2 DEF TypeOK
<1>6. latest' \in [Files -> 0 .. MaxUploads] /\ \A g \in listed' : latest'[g] # 0
  BY <1>3, BoundsAssumption DEF TypeOK
<1> QED
  BY <1>3, <1>4, <1>5, <1>6 DEF TypeOK, InProgress

LEMMA DeleteTypes ==
    ASSUME TypeOK, InProgress, NEW f \in Files, Delete(f)
    PROVE  TypeOK' /\ InProgress'
<1>1. disk' \in [Shards -> {"good", "bad", "none"}]
  BY DEF Delete, TypeOK
<1> QED
  BY <1>1 DEF Delete, TypeOK, InProgress
(* Steps of the coroutine change its own state, and at most one shard and *)
(* one placement.                                                          *)
LEMMA StateTypes ==
    ASSUME TypeOK, repair' \in RepairState, repair'.at = "answer" <=> repair'.target # 0,
           UNCHANGED <<up, alive, listed, latest>>, faults' \in 0 .. MaxFaults,
           disk' \in [Shards -> {"good", "bad", "none"}], damaged' \in SUBSET Shards,
           shard_map' \in [Records -> Placement]
    PROVE  TypeOK'
BY DEF TypeOK

LEMMA WalkTypes ==
    ASSUME TypeOK, InProgress,
           AuditStart \/ AuditEnd \/ TooFewSurvivors \/ FileDone \/
           \E o \in Records : InspectFile(o)
    PROVE  TypeOK' /\ InProgress'
<1> USE DEF RepairState
<1>1. UNCHANGED <<nodeVars, tableVars>>
  BY DEF AuditStart, AuditEnd, TooFewSurvivors, FileDone, InspectFile
<1>2. CASE AuditStart
  <2>1. {<<f, latest[f]>> : f \in listed} \in SUBSET Records
    BY LatestIsARecord
  <2>2. repair' \in RepairState /\ repair'.at = "walk" /\ repair'.target = 0
    BY <1>2, <2>1, RestingIsAState DEF AuditStart, Resting, TypeOK
  <2> QED
    BY <1>1, <2>2, StateTypes DEF nodeVars, tableVars, TypeOK, InProgress
<1>3. CASE AuditEnd
  BY <1>1, <1>3, RestingIsAState, StateTypes
     DEF AuditEnd, Resting, nodeVars, tableVars, TypeOK, InProgress
<1>4. CASE TooFewSurvivors \/ FileDone
  <2>1. repair' \in RepairState /\ repair'.at = "walk" /\ repair'.target = 0
    BY <1>4 DEF TooFewSurvivors, FileDone, TypeOK
  <2> QED
    BY <1>1, <2>1, StateTypes DEF nodeVars, tableVars, TypeOK, InProgress
<1>5. CASE \E o \in Records : InspectFile(o)
  <2>1. PICK o \in Records : InspectFile(o)
    BY <1>5
  <2>2. DeadShards(o) \in SUBSET Indices
    BY DEF DeadShards
  <2>3. 0 \in 0 .. NShards
    BY ShardsAssumption
  <2>4. /\ repair' \in RepairState /\ repair'.at \in {"walk", "collect"}
        /\ repair'.target = 0
        /\ repair'.at = "collect" => repair'.meta = o
    BY <2>1, <2>2, <2>3 DEF InspectFile, TypeOK
  <2> QED
    BY <1>1, <2>4, StateTypes DEF nodeVars, tableVars, TypeOK, InProgress
<1> QED
  BY <1>2, <1>3, <1>4, <1>5

LEMMA CollectTypes ==
    ASSUME TypeOK, InProgress, CollectShard
    PROVE  TypeOK' /\ InProgress'
<1>1. repair.at = "collect" /\ repair.next < NShards /\ repair.target = 0
  BY DEF CollectShard, TypeOK
<1>2. /\ repair.next + 1 \in 0 .. NShards
      /\ repair.next \in Indices
  BY <1>1, ShardsAssumption DEF TypeOK, RepairState, Indices
<1>3. PICK s \in SUBSET Indices, r \in {"good", "bad"} :
        repair' = [repair EXCEPT !.next = @ + 1, !.surviving = s, !.rebuilt = r]
  <2>1. CASE repair' = [repair EXCEPT !.next = @ + 1]
    <3>1. repair.surviving \in SUBSET Indices /\ repair.rebuilt \in {"good", "bad"}
      BY DEF TypeOK, RepairState
    <3>2. repair' = [repair EXCEPT !.next = @ + 1, !.surviving = repair.surviving,
                                   !.rebuilt = repair.rebuilt]
      BY <2>1 DEF TypeOK, RepairState
    <3> QED
      BY <3>1, <3>2
  <2>2. CASE repair' # [repair EXCEPT !.next = @ + 1]
    <3> DEFINE x == <<shard_map[repair.meta][repair.next], repair.meta[1], repair.next>>
               r == IF disk[x] = "bad" THEN "bad" ELSE repair.rebuilt
    <3>1. repair' = [repair EXCEPT !.next = @ + 1, !.surviving = @ \cup {repair.next},
                                   !.rebuilt = r]
      BY <2>2 DEF CollectShard
    <3>2. r \in {"good", "bad"} /\ repair.surviving \cup {repair.next} \in SUBSET Indices
      BY <1>2 DEF TypeOK, RepairState
    <3> HIDE DEF r
    <3>3. repair' = [repair EXCEPT !.next = @ + 1,
                        !.surviving = repair.surviving \cup {repair.next}, !.rebuilt = r]
      BY <3>1 DEF TypeOK, RepairState
    <3> QED
      BY <3>2, <3>3
  <2> QED
    BY <2>1, <2>2
<1>4. repair' \in RepairState /\ repair'.at = "collect" /\ repair'.target = 0
      /\ repair'.meta = repair.meta
  BY <1>1, <1>2, <1>3 DEF TypeOK, RepairState
<1>5. UNCHANGED <<nodeVars, tableVars>>
  BY DEF CollectShard
<1> QED
  BY <1>1, <1>4, <1>5, StateTypes DEF nodeVars, tableVars, TypeOK, InProgress

LEMMA PlaceStartTypes ==
    ASSUME TypeOK, InProgress, PlaceStart
    PROVE  TypeOK' /\ InProgress'
<1> DEFINE preferred == Preferred({shard_map[repair.meta][i] : i \in Indices})
<1>1. preferred \in SUBSET Nodes
  BY DEF Preferred, TypeOK
<1>2. /\ repair.at = "collect"
      /\ repair' = IF preferred = {} THEN [repair EXCEPT !.at = "walk"]
                   ELSE [repair EXCEPT !.at = "place", !.repaired = 0, !.preferred = preferred]
      /\ UNCHANGED <<nodeVars, tableVars>>
  BY DEF PlaceStart
<1> HIDE DEF preferred
<1>3. 0 \in 0 .. NShards
  BY ShardsAssumption
<1>4. /\ repair' \in RepairState /\ repair'.at \in {"walk", "place"} /\ repair'.target = 0
      /\ repair'.at = "place" => repair'.repaired = 0 /\ repair'.meta = repair.meta
                                 /\ repair'.dead = repair.dead
  BY <1>1, <1>2, <1>3 DEF TypeOK, RepairState
<1>5. Cardinality(repair.dead) \in 0 .. NShards
  BY DeadAreFinite DEF TypeOK, RepairState
<1>6. TypeOK'
  BY <1>2, <1>4, StateTypes DEF nodeVars, tableVars, TypeOK
<1> QED
  BY <1>2, <1>4, <1>5, <1>6 DEF InProgress

LEMMA StoreTypes ==
    ASSUME TypeOK, InProgress, StoreRepaired
    PROVE  TypeOK' /\ InProgress'
<1>1. PICK i \in Indices, n \in Nodes :
        /\ repair.at = "place" /\ NextDead(i)
        /\ disk' = IF Accepts(n) THEN Write(disk, <<n, repair.meta[1], i>>, repair.rebuilt)
                   ELSE disk
        /\ damaged' = IF disk' = disk THEN damaged
                      ELSE damaged \ {<<n, repair.meta[1], i>>}
        /\ repair' = IF Acked(n) THEN [repair EXCEPT !.at = "answer", !.target = n]
                     ELSE [repair EXCEPT !.dead = @ \ {i}]
        /\ UNCHANGED <<up, alive, faults, tableVars>>
  BY DEF StoreRepaired
<1>2. disk' \in [Shards -> {"good", "bad", "none"}]
  <2>1. repair.rebuilt \in {"good", "bad"}
    BY DEF TypeOK, RepairState
  <2> QED
    BY <1>1, <2>1 DEF Write, TypeOK
<1>3. n \in Nodes \cup {0} /\ n # 0
  BY DEF Nodes
<1>4. repair.target = 0
  BY <1>1 DEF TypeOK
<1>5. /\ repair' \in RepairState
      /\ repair'.at = "answer" <=> repair'.target # 0
      /\ repair'.at \in {"place", "answer"} /\ repair'.meta = repair.meta
      /\ repair'.repaired = repair.repaired
      /\ repair'.dead \in {repair.dead, repair.dead \ {i}}
  BY <1>1, <1>3, <1>4 DEF TypeOK, RepairState
<1>6. TypeOK'
  BY <1>1, <1>2, <1>5, StateTypes DEF tableVars, TypeOK
<1>7. Cardinality(repair'.dead) <= Cardinality(repair.dead) /\ Cardinality(repair'.dead) \in Nat
  <2>1. repair.dead \in SUBSET Indices /\ i \in repair.dead
    BY <1>1 DEF NextDead, TypeOK, RepairState
  <2>2. /\ Cardinality(repair.dead) \in Nat /\ Cardinality(repair.dead \ {i}) \in Nat
        /\ Cardinality(repair.dead \ {i}) = Cardinality(repair.dead) - 1
    BY <2>1, DeadAreFinite
  <2>3. CASE repair'.dead = repair.dead
    BY <2>2, <2>3
  <2>4. CASE repair'.dead = repair.dead \ {i}
    BY <2>2, <2>4
  <2> QED
    BY <1>5, <2>3, <2>4
<1>8. Cardinality(repair.dead) \in Nat /\ repair.repaired \in Nat
  BY DeadAreFinite DEF TypeOK, RepairState
<1> QED
  BY <1>1, <1>5, <1>6, <1>7, <1>8, ShardsAssumption DEF InProgress

LEMMA AnswerTypes ==
    ASSUME TypeOK, InProgress, ShardPlaced \/ AnswerLost
    PROVE  TypeOK' /\ InProgress'
<1>1. PICK i \in Indices, placed \in {0, 1} :
        /\ repair.at = "answer" /\ NextDead(i)
        /\ repair' = [repair EXCEPT !.at = "place", !.dead = @ \ {i},
                         !.repaired = @ + placed, !.target = 0]
  <2>1. CASE ShardPlaced
    BY <2>1 DEF ShardPlaced
  <2>2. CASE AnswerLost
    <3>1. PICK i \in Indices :
            /\ repair.at = "answer" /\ NextDead(i)
            /\ repair' = [repair EXCEPT !.at = "place", !.dead = @ \ {i}, !.target = 0]
      BY <2>2 DEF AnswerLost
    <3>2. repair.repaired + 0 = repair.repaired
      BY ShardsAssumption DEF TypeOK, RepairState
    <3>3. repair' = [repair EXCEPT !.at = "place", !.dead = @ \ {i},
                         !.repaired = @ + 0, !.target = 0]
      BY <3>1, <3>2 DEF TypeOK, RepairState
    <3> QED
      BY <3>1, <3>3
  <2> QED
    BY <2>1, <2>2
<1>2. /\ Cardinality(repair.dead \ {i}) = Cardinality(repair.dead) - 1
      /\ Cardinality(repair.dead \ {i}) \in Nat /\ Cardinality(repair.dead) \in Nat
  <2>1. repair.dead \in SUBSET Indices /\ i \in repair.dead
    BY <1>1 DEF NextDead, TypeOK, RepairState
  <2> QED
    BY <2>1, DeadAreFinite
<1>3. /\ repair.repaired + placed \in 0 .. NShards
      /\ repair.repaired + placed + Cardinality(repair.dead \ {i}) <= NShards
  BY <1>1, <1>2, ShardsAssumption DEF InProgress, TypeOK, RepairState
<1>4. /\ repair' \in RepairState /\ repair'.at = "place" /\ repair'.target = 0
      /\ repair'.meta = repair.meta /\ repair'.dead = repair.dead \ {i}
      /\ repair'.repaired = repair.repaired + placed
  BY <1>1, <1>3 DEF TypeOK, RepairState
<1>5. /\ UNCHANGED <<up, alive, disk, damaged, listed, latest>>
      /\ faults' \in 0 .. MaxFaults
  <2>1. faults' = faults \/ (faults < MaxFaults /\ faults' = faults + 1)
    BY DEF ShardPlaced, AnswerLost, nodeVars
  <2>2. faults' \in 0 .. MaxFaults
    BY <2>1, BoundsAssumption DEF TypeOK
  <2> QED
    BY <2>2 DEF ShardPlaced, AnswerLost, nodeVars, tableVars
<1>6. shard_map' \in [Records -> Placement]
  <2>1. repair.target \in Nodes
    BY <1>1 DEF TypeOK, RepairState
  <2>2. CASE AnswerLost
    BY <2>2 DEF AnswerLost, tableVars, TypeOK
  <2>3. CASE ShardPlaced
    <3>1. PICK j \in Indices : shard_map' = [shard_map EXCEPT ![repair.meta][j] = repair.target]
      BY <2>3 DEF ShardPlaced
    <3>2. repair.meta \in Records
      BY <1>1 DEF InProgress
    <3>3. shard_map[repair.meta] \in [Indices -> Nodes]
      BY <3>2 DEF TypeOK, Placement
    <3>4. [shard_map[repair.meta] EXCEPT ![j] = repair.target] \in [Indices -> Nodes]
      BY <2>1, <3>3
    <3> QED
      BY <3>1, <3>2, <3>4 DEF TypeOK, Placement
  <2> QED
    BY <2>2, <2>3
<1>7. TypeOK'
  BY <1>4, <1>5, <1>6, StateTypes DEF TypeOK
<1> QED
  BY <1>1, <1>3, <1>4, <1>7 DEF InProgress

LEMMA StutterTypes ==
    ASSUME TypeOK, InProgress, UNCHANGED vars
    PROVE  TypeOK' /\ InProgress'
BY DEF vars, nodeVars, tableVars, TypeOK, InProgress

LEMMA NextTypes ==
    ASSUME TypeOK, InProgress, [Next]_vars
    PROVE  TypeOK' /\ InProgress'
<1>1. CASE \E n \in Nodes : Node(n)
  BY <1>1, NodeTypes
<1>2. CASE \E n \in Nodes, f \in Files, i \in Indices : Damage(n, f, i)
  BY <1>2, NodeTypes
<1>3. CASE \E f \in Files : Upload(f) \/ Delete(f)
  BY <1>3, UploadTypes, DeleteTypes
<1>4. CASE Repairing
  BY <1>4, WalkTypes, CollectTypes, PlaceStartTypes, StoreTypes, AnswerTypes DEF Repairing
<1>5. CASE AnswerLost
  BY <1>5, AnswerTypes
<1>6. CASE UNCHANGED vars
  BY <1>6, StutterTypes
<1> QED
  BY <1>1, <1>2, <1>3, <1>4, <1>5, <1>6 DEF Next

(* Every reachable state of nodes, table and repair loop is well formed; *)
(* in particular no repair places more shards than were dead.             *)
THEOREM TypeCorrect == Spec => []TypeOK
<1>1. Init => TypeOK /\ InProgress
  BY InitTypes
<1>2. (TypeOK /\ InProgress) /\ [Next]_vars => (TypeOK /\ InProgress)'
  BY NextTypes
<1> QED
  BY <1>1, <1>2, PTL DEF Spec
----------------------------------------------------------------------------
(* Records and shards *)

(* A shard that is sound stays so, unless a delete of its file removes it. *)
LEMMA SoundStays ==
    ASSUME TypeOK, repair.rebuilt = "good", [Next]_vars, NEW x \in Shards, Sound(x),
           \A f \in Files : Delete(f) => x[2] # f
    PROVE  Sound(x)'
<1>1. CASE \E n \in Nodes, f \in Files, i \in Indices : Damage(n, f, i)
  <2>1. PICK n \in Nodes, f \in Files, i \in Indices : Damage(n, f, i)
    BY <1>1
  <2>2. CASE x = <<n, f, i>>
    BY <2>1, <2>2 DEF Damage, Sound
  <2>3. CASE x # <<n, f, i>>
    BY <2>1, <2>3 DEF Damage, Sound, TypeOK
  <2> QED
    BY <2>2, <2>3
<1>2. CASE \E f \in Files : Upload(f)
  <2>1. disk'[x] = disk[x] \/ (disk[x] = "none" /\ disk'[x] = "good")
    BY <1>2 DEF Upload
  <2>2. x \in damaged /\ disk'[x] = disk[x] => x \in damaged'
    BY <1>2 DEF Upload
  <2> QED
    BY <2>1, <2>2 DEF Sound
<1>3. CASE \E f \in Files : Delete(f)
  <2>1. PICK f \in Files : Delete(f)
    BY <1>3
  <2>2. x[2] # f
    BY <2>1
  <2>3. disk'[x] = disk[x] /\ damaged' = damaged
    BY <2>1, <2>2 DEF Delete
  <2> QED
    BY <2>3 DEF Sound
<1>4. CASE StoreRepaired
  <2>1. PICK i \in Indices, n \in Nodes :
          /\ disk' = IF Accepts(n)
                     THEN Write(disk, <<n, repair.meta[1], i>>, repair.rebuilt) ELSE disk
          /\ damaged' = IF disk' = disk THEN damaged
                        ELSE damaged \ {<<n, repair.meta[1], i>>}
    BY <1>4 DEF StoreRepaired
  <2>2. CASE disk' = disk
    BY <2>1, <2>2 DEF Sound
  <2>3. CASE disk' # disk
    BY <2>1, <2>3 DEF Write, Sound, TypeOK
  <2> QED
    BY <2>2, <2>3
<1>5. CASE UNCHANGED <<disk, damaged>>
  BY <1>5 DEF Sound
<1>6. CASE \E n \in Nodes : Node(n)
  BY <1>5, <1>6 DEF Node, Heartbeat, Expire, Crash, Return, Lapse
<1>7. CASE Repairing
  BY <1>4, <1>5, <1>7
     DEF Repairing, AuditStart, AuditEnd, InspectFile, CollectShard, TooFewSurvivors,
         PlaceStart, ShardPlaced, FileDone, nodeVars
<1>8. CASE AnswerLost \/ UNCHANGED vars
  BY <1>5, <1>8 DEF AnswerLost, vars, nodeVars
<1> QED
  BY <1>1, <1>2, <1>3, <1>6, <1>7, <1>8 DEF Next

LEMMA InitInv == Init => Inv
<1> SUFFICES ASSUME Init PROVE Inv
  OBVIOUS
<1>1. TypeOK /\ InProgress
  BY InitTypes
<1>2. KnownVersions /\ repair.rebuilt = "good" /\ SentIsThere
  BY DEF Init, Resting, KnownVersions, SentIsThere
<1>3. MapHolds /\ DamageStaysPut
  BY DEF Init, MapHolds, DamageStaysPut
<1> QED
  BY <1>1, <1>2, <1>3 DEF Inv

(* What survives is verified, so what is rebuilt from it is good. *)
LEMMA RebuiltIsGood ==
    ASSUME Inv, [Next]_vars
    PROVE  repair'.rebuilt = "good"
<1>1. repair \in RepairState /\ repair.rebuilt = "good"
  BY DEF Inv, TypeOK
<1>2. CASE CollectShard
  <2>1. CASE repair' = [repair EXCEPT !.next = @ + 1]
    BY <1>1, <2>1 DEF RepairState
  <2>2. CASE repair' # [repair EXCEPT !.next = @ + 1]
    <3> DEFINE x == <<shard_map[repair.meta][repair.next], repair.meta[1], repair.next>>
    <3>1. /\ disk[x] = "good"
          /\ repair' = [repair EXCEPT !.next = @ + 1, !.surviving = @ \cup {repair.next},
                           !.rebuilt = IF disk[x] = "bad" THEN "bad" ELSE @]
      BY <1>2, <2>2 DEF CollectShard, Verified
    <3>2. repair' = [repair EXCEPT !.next = @ + 1, !.surviving = @ \cup {repair.next},
                           !.rebuilt = @]
      BY <3>1
    <3> QED
      BY <1>1, <3>2 DEF RepairState
  <2> QED
    BY <2>1, <2>2
<1>3. CASE AuditStart \/ AuditEnd
  <2>1. Resting.rebuilt = "good" /\ Resting \in RepairState
    BY RestingIsAState DEF Resting
  <2>2. CASE AuditEnd
    BY <2>1, <2>2 DEF AuditEnd
  <2>3. CASE AuditStart
    <3>1. PICK t : repair' = [Resting EXCEPT !.at = "walk", !.alive_ids = alive, !.todo = t]
      BY <2>3 DEF AuditStart
    <3> QED
      BY <2>1, <3>1 DEF RepairState
  <2> QED
    BY <1>3, <2>2, <2>3
<1>4. CASE TooFewSurvivors \/ FileDone \/ \E o \in Records : InspectFile(o)
  BY <1>1, <1>4 DEF TooFewSurvivors, FileDone, InspectFile, RepairState
<1>5. CASE PlaceStart
  BY <1>1, <1>5 DEF PlaceStart, RepairState
<1>6. CASE StoreRepaired \/ ShardPlaced \/ AnswerLost
  BY <1>1, <1>6 DEF StoreRepaired, ShardPlaced, AnswerLost, RepairState
<1>7. CASE UNCHANGED repair
  BY <1>1, <1>7
<1>8. CASE \/ \E n \in Nodes : Node(n)
           \/ \E n \in Nodes, f \in Files, i \in Indices : Damage(n, f, i)
           \/ \E f \in Files : Upload(f) \/ Delete(f)
           \/ UNCHANGED vars
  BY <1>7, <1>8 DEF Node, Heartbeat, Expire, Crash, Return, Lapse, Damage, Upload, Delete, vars
<1> QED
  BY <1>2, <1>3, <1>4, <1>5, <1>6, <1>8 DEF Next, Repairing

LEMMA VersionsStayKnown ==
    ASSUME Inv, [Next]_vars
    PROVE  KnownVersions'
<1>1. /\ repair \in RepairState /\ InProgress /\ KnownVersions
      /\ latest \in [Files -> 0 .. MaxUploads] /\ listed \in SUBSET Files
  BY DEF Inv, TypeOK
<1>2. \A f \in Files : latest[f] \in Nat
  BY <1>1, BoundsAssumption
<1>3. CASE UNCHANGED latest /\ repair'.todo \subseteq repair.todo /\ UNCHANGED repair.meta
           /\ (repair'.at \in {"collect", "place", "answer"} =>
                  repair.at \in {"collect", "place", "answer"})
  BY <1>1, <1>3 DEF KnownVersions
<1>4. CASE \E f \in Files : Upload(f)
  <2>1. repair' = repair /\ \A f \in Files : latest[f] <= latest'[f] /\ latest'[f] \in Nat
    BY <1>1, <1>2, <1>4 DEF Upload
  <2>2. \A o \in Records : o[1] \in Files /\ o[2] \in Nat
    BY DEF Records, Versions
  <2>3. \A o \in Records : o[2] <= latest[o[1]] => o[2] <= latest'[o[1]]
    BY <1>2, <2>1, <2>2
  <2>4. repair.todo \subseteq Records
    BY <1>1 DEF RepairState
  <2> QED
    BY <1>1, <2>1, <2>3, <2>4 DEF KnownVersions, InProgress
<1>5. CASE AuditStart
  BY <1>1, <1>2, <1>5 DEF AuditStart, Resting, KnownVersions, tableVars
<1>6. CASE AuditEnd
  BY <1>6 DEF AuditEnd, Resting, KnownVersions
<1>7. CASE \E o \in Records : InspectFile(o)
  <2>1. PICK o \in Records : InspectFile(o)
    BY <1>7
  <2>2. /\ o \in repair.todo /\ repair'.todo = repair.todo \ {o}
        /\ repair'.at \in {"collect", "place", "answer"} => repair'.meta = o
        /\ latest' = latest
    BY <1>1, <2>1 DEF InspectFile, RepairState, tableVars
  <2> QED
    BY <1>1, <2>2 DEF KnownVersions
<1>8. CASE CollectShard
  BY <1>1, <1>3, <1>8 DEF CollectShard, RepairState, tableVars
<1>9. CASE TooFewSurvivors \/ FileDone
  BY <1>1, <1>3, <1>9 DEF TooFewSurvivors, FileDone, RepairState, tableVars
<1>10. CASE PlaceStart
  BY <1>1, <1>3, <1>10 DEF PlaceStart, RepairState, tableVars
<1>11. CASE StoreRepaired \/ ShardPlaced \/ AnswerLost
  BY <1>1, <1>3, <1>11 DEF StoreRepaired, ShardPlaced, AnswerLost, RepairState, tableVars
<1>12. CASE \/ \E n \in Nodes : Node(n)
            \/ \E n \in Nodes, f \in Files, i \in Indices : Damage(n, f, i)
            \/ \E f \in Files : Delete(f)
            \/ UNCHANGED vars
  BY <1>3, <1>12
     DEF Node, Heartbeat, Expire, Crash, Return, Lapse, Damage, Delete, vars, tableVars
<1> QED
  BY <1>4, <1>5, <1>6, <1>7, <1>8, <1>9, <1>10, <1>11, <1>12 DEF Next, Repairing

LEMMA DamageStays ==
    ASSUME Inv, [Next]_vars
    PROVE  DamageStaysPut'
<1> SUFFICES ASSUME NEW x \in Shards, disk'[x] = "bad" PROVE x \in damaged'
  BY DEF DamageStaysPut
<1>1. /\ disk \in [Shards -> {"good", "bad", "none"}]
      /\ disk[x] = "bad" => x \in damaged
      /\ repair.rebuilt = "good"
  BY DEF Inv, TypeOK, DamageStaysPut
<1>2. CASE UNCHANGED <<disk, damaged>>
  BY <1>1, <1>2
<1>3. CASE \E n \in Nodes, f \in Files, i \in Indices : Damage(n, f, i)
  <2>1. PICK n \in Nodes, f \in Files, i \in Indices : Damage(n, f, i)
    BY <1>3
  <2>2. x # <<n, f, i>> => disk'[x] = disk[x]
    BY <1>1, <2>1 DEF Damage
  <2> QED
    BY <1>1, <2>1, <2>2 DEF Damage
<1>4. CASE \E f \in Files : Upload(f) \/ Delete(f)
  BY <1>1, <1>4 DEF Upload, Delete
<1>5. CASE StoreRepaired
  <2>1. PICK i \in Indices, n \in Nodes :
          /\ disk' = IF Accepts(n)
                     THEN Write(disk, <<n, repair.meta[1], i>>, repair.rebuilt) ELSE disk
          /\ damaged' = IF disk' = disk THEN damaged
                        ELSE damaged \ {<<n, repair.meta[1], i>>}
    BY <1>5 DEF StoreRepaired
  <2>2. CASE disk' = disk
    BY <1>1, <2>1, <2>2
  <2>3. CASE disk' # disk
    BY <1>1, <2>1, <2>3 DEF Write
  <2> QED
    BY <2>2, <2>3
<1>6. CASE \E n \in Nodes : Node(n)
  BY <1>2, <1>6 DEF Node, Heartbeat, Expire, Crash, Return, Lapse
<1>7. CASE Repairing
  BY <1>2, <1>5, <1>7
     DEF Repairing, AuditStart, AuditEnd, InspectFile, CollectShard, TooFewSurvivors,
         PlaceStart, ShardPlaced, FileDone, nodeVars
<1>8. CASE AnswerLost \/ UNCHANGED vars
  BY <1>2, <1>8 DEF AnswerLost, vars, nodeVars
<1> QED
  BY <1>3, <1>4, <1>6, <1>7, <1>8 DEF Next
(* A step of the loop that is neither a store nor idle awaits no answer. *)
LEMMA OnlyStoresAreAwaited ==
    ASSUME TypeOK,
           \/ AuditStart \/ AuditEnd \/ CollectShard \/ TooFewSurvivors \/ PlaceStart
           \/ ShardPlaced \/ FileDone \/ AnswerLost
           \/ \E o \in Records : InspectFile(o)
    PROVE  repair'.at # "answer"
<1>1. repair \in RepairState /\ Resting \in RepairState
  BY RestingIsAState DEF TypeOK
<1>2. CASE AuditStart
  <2>1. PICK t : repair' = [Resting EXCEPT !.at = "walk", !.alive_ids = alive, !.todo = t]
    BY <1>2 DEF AuditStart
  <2> QED
    BY <1>1, <2>1 DEF RepairState
<1>3. CASE AuditEnd
  BY <1>3 DEF AuditEnd, Resting
<1>4. CASE CollectShard
  <2>1. repair.at = "collect"
    BY <1>4 DEF CollectShard
  <2>2. CASE repair' = [repair EXCEPT !.next = @ + 1]
    BY <1>1, <2>1, <2>2 DEF RepairState
  <2>3. CASE repair' # [repair EXCEPT !.next = @ + 1]
    <3>1. PICK s, w : repair' = [repair EXCEPT !.next = @ + 1, !.surviving = s, !.rebuilt = w]
      BY <1>4, <2>3 DEF CollectShard
    <3> QED
      BY <1>1, <2>1, <3>1 DEF RepairState
  <2> QED
    BY <2>2, <2>3
<1>5. CASE PlaceStart
  BY <1>1, <1>5 DEF PlaceStart, RepairState
<1>6. CASE TooFewSurvivors \/ ShardPlaced \/ FileDone \/ AnswerLost
  BY <1>1, <1>6 DEF TooFewSurvivors, ShardPlaced, FileDone, AnswerLost, RepairState
<1>7. ASSUME NEW o \in Records, InspectFile(o) PROVE repair'.at # "answer"
  BY <1>1, <1>7 DEF InspectFile, RepairState
<1> QED
  BY <1>2, <1>3, <1>4, <1>5, <1>6, <1>7

(* The answer awaited: a new request has just stored its shard, and an old *)
(* one's shard is still there unless its record has left the table.        *)
LEMMA SentStays ==
    ASSUME Inv, [Next]_vars
    PROVE  SentIsThere'
<1> USE DEF Inv
<1> SUFFICES ASSUME repair'.at = "answer", repair'.meta[1] \in listed',
                    repair'.meta[2] = latest'[repair'.meta[1]],
                    NEW i \in Indices, i \in repair'.dead, \A j \in repair'.dead : i <= j,
                    NEW x, x = <<repair'.target, repair'.meta[1], i>>
             PROVE  Sound(x)'
  BY DEF SentIsThere, NextDead, Sound
<1>1. TypeOK' /\ InProgress'
  BY NextTypes
<1>2. repair'.target \in Nodes /\ repair'.meta \in Records /\ x \in Shards
  BY <1>1 DEF TypeOK, RepairState, InProgress, Records, Shards
<1>3. ASSUME UNCHANGED repair, repair.meta[1] \in listed,
             latest'[repair.meta[1]] = latest[repair.meta[1]],
             ~Delete(repair.meta[1])
      PROVE  Sound(x)'
  <2>1. Sound(<<repair.target, repair.meta[1], i>>)
    BY <1>3 DEF SentIsThere, NextDead
  <2>2. x = <<repair.target, repair.meta[1], i>> /\ Sound(x)
    BY <1>3, <2>1
  <2>3. x[2] = repair.meta[1]
    BY <2>2
  <2> QED
    BY <1>2, <1>3, <2>2, <2>3, SoundStays
<1>4. CASE \E f \in Files : Upload(f)
  <2>1. PICK f \in Files : Upload(f)
    BY <1>4
  <2>2. /\ repair' = repair /\ listed' = listed \cup {f}
        /\ latest' = [latest EXCEPT ![f] = @ + 1]
    BY <2>1 DEF Upload
  <2>3. repair.meta[2] <= latest[repair.meta[1]] /\ repair.meta \in Records
    BY <1>2, <2>2 DEF KnownVersions
  <2>4. repair.meta[1] # f
    <3>1. ASSUME repair.meta[1] = f PROVE FALSE
      <4>1. latest'[f] = latest[f] + 1 /\ latest[f] \in Nat
        BY <2>2, BoundsAssumption DEF TypeOK
      <4> QED
        BY <2>2, <2>3, <3>1, <4>1 DEF Records, Versions
    <3> QED
      BY <3>1
  <2>5. repair.meta[1] \in listed /\ latest'[repair.meta[1]] = latest[repair.meta[1]]
    BY <2>2, <2>4 DEF TypeOK
  <2>6. CASE Delete(repair.meta[1])
    BY <2>2, <2>5, <2>6 DEF Delete
  <2> QED
    BY <1>3, <2>2, <2>5, <2>6
<1>5. CASE \E f \in Files : Delete(f)
  <2>1. PICK f \in Files : Delete(f)
    BY <1>5
  <2>2. repair' = repair /\ latest' = latest /\ listed' = listed \ {f}
    BY <2>1 DEF Delete
  <2>3. ~Delete(repair.meta[1])
    BY <2>2 DEF Delete
  <2> QED
    BY <1>3, <2>2, <2>3
<1>6. CASE StoreRepaired
  <2>1. PICK j \in Indices, n \in Nodes :
          /\ repair.at = "place" /\ NextDead(j)
          /\ disk' = IF Accepts(n)
                     THEN Write(disk, <<n, repair.meta[1], j>>, repair.rebuilt) ELSE disk
          /\ damaged' = IF disk' = disk THEN damaged
                        ELSE damaged \ {<<n, repair.meta[1], j>>}
          /\ repair' = IF Acked(n) THEN [repair EXCEPT !.at = "answer", !.target = n]
                       ELSE [repair EXCEPT !.dead = @ \ {j}]
    BY <1>6 DEF StoreRepaired
  <2>2. /\ Accepts(n) /\ repair'.target = n /\ repair'.meta = repair.meta
        /\ repair'.dead = repair.dead
    BY <2>1 DEF Acked, TypeOK, RepairState
  <2>3. i = j
    BY <2>1, <2>2, ShardsAssumption DEF NextDead, Indices
  <2>4. x = <<n, repair.meta[1], j>>
    BY <2>2, <2>3
  <2>5. disk' = Write(disk, x, "good")
    BY <2>1, <2>2, <2>4
  <2>6. disk \in [Shards -> {"good", "bad", "none"}]
    BY DEF TypeOK
  <2>7. CASE disk[x] = "none"
    <3>1. disk'[x] = "good"
      BY <1>2, <2>5, <2>6, <2>7 DEF Write
    <3> QED
      BY <3>1 DEF Sound
  <2>8. CASE disk[x] # "none"
    <3>1. disk' = disk /\ damaged' = damaged
      BY <2>1, <2>5, <2>8 DEF Write
    <3>2. disk[x] = "good" \/ x \in damaged
      BY <1>2, <2>6, <2>8 DEF DamageStaysPut
    <3> QED
      BY <3>1, <3>2 DEF Sound
  <2> QED
    BY <2>7, <2>8
<1>7. CASE \/ \E n \in Nodes : Node(n)
           \/ \E n \in Nodes, f \in Files, k \in Indices : Damage(n, f, k)
           \/ UNCHANGED vars
  <2>1. UNCHANGED <<repair, listed, latest>>
    BY <1>7 DEF Node, Heartbeat, Expire, Crash, Return, Lapse, Damage, tableVars, vars
  <2>2. repair.meta[1] \in Files
    BY <1>2, <2>1 DEF Records
  <2>3. CASE Delete(repair.meta[1])
    BY <1>5, <2>2, <2>3
  <2>4. CASE ~Delete(repair.meta[1])
    BY <1>3, <2>1, <2>4
  <2> QED
    BY <2>3, <2>4
<1>8. CASE \/ AuditStart \/ AuditEnd \/ CollectShard \/ TooFewSurvivors \/ PlaceStart
           \/ ShardPlaced \/ FileDone \/ AnswerLost
           \/ \E o \in Records : InspectFile(o)
  BY <1>8, OnlyStoresAreAwaited
<1> QED
  BY <1>4, <1>5, <1>6, <1>7, <1>8 DEF Next, Repairing

(* Only an upload makes a record current, and only an answer changes one. *)
LEMMA MapStays ==
    ASSUME Inv, [Next]_vars
    PROVE  MapHolds'
<1> USE DEF Inv
<1> SUFFICES ASSUME NEW f \in listed', NEW i \in Indices
             PROVE  Sound(<<shard_map[<<f, latest[f]>>][i], f, i>>)'
  BY DEF MapHolds, Sound
<1>1. TypeOK' /\ InProgress'
  BY NextTypes
<1>2. f \in Files /\ <<f, latest'[f]>> \in Records /\ shard_map'[<<f, latest'[f]>>][i] \in Nodes
  BY <1>1, BoundsAssumption DEF TypeOK, Records, Versions, Placement
<1>3. ASSUME f \in listed, latest'[f] = latest[f],
             shard_map'[<<f, latest[f]>>][i] = shard_map[<<f, latest[f]>>][i],
             ~Delete(f)
      PROVE  Sound(<<shard_map[<<f, latest[f]>>][i], f, i>>)'
  <2> DEFINE x == <<shard_map[<<f, latest[f]>>][i], f, i>>
  <2>1. Sound(x)
    BY <1>3 DEF MapHolds, Sound
  <2>2. x \in Shards
    BY <1>2, <1>3 DEF Shards
  <2>3. Sound(x)'
    BY <1>3, <2>1, <2>2, SoundStays
  <2> QED
    BY <1>3, <2>3 DEF Sound
<1>4. CASE \E g \in Files : Delete(g)
  <2>1. PICK g \in Files : Delete(g)
    BY <1>4
  <2>2. f \in listed /\ UNCHANGED <<latest, shard_map>>
    BY <2>1 DEF Delete
  <2>3. ~Delete(f)
    BY DEF Delete
  <2> QED
    BY <1>3, <2>2, <2>3
<1>5. CASE \E g \in Files : Upload(g)
  <2>1. PICK g \in Files : Upload(g)
    BY <1>5
  <2>2. PICK map \in [Indices -> alive \ Full] :
          /\ disk' = [x \in Shards |->
                IF x[2] = g /\ map[x[3]] = x[1] /\ disk[x] = "none" THEN "good" ELSE disk[x]]
          /\ shard_map' = [shard_map EXCEPT ![<<g, latest[g] + 1>>] = map]
    BY <2>1 DEF Upload
  <2>3. /\ latest' = [latest EXCEPT ![g] = @ + 1] /\ listed' = listed \cup {g}
        /\ damaged' = {x \in damaged : disk'[x] = disk[x]}
    BY <2>1 DEF Upload
  <2>4. CASE f = g
    <3>1. latest'[f] = latest[g] + 1 /\ shard_map'[<<f, latest'[f]>>][i] = map[i]
      BY <1>2, <2>2, <2>3, <2>4 DEF TypeOK
    <3> DEFINE x == <<map[i], f, i>>
    <3>2. x \in Shards
      BY <1>2, <3>1 DEF Shards
    <3>3. disk'[x] = IF disk[x] = "none" THEN "good" ELSE disk[x]
      BY <2>2, <2>4, <3>2
    <3>4. disk[x] = "bad" => x \in damaged
      BY <3>2 DEF DamageStaysPut
    <3>5. disk[x] \in {"good", "bad", "none"}
      BY <3>2 DEF TypeOK
    <3>6. Sound(x)'
      BY <2>3, <3>3, <3>4, <3>5 DEF Sound
    <3> QED
      BY <3>1, <3>6 DEF Sound
  <2>5. CASE f # g
    <3>1. f \in listed /\ latest'[f] = latest[f]
      BY <2>3, <2>5 DEF TypeOK
    <3>2. shard_map'[<<f, latest[f]>>] = shard_map[<<f, latest[f]>>]
      BY <1>2, <2>2, <2>5, <3>1 DEF TypeOK
    <3>3. CASE Delete(f)
      BY <1>2, <1>4, <3>3
    <3> QED
      BY <1>2, <1>3, <3>1, <3>2, <3>3
  <2> QED
    BY <2>4, <2>5
<1>6. CASE ShardPlaced
  <2>1. PICK j \in Indices :
          /\ repair.at = "answer" /\ NextDead(j)
          /\ shard_map' = [shard_map EXCEPT ![repair.meta][j] = repair.target]
    BY <1>6 DEF ShardPlaced
  <2>2. UNCHANGED <<disk, damaged, listed, latest>> /\ f \in listed
    BY <1>6 DEF ShardPlaced, nodeVars
  <2>3. repair.meta \in Records /\ shard_map[repair.meta] \in [Indices -> Nodes]
    BY <2>1 DEF InProgress, TypeOK, Placement
  <2>4. CASE repair.meta = <<f, latest[f]>> /\ i = j
    <3>1. Sound(<<repair.target, f, i>>)
      BY <2>1, <2>2, <2>4 DEF SentIsThere
    <3>2. shard_map'[<<f, latest'[f]>>][i] = repair.target
      BY <1>2, <2>1, <2>2, <2>3, <2>4 DEF TypeOK
    <3> QED
      BY <2>2, <3>1, <3>2 DEF Sound
  <2>5. CASE ~(repair.meta = <<f, latest[f]>> /\ i = j)
    <3>1. shard_map'[<<f, latest[f]>>][i] = shard_map[<<f, latest[f]>>][i]
      BY <1>2, <2>1, <2>2, <2>3, <2>5 DEF TypeOK
    <3>2. Sound(<<shard_map[<<f, latest[f]>>][i], f, i>>)
      BY <2>2 DEF MapHolds, Sound
    <3> QED
      BY <2>2, <3>1, <3>2 DEF Sound
  <2> QED
    BY <2>4, <2>5
<1>7. CASE UNCHANGED tableVars
  <2>1. f \in listed /\ UNCHANGED <<listed, latest, shard_map>>
    BY <1>7 DEF tableVars
  <2> QED
    BY <1>3, <1>4, <1>2, <2>1
<1>8. CASE \/ \E n \in Nodes : Node(n)
           \/ \E n \in Nodes, g \in Files, k \in Indices : Damage(n, g, k)
           \/ AnswerLost \/ UNCHANGED vars
  BY <1>7, <1>8 DEF Node, Heartbeat, Expire, Crash, Return, Lapse, Damage, AnswerLost,
      tableVars, vars
<1>9. CASE Repairing
  BY <1>6, <1>7, <1>9
     DEF Repairing, AuditStart, AuditEnd, InspectFile, CollectShard, TooFewSurvivors,
         PlaceStart, StoreRepaired, FileDone, tableVars
<1> QED
  BY <1>4, <1>5, <1>8, <1>9 DEF Next

LEMMA InvIsInductive == Inv /\ [Next]_vars => Inv'
<1> SUFFICES ASSUME Inv, [Next]_vars PROVE Inv'
  OBVIOUS
<1>1. TypeOK' /\ InProgress'
  BY NextTypes DEF Inv
<1> QED
  BY <1>1, RebuiltIsGood, VersionsStayKnown, DamageStays, SentStays, MapStays DEF Inv

----------------------------------------------------------------------------
(* Whatever crashes, returns, is replaced or deleted while the loop runs,  *)
(* and whatever answers are lost, a record in the table names for every    *)
(* shard a node that has it or has itself damaged it.                      *)
THEOREM RepairKeepsRecordsTrue == Spec => []MapHolds
<1>1. Inv => MapHolds
  BY DEF Inv
<1> QED
  BY <1>1, InitInv, InvIsInductive, PTL DEF Spec

(* A shard that is spoilt on a node was spoilt there: the repair loop      *)
(* never writes one.                                                       *)
THEOREM RepairSpreadsNoDamage == Spec => []DamageStaysPut
<1>1. Inv => DamageStaysPut
  BY DEF Inv
<1> QED
  BY <1>1, InitInv, InvIsInductive, PTL DEF Spec
=============================================================================
