------------------------------- MODULE Repair -------------------------------
(***************************************************************************)
(* The tracker's repair loop: find the shards on dead nodes, rebuild them  *)
(* from k survivors and place them on other nodes (tracker.py).            *)
(*                                                                         *)
(* The loop is one coroutine that suspends at every request to a node.     *)
(* While it is suspended nodes crash, return, miss heartbeats and damage   *)
(* shards, and clients replace and delete the records it is working on:    *)
(* it keeps working on the record object it took from the table, so a      *)
(* record is named by its file and a version, and may be out of the table. *)
(* A client's upload and deletion are one step here (FileStore has them in *)
(* detail), and every upload of a file has the same content.               *)
(***************************************************************************)
EXTENDS Integers, FiniteSets

CONSTANTS
    NumNodes,       \* nodes are 1 .. NumNodes, in the order they registered
    Files,
    K, NShards,     \* k, and k + m
    Full,           \* nodes with no room left
    MaxFaults,      \* bound: crashes, lapses and damaged shards
    MaxUploads      \* bound: uploads of one file

Nodes == 1 .. NumNodes
Indices == 0 .. NShards - 1
Versions == 1 .. MaxUploads

ASSUME NodesAssumption == NumNodes \in Nat \ {0} /\ Full \subseteq Nodes
ASSUME ShardsAssumption == NShards \in Nat \ {0} /\ K \in 1 .. NShards
ASSUME BoundsAssumption == MaxFaults \in Nat /\ MaxUploads \in Nat \ {0}

VARIABLES
    up,         \* nodes that run
    alive,      \* nodes whose last heartbeat is less than 15 s old
    disk,       \* <<node, file, index>> -> "good", "bad" or "none"
    listed,     \* files with a record in the table
    latest,     \* file -> the version of its last record
    shard_map,  \* <<file, version>> -> its placement
    repair,     \* the repair coroutine
    damaged,    \* history: <<node, file, index>> that the node lost or spoilt
    faults      \* faults so far

nodeVars == <<up, alive, disk, damaged, faults>>
tableVars == <<listed, latest, shard_map>>
vars == <<nodeVars, tableVars, repair>>

Records == Files \X Versions
Shards == Nodes \X Files \X Indices
Placement == [Indices -> Nodes]
RepairState ==
    [at: {"idle", "walk", "collect", "place", "answer"}, alive_ids: SUBSET Nodes,
     todo: SUBSET Records, meta: Records \cup {<<>>}, dead: SUBSET Indices,
     next: 0 .. NShards, surviving: SUBSET Indices, rebuilt: {"good", "bad"},
     preferred: SUBSET Nodes, repaired: 0 .. NShards, target: Nodes \cup {0}]
Resting ==
    [at |-> "idle", alive_ids |-> {}, todo |-> {}, meta |-> <<>>, dead |-> {},
     next |-> 0, surviving |-> {}, rebuilt |-> "good", preferred |-> {},
     repaired |-> 0, target |-> 0]

----------------------------------------------------------------------------
(* Nodes.  A heartbeat reaches the tracker, or 15 seconds pass without one. *)

Heartbeat(n) ==
    /\ n \in up \ alive
    /\ alive' = alive \cup {n}
    /\ UNCHANGED <<up, disk, damaged, faults, tableVars, repair>>

Expire(n) ==
    /\ n \in alive \ up
    /\ alive' = alive \ {n}
    /\ UNCHANGED <<up, disk, damaged, faults, tableVars, repair>>

Crash(n) ==
    /\ n \in up /\ faults < MaxFaults
    /\ up' = up \ {n} /\ faults' = faults + 1
    /\ UNCHANGED <<alive, disk, damaged, tableVars, repair>>

Return(n) ==
    /\ n \notin up
    /\ up' = up \cup {n}
    /\ UNCHANGED <<alive, disk, damaged, faults, tableVars, repair>>

(* A running node's heartbeats are delayed for 15 seconds. *)
Lapse(n) ==
    /\ n \in up \cap alive /\ faults < MaxFaults
    /\ alive' = alive \ {n} /\ faults' = faults + 1
    /\ UNCHANGED <<up, disk, damaged, tableVars, repair>>

(* The node evicts a shard, or its file changes on the disk. *)
Damage(n, f, i) ==
    /\ disk[<<n, f, i>>] = "good" /\ faults < MaxFaults
    /\ \E to \in {"none", "bad"} : disk' = [disk EXCEPT ![<<n, f, i>>] = to]
    /\ damaged' = damaged \cup {<<n, f, i>>}
    /\ faults' = faults + 1
    /\ UNCHANGED <<up, alive, tableVars, repair>>

(* A node writes nothing over a shard that is there. *)
Write(disks, x, what) == IF disks[x] = "none" THEN [disks EXCEPT ![x] = what] ELSE disks

Answers(n) == n \in alive /\ n \in up

Accepts(n) == Answers(n) /\ n \notin Full

(* n is the j-th of S in the order of registration, counting round. *)
IsNth(n, S, j) == n \in S /\ Cardinality({m \in S : m < n}) = j % Cardinality(S)

----------------------------------------------------------------------------
(* Clients. *)

(* The ring of put: shard i goes to the first node from the i-th on, among *)
(* those alive, that is not full.                                          *)
Ring(map, first) ==
    \A i \in Indices : \E a \in 0 .. Cardinality(alive) - 1 :
        /\ IsNth(map[i], alive, first + i + a)
        /\ \A b \in 0 .. a - 1, n \in alive : IsNth(n, alive, first + i + b) => n \in Full

(* A put succeeds if no node it turns to is down. *)
Upload(f) ==
    /\ latest[f] < MaxUploads
    /\ \E map \in [Indices -> alive \ Full] :
          /\ \E first \in Nodes : Ring(map, first)
          /\ \A i \in Indices : Accepts(map[i])
          /\ disk' = [x \in Shards |->
                IF x[2] = f /\ map[x[3]] = x[1] /\ disk[x] = "none" THEN "good"
                ELSE disk[x]]
          /\ shard_map' = [shard_map EXCEPT ![<<f, latest[f] + 1>>] = map]
    /\ damaged' = {x \in damaged : disk'[x] = disk[x]}
    /\ latest' = [latest EXCEPT ![f] = @ + 1]
    /\ listed' = listed \cup {f}
    /\ UNCHANGED <<up, alive, faults, repair>>

(* A delete removes the shards of the nodes it can reach, and the record. *)
Delete(f) ==
    /\ f \in listed
    /\ listed' = listed \ {f}
    /\ disk' = [x \in Shards |->
          IF x[2] = f /\ shard_map[<<f, latest[f]>>][x[3]] = x[1] /\ Answers(x[1])
          THEN "none" ELSE disk[x]]
    /\ UNCHANGED <<up, alive, damaged, faults, latest, shard_map, repair>>

----------------------------------------------------------------------------
(* _run_repair_audit *)

AuditStart ==
    /\ repair.at = "idle"
    /\ alive # {}
    /\ repair' = [Resting EXCEPT !.at = "walk", !.alive_ids = alive,
          !.todo = {<<f, latest[f]>> : f \in listed}]
    /\ UNCHANGED <<nodeVars, tableVars>>

(* The shards of a record whose nodes were not alive when the audit began. *)
DeadShards(o) == {i \in Indices : shard_map[o][i] \notin repair.alive_ids}

InspectFile(o) ==
    /\ repair.at = "walk" /\ o \in repair.todo
    /\ repair' = IF DeadShards(o) = {}
                 THEN [repair EXCEPT !.todo = @ \ {o}]
                 ELSE [repair EXCEPT !.todo = @ \ {o}, !.at = "collect", !.meta = o,
                          !.dead = DeadShards(o), !.next = 0, !.surviving = {}, !.rebuilt = "good"]
    /\ UNCHANGED <<nodeVars, tableVars>>

AuditEnd ==
    /\ repair.at = "walk" /\ repair.todo = {}
    /\ repair' = Resting
    /\ UNCHANGED <<nodeVars, tableVars>>

(* Seeded bug: a fetched shard is used without comparing its hash. *)
Fetched(n, f, i) == Answers(n) /\ disk[<<n, f, i>>] # "none"

Verified(n, f, i) == Answers(n) /\ disk[<<n, f, i>>] = "good"

(* _collect_surviving_shards asks for one shard after the other, where the *)
(* record says they are now, until it has k.                               *)
CollectShard ==
    LET i == repair.next
        f == repair.meta[1]
        n == shard_map[repair.meta][i]
    IN /\ repair.at = "collect"
       /\ Cardinality(repair.surviving) < K /\ i < NShards
       /\ repair' = IF i \notin repair.dead /\ Verified(n, f, i)
                    THEN [repair EXCEPT !.next = @ + 1, !.surviving = @ \cup {i},
                             !.rebuilt = IF disk[<<n, f, i>>] = "bad" THEN "bad" ELSE @]
                    ELSE [repair EXCEPT !.next = @ + 1]
       /\ UNCHANGED <<nodeVars, tableVars>>

TooFewSurvivors ==
    /\ repair.at = "collect"
    /\ Cardinality(repair.surviving) < K /\ repair.next = NShards
    /\ repair' = [repair EXCEPT !.at = "walk"]
    /\ UNCHANGED <<nodeVars, tableVars>>

(* Seeded bug: only nodes that hold no shard of the record are considered. *)
Spare(holding) == alive \ holding

Preferred(holding) == IF alive \subseteq holding THEN alive ELSE alive \ holding

(* The nodes to place on are chosen once: those that are alive and hold no *)
(* shard of the record, or if there are none all that are alive.           *)
PlaceStart ==
    LET preferred == Preferred({shard_map[repair.meta][i] : i \in Indices})
    IN /\ repair.at = "collect" /\ Cardinality(repair.surviving) = K
       /\ repair' = IF preferred = {} THEN [repair EXCEPT !.at = "walk"]
                    ELSE [repair EXCEPT !.at = "place", !.repaired = 0,
                             !.preferred = preferred]
       /\ UNCHANGED <<nodeVars, tableVars>>

NextDead(i) == i \in repair.dead /\ \A j \in repair.dead : i <= j

(* Seeded bug: the answer to the store is not looked at. *)
AnyAnswer(n) == TRUE

Acked(n) == Accepts(n)

(* The store request for the next dead shard.  The node that gets it is    *)
(* counted by the shards placed so far, so one that fails is turned to     *)
(* again for the next shard.                                               *)
StoreRepaired ==
    \E i \in Indices, n \in Nodes :
        LET x == <<n, repair.meta[1], i>> IN
        /\ repair.at = "place" /\ NextDead(i)
        /\ IsNth(n, repair.preferred, repair.repaired)
        /\ disk' = IF Accepts(n) THEN Write(disk, x, repair.rebuilt) ELSE disk
        /\ damaged' = IF disk' = disk THEN damaged ELSE damaged \ {x}
        /\ repair' = IF Acked(n) THEN [repair EXCEPT !.at = "answer", !.target = n]
                     ELSE [repair EXCEPT !.dead = @ \ {i}]
        /\ UNCHANGED <<up, alive, faults, tableVars>>

(* The node's answer arrives, and the record names the node from now on. *)
ShardPlaced ==
    \E i \in Indices :
        /\ repair.at = "answer" /\ NextDead(i)
        /\ shard_map' = [shard_map EXCEPT ![repair.meta][i] = repair.target]
        /\ repair' = [repair EXCEPT !.at = "place", !.dead = @ \ {i},
                         !.repaired = @ + 1, !.target = 0]
        /\ UNCHANGED <<nodeVars, listed, latest>>

(* Seeded bug: a lost answer leaves its target behind. *)
TargetLeft ==
    /\ repair.at = "answer"
    /\ faults < MaxFaults /\ faults' = faults + 1
    /\ repair' = [repair EXCEPT !.at = "place"]
    /\ UNCHANGED <<up, alive, disk, damaged, tableVars>>

(* Or it does not arrive within 10 seconds. *)
AnswerLost ==
    \E i \in Indices :
        /\ repair.at = "answer" /\ NextDead(i)
        /\ faults < MaxFaults /\ faults' = faults + 1
        /\ repair' = [repair EXCEPT !.at = "place", !.dead = @ \ {i}, !.target = 0]
        /\ UNCHANGED <<up, alive, disk, damaged, tableVars>>

FileDone ==
    /\ repair.at = "place" /\ repair.dead = {}
    /\ repair' = [repair EXCEPT !.at = "walk"]
    /\ UNCHANGED <<nodeVars, tableVars>>

----------------------------------------------------------------------------
Init ==
    /\ up = Nodes /\ alive = Nodes
    /\ disk = [x \in Shards |-> "none"]
    /\ listed = {} /\ latest = [f \in Files |-> 0]
    /\ shard_map = [o \in Records |-> [i \in Indices |-> 1]]
    /\ repair = Resting
    /\ damaged = {} /\ faults = 0

Node(n) == Heartbeat(n) \/ Expire(n) \/ Crash(n) \/ Return(n) \/ Lapse(n)

Repairing ==
    \/ AuditStart \/ AuditEnd
    \/ \E o \in Records : InspectFile(o)
    \/ CollectShard \/ TooFewSurvivors
    \/ PlaceStart \/ StoreRepaired \/ ShardPlaced \/ FileDone

Next ==
    \/ \E n \in Nodes : Node(n)
    \/ \E n \in Nodes, f \in Files, i \in Indices : Damage(n, f, i)
    \/ \E f \in Files : Upload(f) \/ Delete(f)
    \/ Repairing \/ AnswerLost

Spec == Init /\ [][Next]_vars

(* The event loop keeps running the coroutine, running nodes keep sending  *)
(* heartbeats, and time passes.                                            *)
FairSpec ==
    /\ Spec
    /\ WF_vars(Repairing)
    /\ \A n \in Nodes : WF_vars(Heartbeat(n)) /\ WF_vars(Expire(n))

----------------------------------------------------------------------------
TypeOK ==
    /\ up \in SUBSET Nodes /\ alive \in SUBSET Nodes
    /\ disk \in [Shards -> {"good", "bad", "none"}]
    /\ listed \in SUBSET Files
    /\ latest \in [Files -> 0 .. MaxUploads]
    /\ \A f \in listed : latest[f] # 0
    /\ shard_map \in [Records -> Placement]
    /\ repair \in RepairState
    /\ repair.at = "answer" <=> repair.target # 0
    /\ damaged \in SUBSET Shards
    /\ faults \in 0 .. MaxFaults

(* Every record in the table is the truth about the nodes: where it says   *)
(* that a shard is, the shard is, unless that node itself has damaged it.  *)
(* In particular no repair that runs into a crash, a lost answer or a      *)
(* record replaced under it leaves a record with a shard nobody has.       *)
MapHolds ==
    \A f \in listed, i \in Indices :
        LET x == <<shard_map[<<f, latest[f]>>][i], f, i>> IN
        disk[x] = "good" \/ x \in damaged

(* Repair never spreads damage: a shard that is spoilt anywhere was        *)
(* spoilt there, and not rebuilt from another spoilt shard.                *)
DamageStaysPut ==
    \A x \in Shards : disk[x] = "bad" => x \in damaged

Usable(f, i) ==
    LET n == shard_map[<<f, latest[f]>>][i] IN n \in up /\ disk[<<n, f, i>>] = "good"

Repairable(f) == f \in listed /\ Cardinality({i \in Indices : Usable(f, i)}) >= K

(* The round-robin begins with a node that takes nothing. *)
FirstRefuses(f) ==
    \E n \in Full : IsNth(n, Preferred({shard_map[<<f, latest[f]>>][i] : i \in Indices}), 0)

(* Once nodes stop failing, every file that k shards are left of comes to  *)
(* have all its shards on nodes that are alive, unless the first node the  *)
(* repair would place on has no room: the round-robin counts successes     *)
(* only, so every audit asks that node again and places nothing.           *)
DeadShardsRepaired ==
    \A f \in Files : <>[](Repairable(f) =>
        \/ \A i \in Indices : shard_map[<<f, latest[f]>>][i] \in alive
        \/ FirstRefuses(f))
=============================================================================
