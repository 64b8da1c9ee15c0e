-------------------------- MODULE FileStoreProofs --------------------------
(* Overlapping, failing and repeated uploads of convergent files, for any  *)
(* number of clients, nodes, shards and tracker restarts.                  *)
EXTENDS FileStore, TLAPS

(* The payload every upload of a convergent file writes. *)
Sealed(f) == [of |-> f, key |-> ConvergentKey]

(* Wherever a convergent file is described, it is by that payload. *)
Deterministic ==
    /\ \A f \in Contents : files[f] # None => files[f].data = Sealed(f)
    /\ \A n \in Nodes, f \in Contents, i \in Indices :
          shard[<<n, f, i>>] \in {None, Sealed(f)}
    /\ \A c \in Clients : op[c].at \in {"check", "upload"} /\ op[c].file \in Contents =>
          op[c].data = Sealed(op[c].file)
    /\ \A x \in strays : x.file \in Contents => x.data = Sealed(x.file)

(* What an upload in progress has placed is still there, unless a delete *)
(* has crossed it.                                                       *)
UploadsHeld ==
    \A c \in Clients : op[c].at = "upload" /\ op[c].file \in Contents /\ c \notin crossed =>
        \A i \in Indices : op[c].map[i] # None =>
            shard[<<op[c].map[i], op[c].file, i>>] # None

(* Nothing is indexed over REST. *)
RestIsUnindexed == rest => \A h \in Contents : content_index[h] = None

Inv ==
    /\ TypeOK /\ Deterministic /\ UploadsHeld /\ ConvergentBacked
    /\ RestIsUnindexed /\ IndexSound

----------------------------------------------------------------------------
(* Types *)

(* What each phase of an operation is made of. *)
LEMMA Phases ==
    ASSUME NEW o \in Operations
    PROVE  /\ o.at \in {"check", "register"} =>
                 o.file \in Contents /\ o.data \in Payload /\ o.map = NoShards
           /\ o.at = "upload" =>
                 o.file \in Files /\ o.data \in Payload /\ o.map \in Placement
           /\ o.at = "delete" =>
                 o.file \in Files /\ o.data = None /\ o.map \in Placement
           /\ o.at \in {"idle", "check", "register", "upload", "delete"}
           /\ o = [at |-> o.at, file |-> o.file, data |-> o.data, map |-> o.map]
<1>1. CASE o = Idle
  BY <1>1 DEF Idle
<1>2. CASE o # Idle
  BY <1>2 DEF Operations
<1> QED
  BY <1>1, <1>2

LEMMA IdleIsOperation == Idle \in Operations
BY DEF Operations

LEMMA NoShardsIsPlacement == NoShards \in Placement
BY DEF NoShards, Placement

LEMMA SealedIsPayload == ASSUME NEW f \in Contents PROVE Sealed(f) \in Payload
BY BoundsAssumption DEF Sealed, Payload, ConvergentKey

LEMMA ChangedOperation ==
    ASSUME TypeOK, NEW c \in Clients, NEW o \in Operations, op' = [op EXCEPT ![c] = o]
    PROVE  op' \in [Clients -> Operations]
BY DEF TypeOK

LEMMA WrittenShard ==
    ASSUME TypeOK, NEW n \in Nodes, NEW f \in Files, NEW i \in Indices,
           NEW d \in Payload, Write(n, f, i, d)
    PROVE  shard' \in [Nodes \X Files \X Indices -> Payload \cup {None}]
BY DEF Write, TypeOK

LEMMA InitTypes == Init => TypeOK
<1> SUFFICES ASSUME Init PROVE TypeOK
  OBVIOUS
<1>1. op \in [Clients -> Operations]
  BY IdleIsOperation DEF Init
<1>2. keys \in 0 .. MaxKeys /\ restarts \in 0 .. MaxRestarts
  BY BoundsAssumption DEF Init
<1>3. /\ files \in [Files -> Record \cup {None}]
      /\ content_index \in [Contents -> Contents \cup {None}]
      /\ shard \in [Nodes \X Files \X Indices -> Payload \cup {None}]
  BY DEF Init
<1>4. strays = {} /\ torn = {} /\ crossed = {} /\ rest \in BOOLEAN
  BY DEF Init
<1> QED
  BY <1>1, <1>2, <1>3, <1>4 DEF TypeOK

LEMMA TypesStep == TypeOK /\ [Next]_vars => TypeOK'
<1> SUFFICES ASSUME TypeOK, [Next]_vars PROVE TypeOK'
  OBVIOUS
<1> USE OwnersAssumption, NoneAssumption, BoundsAssumption
<1>0. ASSUME NEW c \in Clients, op' = Ended(c) PROVE op' \in [Clients -> Operations]
  BY <1>0, IdleIsOperation, ChangedOperation DEF Ended
<1>p. \A c \in Clients : op[c] \in Operations
  BY DEF TypeOK
<1>1. ASSUME NEW c \in Clients, NEW h \in Contents, PutConvergent(c, h) PROVE TypeOK'
  <2> DEFINE o == Operation("check", h, [of |-> h, key |-> ConvergentKey], NoShards)
  <2>1. o \in Operations
    BY SealedIsPayload DEF Operation, Operations, Sealed
  <2>2. op' \in [Clients -> Operations]
    BY <1>1, <2>1, ChangedOperation DEF PutConvergent
  <2> QED
    BY <1>1, <2>2 DEF PutConvergent, TypeOK, tracker, history
<1>2. ASSUME NEW c \in Clients, NEW p \in Paths, NEW h \in Contents, PutPrivate(c, p, h)
      PROVE TypeOK'
  <2> DEFINE o == Operation("upload", p, [of |-> h, key |-> keys + 1], NoShards)
  <2>1. keys + 1 \in 0 .. MaxKeys
    BY <1>2 DEF PutPrivate, TypeOK
  <2>2. o \in Operations
    BY <2>1, NoShardsIsPlacement DEF Operation, Operations, Payload, Files
  <2>3. op' \in [Clients -> Operations]
    BY <1>2, <2>2, ChangedOperation DEF PutPrivate
  <2> QED
    BY <1>2, <2>1, <2>3 DEF PutPrivate, TypeOK, tracker, history
<1>3. ASSUME NEW c \in Clients, DedupCheck(c) PROVE TypeOK'
  <2> DEFINE hit == content_index[op[c].data.of]
  <2>1. op[c].file \in Contents /\ op[c].data \in Payload /\ op[c].map = NoShards
    BY <1>3, <1>p, Phases DEF DedupCheck
  <2>2. hit \in Contents \cup {None}
    BY <2>1 DEF Payload, TypeOK
  <2>3. /\ hit # None => Operation("register", hit, op[c].data, NoShards) \in Operations
        /\ Operation("upload", op[c].file, op[c].data, NoShards) \in Operations
    BY <2>1, <2>2, NoShardsIsPlacement DEF Operation, Operations, Files
  <2>4. op' \in [Clients -> Operations]
    BY <1>3, <2>3, ChangedOperation DEF DedupCheck
  <2> QED
    BY <1>3, <2>4 DEF DedupCheck, TypeOK, tracker, history
<1>4. ASSUME NEW c \in Clients, DedupRegister(c) PROVE TypeOK'
  <2>1. op[c].file \in Files
    BY <1>4, <1>p, Phases DEF DedupRegister, Files
  <2>2. files' \in [Files -> Record \cup {None}]
    <3>1. CASE files' = files
      BY <3>1 DEF TypeOK
    <3>2. CASE files[op[c].file] # None
      <4>1. AddRef(files[op[c].file], Owner[c]) \in Record
        BY <2>1, <3>2 DEF AddRef, TypeOK, Record
      <4> QED
        BY <1>4, <2>1, <3>2, <4>1 DEF DedupRegister, TypeOK
    <3> QED
      BY <1>4, <3>1, <3>2 DEF DedupRegister
  <2> QED
    BY <1>0, <1>4, <2>2 DEF DedupRegister, TypeOK, history
<1>5. ASSUME NEW c \in Clients, NEW i \in Indices, NEW n \in Nodes, UploadShard(c, i, n)
      PROVE TypeOK'
  <2>1. op[c].file \in Files /\ op[c].data \in Payload /\ op[c].map \in Placement
    BY <1>5, <1>p, Phases DEF UploadShard
  <2>2. Operation("upload", op[c].file, op[c].data, [op[c].map EXCEPT ![i] = n]) \in Operations
    BY <2>1 DEF Operation, Operations, Placement
  <2>4. op' \in [Clients -> Operations]
    BY <1>5, <2>2, ChangedOperation DEF UploadShard
  <2> QED
    BY <1>5, <2>1, <2>4, WrittenShard DEF UploadShard, TypeOK, tracker, history
<1>6. ASSUME NEW c \in Clients, StoreMeta(c) PROVE TypeOK'
  <2>1. op[c].file \in Files /\ op[c].data \in Payload /\ op[c].map \in Placement
    BY <1>6, <1>p, Phases DEF StoreMeta
  <2>2. files' \in [Files -> Record \cup {None}]
    BY <1>6, <2>1 DEF StoreMeta, TypeOK, Record
  <2>3. content_index' \in [Contents -> Contents \cup {None}]
    BY <1>6, <2>1 DEF StoreMeta, TypeOK
  <2>4. torn' \in SUBSET Files /\ crossed' \in SUBSET Clients
    BY <1>6, <2>1 DEF StoreMeta, TypeOK
  <2> QED
    BY <1>0, <1>6, <2>2, <2>3, <2>4 DEF StoreMeta, TypeOK
<1>7. ASSUME NEW c \in Clients, PutFails(c) PROVE TypeOK'
  <2>1. strays' \in SUBSET [file: Files, index: Indices, data: Payload]
    BY <1>7, <1>p, Phases DEF PutFails, TypeOK
  <2> QED
    BY <1>0, <1>7, <2>1 DEF PutFails, TypeOK, tracker
<1>8. ASSUME NEW x \in strays, NEW n \in Nodes, StrayLands(x, n) PROVE TypeOK'
  <2>1. x.file \in Files /\ x.index \in Indices /\ x.data \in Payload
    BY DEF TypeOK
  <2> QED
    BY <1>8, <2>1, WrittenShard DEF StrayLands, TypeOK, tracker, history
<1>9. ASSUME NEW c \in Clients, NEW f \in Files, DeleteBegin(c, f) PROVE TypeOK'
  <2> DEFINE o == Operation("delete", f, None, files[f].map)
  <2>1. o \in Operations
    BY <1>9 DEF DeleteBegin, TypeOK, Operation, Operations, Record
  <2>2. op' \in [Clients -> Operations]
    BY <1>9, <2>1, ChangedOperation DEF DeleteBegin
  <2> QED
    BY <1>9, <2>2 DEF DeleteBegin, TypeOK, tracker, history
<1>10. ASSUME NEW c \in Clients, NEW i \in Indices, DeleteShard(c, i) PROVE TypeOK'
  <2>1. op[c].file \in Files /\ op[c].map \in Placement
    BY <1>10, <1>p, Phases DEF DeleteShard
  <2>2. Operation("delete", op[c].file, None, [op[c].map EXCEPT ![i] = None]) \in Operations
    BY <2>1 DEF Operation, Operations, Placement
  <2>4. op' \in [Clients -> Operations]
    BY <1>10, <2>2, ChangedOperation DEF DeleteShard
  <2>5. /\ shard' \in [Nodes \X Files \X Indices -> Payload \cup {None}]
        /\ torn' \in SUBSET Files /\ crossed' \in SUBSET Clients
    BY <1>10, <2>1 DEF DeleteShard, TypeOK, history
  <2> QED
    BY <1>10, <2>4, <2>5 DEF DeleteShard, TypeOK, tracker
<1>11. ASSUME NEW c \in Clients, DeleteMeta(c) PROVE TypeOK'
  <2>1. files' \in [Files -> Record \cup {None}]
        /\ content_index' \in [Contents -> Contents \cup {None}]
    BY <1>11 DEF DeleteMeta, TypeOK, tracker, Unindexed
  <2>2. torn' \in SUBSET Files
    BY <1>11 DEF DeleteMeta, TypeOK
  <2> QED
    BY <1>0, <1>11, <2>1, <2>2 DEF DeleteMeta, TypeOK
<1>12. ASSUME NEW c \in Clients, DeleteFails(c) PROVE TypeOK'
  BY <1>0, <1>12 DEF DeleteFails, TypeOK, tracker, history
<1>13. ASSUME TrackerRestart PROVE TypeOK'
  BY <1>13 DEF TrackerRestart, TypeOK
<1>14. ASSUME UNCHANGED vars PROVE TypeOK'
  BY <1>14 DEF vars, TypeOK, tracker, history
<1> QED
  BY <1>1, <1>2, <1>3, <1>4, <1>5, <1>6, <1>7, <1>8, <1>9, <1>10, <1>11,
     <1>12, <1>13, <1>14 DEF Next
----------------------------------------------------------------------------
(* Convergent files *)

(* A write stores the payload or leaves a shard that was there. *)
LEMMA WriteEffect ==
    ASSUME TypeOK, NEW n \in Nodes, NEW f \in Files, NEW i \in Indices,
           NEW d \in Payload, Write(n, f, i, d),
           NEW x \in Nodes \X Files \X Indices
    PROVE  /\ shard'[x] # shard[x] => x = <<n, f, i>> /\ shard'[x] = d
           /\ shard[x] # None => shard'[x] # None
           /\ x = <<n, f, i>> => shard'[x] # None
BY NoneAssumption DEF Write, TypeOK

(* Every step keeps the payload of a convergent file what its content is. *)
LEMMA DeterministicStep == TypeOK /\ TypeOK' /\ Deterministic /\ [Next]_vars => Deterministic'
<1> SUFFICES ASSUME TypeOK, TypeOK', Deterministic, [Next]_vars PROVE Deterministic'
  OBVIOUS
<1> USE OwnersAssumption, NoneAssumption
<1> DEFINE Shards == \A n \in Nodes, f \in Contents, i \in Indices :
                        shard[<<n, f, i>>] \in {None, Sealed(f)}
           Ops == \A c \in Clients : op[c].at \in {"check", "upload"} /\ op[c].file \in Contents =>
                        op[c].data = Sealed(op[c].file)
           Records == \A f \in Contents : files[f] # None => files[f].data = Sealed(f)
           Strays == \A x \in strays : x.file \in Contents => x.data = Sealed(x.file)
<1>s. Shards /\ Ops /\ Records /\ Strays
  BY DEF Deterministic
<1>g. Shards' /\ Ops' /\ Records' /\ Strays' => Deterministic'
  BY DEF Deterministic
<1> HIDE DEF Shards, Ops, Records, Strays
<1>p. \A c \in Clients : op[c] \in Operations
  BY DEF TypeOK
<1>w. ASSUME NEW n \in Nodes, NEW f \in Files, NEW i \in Indices, NEW d \in Payload,
             Write(n, f, i, d), f \in Contents => d = Sealed(f)
      PROVE  Shards'
  <2> SUFFICES ASSUME NEW m \in Nodes, NEW g \in Contents, NEW j \in Indices
               PROVE  shard'[<<m, g, j>>] \in {None, Sealed(g)}
    BY DEF Shards, Sealed, ConvergentKey
  <2>1. <<m, g, j>> \in Nodes \X Files \X Indices
    BY DEF Files
  <2>2. CASE shard'[<<m, g, j>>] = shard[<<m, g, j>>]
    BY <1>s, <2>2 DEF Shards
  <2>3. CASE shard'[<<m, g, j>>] # shard[<<m, g, j>>]
    BY <1>w, <2>1, <2>3, WriteEffect
  <2> QED
    BY <2>2, <2>3
<1>e. ASSUME NEW c \in Clients, op' = Ended(c) PROVE Ops'
  BY <1>s, <1>e DEF Ops, Ended, Idle, TypeOK, Sealed, ConvergentKey
<1>c. ASSUME NEW c \in Clients, NEW o, op' = [op EXCEPT ![c] = o],
             o.at \in {"check", "upload"} /\ o.file \in Contents => o.data = Sealed(o.file)
      PROVE  Ops'
  BY <1>s, <1>c DEF Ops, TypeOK, Sealed, ConvergentKey
<1>u. /\ UNCHANGED shard => Shards'
      /\ UNCHANGED files => Records'
      /\ UNCHANGED op => Ops'
      /\ UNCHANGED strays => Strays'
  BY <1>s DEF Shards, Records, Ops, Strays, Sealed, ConvergentKey
<1>1. ASSUME NEW c \in Clients, NEW h \in Contents, PutConvergent(c, h) PROVE Deterministic'
  <2>1. Ops'
    BY <1>1, <1>c DEF PutConvergent, Operation, Sealed
  <2> QED
    BY <1>1, <1>g, <1>u, <2>1 DEF PutConvergent, tracker
<1>2. ASSUME NEW c \in Clients, NEW p \in Paths, NEW h \in Contents, PutPrivate(c, p, h)
      PROVE Deterministic'
  <2>1. Ops'
    BY <1>2, <1>c DEF PutPrivate, Operation
  <2> QED
    BY <1>2, <1>g, <1>u, <2>1 DEF PutPrivate, tracker
<1>3. ASSUME NEW c \in Clients, DedupCheck(c) PROVE Deterministic'
  <2>1. op[c].file \in Contents /\ op[c].data = Sealed(op[c].file)
    BY <1>3, <1>p, <1>s, Phases DEF DedupCheck, Ops
  <2>2. Ops'
    BY <1>3, <1>c, <2>1 DEF DedupCheck, Operation
  <2> QED
    BY <1>3, <1>g, <1>u, <2>2 DEF DedupCheck, tracker
<1>4. ASSUME NEW c \in Clients, DedupRegister(c) PROVE Deterministic'
  <2>1. op[c].file \in Files
    BY <1>4, <1>p, Phases DEF DedupRegister, Files
  <2>2. \A f \in Files : files[f] # None => AddRef(files[f], Owner[c]).data = files[f].data
    BY DEF TypeOK, Record, AddRef
  <2>3. \A f \in Files : files'[f] # None => files[f] # None /\ files'[f].data = files[f].data
    BY <1>4, <2>1, <2>2 DEF DedupRegister, TypeOK
  <2>4. Records'
    BY <1>s, <2>3 DEF Records, Sealed, ConvergentKey, Files
  <2> QED
    BY <1>4, <1>g, <1>u, <1>e, <2>4 DEF DedupRegister
<1>5. ASSUME NEW c \in Clients, NEW i \in Indices, NEW n \in Nodes, UploadShard(c, i, n)
      PROVE Deterministic'
  <2>1. op[c].file \in Files /\ op[c].data \in Payload
    BY <1>5, <1>p, Phases DEF UploadShard
  <2>2. op[c].file \in Contents => op[c].data = Sealed(op[c].file)
    BY <1>5, <1>s DEF UploadShard, Ops
  <2>3. Shards'
    BY <1>5, <1>w, <2>1, <2>2 DEF UploadShard
  <2>4. Ops'
    BY <1>5, <1>c, <2>2 DEF UploadShard, Operation
  <2> QED
    BY <1>5, <1>g, <1>u, <2>3, <2>4 DEF UploadShard, tracker
<1>6. ASSUME NEW c \in Clients, StoreMeta(c) PROVE Deterministic'
  <2>1. op[c].file \in Files
    BY <1>6, <1>p, Phases DEF StoreMeta
  <2>2. op[c].file \in Contents => op[c].data = Sealed(op[c].file)
    BY <1>6, <1>s DEF StoreMeta, Ops
  <2>3. \A f \in Contents : files'[f] # None => files'[f].data = Sealed(f)
    BY <1>6, <1>s, <2>1, <2>2 DEF StoreMeta, Records, TypeOK, Files
  <2>4. Records'
    BY <2>3 DEF Records, Sealed, ConvergentKey
  <2> QED
    BY <1>6, <1>g, <1>u, <1>e, <2>4 DEF StoreMeta
<1>7. ASSUME NEW c \in Clients, PutFails(c) PROVE Deterministic'
  <2>1. op[c].at = "upload" /\ op[c].file \in Contents => op[c].data = Sealed(op[c].file)
    BY <1>s DEF Ops
  <2>2. \A x \in strays' : x.file \in Contents => x.data = Sealed(x.file)
    BY <1>7, <1>s, <2>1 DEF PutFails, Strays
  <2>3. Strays'
    BY <2>2 DEF Strays, Sealed, ConvergentKey
  <2> QED
    BY <1>7, <1>g, <1>u, <1>e, <2>3 DEF PutFails, tracker
<1>8. ASSUME NEW x \in strays, NEW n \in Nodes, StrayLands(x, n) PROVE Deterministic'
  <2>1. x.file \in Files /\ x.index \in Indices /\ x.data \in Payload
    BY DEF TypeOK
  <2>2. x.file \in Contents => x.data = Sealed(x.file)
    BY <1>s DEF Strays
  <2>3. Shards'
    BY <1>8, <1>w, <2>1, <2>2 DEF StrayLands
  <2>4. Strays'
    BY <1>8, <1>s DEF StrayLands, Strays, Sealed, ConvergentKey
  <2> QED
    BY <1>8, <1>g, <1>u, <2>3, <2>4 DEF StrayLands, tracker
<1>9. ASSUME NEW c \in Clients, NEW f \in Files, DeleteBegin(c, f) PROVE Deterministic'
  <2>1. Ops'
    BY <1>9, <1>c DEF DeleteBegin, Operation
  <2> QED
    BY <1>9, <1>g, <1>u, <2>1 DEF DeleteBegin, tracker
<1>10. ASSUME NEW c \in Clients, NEW i \in Indices, DeleteShard(c, i) PROVE Deterministic'
  <2>1. \A x \in Nodes \X Files \X Indices : shard'[x] \in {None, shard[x]}
    BY <1>10 DEF DeleteShard, TypeOK
  <2>2. \A n \in Nodes, f \in Contents, j \in Indices : shard'[<<n, f, j>>] \in {None, Sealed(f)}
    BY <1>s, <2>1 DEF Shards, Files
  <2>3. Shards'
    BY <2>2 DEF Shards, Sealed, ConvergentKey
  <2>4. Ops'
    BY <1>10, <1>c DEF DeleteShard, Operation
  <2> QED
    BY <1>10, <1>g, <1>u, <2>3, <2>4 DEF DeleteShard, tracker
<1>11. ASSUME NEW c \in Clients, DeleteMeta(c) PROVE Deterministic'
  <2>1. \A f \in Files : files'[f] \in {None, files[f]}
    BY <1>11 DEF DeleteMeta, TypeOK, tracker
  <2>2. Records'
    BY <1>s, <2>1 DEF Records, Sealed, ConvergentKey, Files
  <2> QED
    BY <1>11, <1>g, <1>u, <1>e, <2>2 DEF DeleteMeta
<1>12. ASSUME NEW c \in Clients, DeleteFails(c) PROVE Deterministic'
  BY <1>12, <1>g, <1>u, <1>e DEF DeleteFails, tracker
<1>13. ASSUME TrackerRestart PROVE Deterministic'
  <2>1. Records'
    BY <1>13 DEF TrackerRestart, Records, Files
  <2> QED
    BY <1>13, <1>g, <1>u, <2>1 DEF TrackerRestart
<1>14. ASSUME UNCHANGED vars PROVE Deterministic'
  BY <1>14, <1>g, <1>u DEF vars
<1> QED
  BY <1>1, <1>2, <1>3, <1>4, <1>5, <1>6, <1>7, <1>8, <1>9, <1>10, <1>11,
     <1>12, <1>13, <1>14 DEF Next

(* What an upload has placed stays there while no delete crosses it. *)
LEMMA UploadsHeldStep ==
    TypeOK /\ TypeOK' /\ UploadsHeld /\ [Next]_vars => UploadsHeld'
<1> SUFFICES ASSUME TypeOK, TypeOK', UploadsHeld, [Next]_vars PROVE UploadsHeld'
  OBVIOUS
<1> USE OwnersAssumption, NoneAssumption
<1> DEFINE Placed(b) == \A i \in Indices : op[b].map[i] # None =>
                           shard[<<op[b].map[i], op[b].file, i>>] # None
           Uncrossed(b) == /\ op[b].at = "upload" /\ op[b].file \in Contents
                           /\ b \notin crossed
           Kept == \A x \in Nodes \X Files \X Indices : shard[x] # None => shard'[x] # None
<1>h. \A b \in Clients : Uncrossed(b) => Placed(b)
  BY DEF UploadsHeld
<1>g. (\A b \in Clients : Uncrossed(b)' => Placed(b)') => UploadsHeld'
  BY DEF UploadsHeld
<1>p. \A b \in Clients : op[b] \in Operations /\ op'[b] \in Operations
  BY DEF TypeOK
<1>k. ASSUME Kept, NEW b \in Clients, op'[b] = op[b],
             b \notin crossed' /\ op[b].at = "upload" => b \notin crossed,
             Uncrossed(b)'
      PROVE  Placed(b)'
  <2>1. Uncrossed(b) /\ Placed(b) /\ op[b].map \in Placement /\ op[b].file \in Files
    BY <1>h, <1>k, <1>p, Phases
  <2>2. ASSUME NEW i \in Indices, op[b].map[i] # None
        PROVE  shard'[<<op[b].map[i], op[b].file, i>>] # None
    <3>1. <<op[b].map[i], op[b].file, i>> \in Nodes \X Files \X Indices
      BY <2>1, <2>2 DEF Placement
    <3> QED
      BY <1>k, <2>1, <2>2, <3>1
  <2> QED
    BY <1>k, <2>2
<1>s. ASSUME Kept, NEW c \in Clients, NEW o, op' = [op EXCEPT ![c] = o],
             o.at = "upload" /\ o.file \in Contents => o.map = NoShards,
             \A b \in Clients \ {c} : b \notin crossed' => b \notin crossed
      PROVE  UploadsHeld'
  <2>1. \A b \in Clients : op'[b] = IF b = c THEN o ELSE op[b]
    BY <1>s DEF TypeOK
  <2>2. ASSUME Uncrossed(c)' PROVE Placed(c)'
    BY <1>s, <2>1, <2>2 DEF NoShards
  <2>3. ASSUME NEW b \in Clients \ {c}, Uncrossed(b)' PROVE Placed(b)'
    BY <1>k, <1>s, <2>1, <2>3
  <2> QED
    BY <1>g, <2>2, <2>3
<1>e. ASSUME Kept, NEW c \in Clients, op' = Ended(c),
             \A b \in Clients \ {c} : b \notin crossed' => b \notin crossed
      PROVE  UploadsHeld'
  BY <1>e, <1>s DEF Ended, Idle
<1>u. UNCHANGED shard => Kept
  OBVIOUS
<1>w. ASSUME NEW n \in Nodes, NEW f \in Files, NEW i \in Indices, NEW d \in Payload,
             Write(n, f, i, d)
      PROVE  Kept
  BY <1>w, WriteEffect
<1> HIDE DEF Placed, Uncrossed, Kept
<1>1. ASSUME NEW c \in Clients, NEW h \in Contents, PutConvergent(c, h) PROVE UploadsHeld'
  BY <1>1, <1>s, <1>u DEF PutConvergent, Operation, history
<1>2. ASSUME NEW c \in Clients, NEW p \in Paths, NEW h \in Contents, PutPrivate(c, p, h)
      PROVE UploadsHeld'
  BY <1>2, <1>s, <1>u DEF PutPrivate, Operation, history
<1>3. ASSUME NEW c \in Clients, DedupCheck(c) PROVE UploadsHeld'
  BY <1>3, <1>s, <1>u DEF DedupCheck, Operation, history
<1>4. ASSUME NEW c \in Clients, DedupRegister(c) PROVE UploadsHeld'
  BY <1>4, <1>e, <1>u DEF DedupRegister, history
<1>5. ASSUME NEW c \in Clients, NEW i \in Indices, NEW n \in Nodes, UploadShard(c, i, n)
      PROVE UploadsHeld'
  <2>1. op[c].file \in Files /\ op[c].data \in Payload /\ op[c].map \in Placement
    BY <1>5, <1>p, Phases DEF UploadShard
  <2>2. Kept
    BY <1>5, <1>w, <2>1 DEF UploadShard
  <2>3. \A b \in Clients \ {c} : op'[b] = op[b]
    BY <1>5 DEF UploadShard, TypeOK
  <2>4. /\ op'[c].at = "upload" /\ op'[c].file = op[c].file
        /\ op'[c].map = [op[c].map EXCEPT ![i] = n]
    BY <1>5 DEF UploadShard, Operation, TypeOK
  <2>5. ASSUME NEW b \in Clients \ {c}, Uncrossed(b)' PROVE Placed(b)'
    BY <1>5, <1>k, <2>2, <2>3, <2>5 DEF UploadShard, history
  <2>6. ASSUME Uncrossed(c)', NEW j \in Indices, op'[c].map[j] # None
        PROVE  shard'[<<op'[c].map[j], op'[c].file, j>>] # None
    <3>1. Placed(c)
      BY <1>5, <1>h, <2>4, <2>6 DEF UploadShard, history, Uncrossed
    <3>2. CASE j = i
      <4>1. op'[c].map[j] = n /\ <<n, op[c].file, i>> \in Nodes \X Files \X Indices
        BY <2>1, <2>4, <3>2 DEF Placement
      <4> QED
        BY <1>5, <2>1, <2>4, <3>2, <4>1, WriteEffect DEF UploadShard
    <3>3. CASE j # i
      <4>1. op'[c].map[j] = op[c].map[j]
        BY <2>1, <2>4, <3>3 DEF Placement
      <4>2. <<op[c].map[j], op[c].file, j>> \in Nodes \X Files \X Indices
        BY <2>1, <2>6, <4>1 DEF Placement
      <4> QED
        BY <2>2, <2>4, <2>6, <3>1, <4>1, <4>2 DEF Kept, Placed
    <3> QED
      BY <3>2, <3>3
  <2>7. Uncrossed(c)' => Placed(c)'
    BY <2>6 DEF Placed
  <2> QED
    BY <1>g, <2>5, <2>7
<1>6. ASSUME NEW c \in Clients, StoreMeta(c) PROVE UploadsHeld'
  BY <1>6, <1>e, <1>u DEF StoreMeta
<1>7. ASSUME NEW c \in Clients, PutFails(c) PROVE UploadsHeld'
  BY <1>7, <1>e, <1>u DEF PutFails
<1>8. ASSUME NEW x \in strays, NEW n \in Nodes, StrayLands(x, n) PROVE UploadsHeld'
  <2>1. Kept
    BY <1>8, <1>w DEF StrayLands, TypeOK
  <2> QED
    BY <1>8, <1>g, <1>k, <2>1 DEF StrayLands, history
<1>9. ASSUME NEW c \in Clients, NEW f \in Files, DeleteBegin(c, f) PROVE UploadsHeld'
  BY <1>9, <1>s, <1>u DEF DeleteBegin, Operation, history
<1>10. ASSUME NEW c \in Clients, NEW i \in Indices, DeleteShard(c, i) PROVE UploadsHeld'
  <2>1. \A b \in Clients \ {c} : op'[b] = op[b]
    BY <1>10 DEF DeleteShard, TypeOK
  <2>2. op'[c].at = "delete"
    BY <1>10 DEF DeleteShard, Operation, TypeOK
  <2>3. op[c].file \in Files /\ op[c].map \in Placement
    BY <1>10, <1>p, Phases DEF DeleteShard
  <2>4. CASE UNCHANGED <<shard, history>>
    BY <1>10, <1>g, <1>k, <1>u, <2>1, <2>2, <2>4 DEF history, Uncrossed
  <2>5. ASSUME shard' = [shard EXCEPT ![<<op[c].map[i], op[c].file, i>>] = None],
               crossed' = crossed \cup
                  {b \in Clients : op[b].at = "upload" /\ op[b].file = op[c].file},
               NEW b \in Clients, Uncrossed(b)'
        PROVE  Placed(b)'
    <3>1. b # c /\ op'[b] = op[b]
      BY <2>1, <2>2, <2>5 DEF Uncrossed
    <3>2. b \notin crossed /\ op[b].at = "upload" /\ op[b].file # op[c].file
          /\ op[b].file \in Contents
      BY <2>5, <3>1 DEF Uncrossed
    <3>3. Placed(b) /\ op[b].map \in Placement
      BY <1>h, <1>p, <3>2, Phases DEF Uncrossed
    <3>4. ASSUME NEW j \in Indices, op[b].map[j] # None
          PROVE  shard'[<<op[b].map[j], op[b].file, j>>] # None
      <4>1. <<op[b].map[j], op[b].file, j>> \in Nodes \X Files \X Indices
        BY <3>2, <3>3, <3>4 DEF Placement, Files
      <4>2. <<op[b].map[j], op[b].file, j>> # <<op[c].map[i], op[c].file, i>>
        BY <3>2
      <4> QED
        BY <2>5, <3>3, <3>4, <4>1, <4>2 DEF Placed, TypeOK
    <3> QED
      BY <3>1, <3>4 DEF Placed
  <2> QED
    BY <1>10, <1>g, <2>4, <2>5 DEF DeleteShard
<1>11. ASSUME NEW c \in Clients, DeleteMeta(c) PROVE UploadsHeld'
  BY <1>11, <1>e, <1>u DEF DeleteMeta
<1>12. ASSUME NEW c \in Clients, DeleteFails(c) PROVE UploadsHeld'
  BY <1>12, <1>e, <1>u DEF DeleteFails, history
<1>13. ASSUME TrackerRestart PROVE UploadsHeld'
  BY <1>13, <1>g, <1>k, <1>u DEF TrackerRestart
<1>14. ASSUME UNCHANGED vars PROVE UploadsHeld'
  BY <1>14, <1>g, <1>k, <1>u DEF vars, history
<1> QED
  BY <1>1, <1>2, <1>3, <1>4, <1>5, <1>6, <1>7, <1>8, <1>9, <1>10, <1>11,
     <1>12, <1>13, <1>14 DEF Next

(* A record that is backed stays backed, and a new one is when it is stored. *)
LEMMA BackedStep ==
    /\ TypeOK /\ TypeOK' /\ Deterministic /\ Deterministic' /\ UploadsHeld
    /\ ConvergentBacked /\ [Next]_vars
    => ConvergentBacked'
<1> SUFFICES ASSUME TypeOK, TypeOK', Deterministic, Deterministic', UploadsHeld,
                    ConvergentBacked, [Next]_vars
             PROVE  ConvergentBacked'
  OBVIOUS
<1> USE OwnersAssumption, NoneAssumption
<1> DEFINE Whole(f) == \A i \in Indices : /\ files[f].map[i] # None
                                          /\ shard[<<files[f].map[i], f, i>>] # None
           Kept == \A x \in Nodes \X Files \X Indices : shard[x] # None => shard'[x] # None
           Same(f) == /\ files[f] # None /\ f \notin torn
                      /\ files'[f].map = files[f].map
<1>m. ASSUME NEW f \in Contents
      PROVE  /\ files[f] # None => files[f].map \in Placement
             /\ files'[f] # None => files'[f].map \in Placement
  BY DEF TypeOK, Record, Files
<1>h. \A f \in Contents : files[f] # None /\ f \notin torn => Whole(f)
  <2> SUFFICES ASSUME NEW f \in Contents, files[f] # None, f \notin torn, NEW i \in Indices
               PROVE  /\ files[f].map[i] # None
                      /\ shard[<<files[f].map[i], f, i>>] # None
    OBVIOUS
  <2>1. files[f].map[i] # None /\ shard[<<files[f].map[i], f, i>>] = Sealed(f)
    BY DEF ConvergentBacked, Backed, Holds, Deterministic
  <2> QED
    BY <2>1, SealedIsPayload
<1>g. ASSUME \A f \in Contents : files'[f] # None /\ f \notin torn' => Whole(f)'
      PROVE  ConvergentBacked'
  <2> SUFFICES ASSUME NEW f \in Contents, files'[f] # None, f \notin torn', NEW i \in Indices
               PROVE  /\ files'[f].map[i] # None
                      /\ shard'[<<files'[f].map[i], f, i>>] = files'[f].data
    BY DEF ConvergentBacked, Backed, Holds
  <2>1. files'[f].map[i] # None /\ shard'[<<files'[f].map[i], f, i>>] # None
    BY <1>g
  <2>2. files'[f].map[i] \in Nodes
    BY <1>m, <2>1 DEF Placement
  <2>3. shard'[<<files'[f].map[i], f, i>>] = Sealed(f)' /\ files'[f].data = Sealed(f)'
    BY <2>1, <2>2 DEF Deterministic
  <2> QED
    BY <2>1, <2>3
<1>k. ASSUME Kept, NEW f \in Contents, Same(f) PROVE Whole(f)'
  <2>1. Whole(f) /\ files[f].map \in Placement
    BY <1>h, <1>k, <1>m
  <2>2. ASSUME NEW i \in Indices PROVE shard'[<<files[f].map[i], f, i>>] # None
    <3>1. <<files[f].map[i], f, i>> \in Nodes \X Files \X Indices
      BY <2>1 DEF Placement, Files
    <3> QED
      BY <1>k, <2>1, <3>1
  <2> QED
    BY <1>k, <2>1, <2>2
<1>f. ASSUME Kept, UNCHANGED <<files, torn>> PROVE ConvergentBacked'
  BY <1>f, <1>g, <1>k
<1>u. UNCHANGED shard => Kept
  OBVIOUS
<1>p. \A b \in Clients : op[b] \in Operations
  BY DEF TypeOK
<1>w. ASSUME NEW n \in Nodes, NEW f \in Files, NEW i \in Indices, NEW d \in Payload,
             Write(n, f, i, d)
      PROVE  Kept
  BY <1>w, WriteEffect
<1> HIDE DEF Whole, Kept
<1>1. ASSUME NEW c \in Clients,
             \/ \E h \in Contents : PutConvergent(c, h)
             \/ \E p \in Paths, h \in Contents : PutPrivate(c, p, h)
             \/ DedupCheck(c) \/ PutFails(c) \/ DeleteFails(c)
             \/ \E f \in Files : DeleteBegin(c, f)
      PROVE  ConvergentBacked'
  BY <1>1, <1>f, <1>u DEF PutConvergent, PutPrivate, DedupCheck, PutFails,
     DeleteFails, DeleteBegin, tracker, history
<1>4. ASSUME NEW c \in Clients, DedupRegister(c) PROVE ConvergentBacked'
  <2>1. op[c].file \in Files
    BY <1>4, <1>p, Phases DEF DedupRegister, Files
  <2>2. \A f \in Files : files[f] # None => AddRef(files[f], Owner[c]).map = files[f].map
    BY DEF TypeOK, Record, AddRef
  <2>3. \A f \in Files : files'[f] # None => files[f] # None /\ files'[f].map = files[f].map
    BY <1>4, <2>1, <2>2 DEF DedupRegister, TypeOK
  <2>4. Kept /\ UNCHANGED torn
    BY <1>4, <1>u DEF DedupRegister, history
  <2> QED
    BY <1>g, <1>k, <2>3, <2>4 DEF Files
<1>5. ASSUME NEW c \in Clients, NEW i \in Indices, NEW n \in Nodes, UploadShard(c, i, n)
      PROVE ConvergentBacked'
  <2>1. op[c].file \in Files /\ op[c].data \in Payload
    BY <1>5, <1>p, Phases DEF UploadShard
  <2> QED
    BY <1>5, <1>f, <1>w, <2>1 DEF UploadShard, tracker, history
<1>6. ASSUME NEW c \in Clients, StoreMeta(c) PROVE ConvergentBacked'
  <2>1. op[c].file \in Files /\ op[c].map \in Placement
    BY <1>6, <1>p, Phases DEF StoreMeta
  <2>2. ASSUME NEW f \in Contents, files'[f] # None, f \notin torn', f # op[c].file
        PROVE  Same(f)
    BY <1>6, <2>1, <2>2 DEF StoreMeta, TypeOK, Files
  <2>3. ASSUME NEW f \in Contents, f = op[c].file, f \notin torn' PROVE Whole(f)'
    <3>1. c \notin crossed
      BY <1>6, <2>3 DEF StoreMeta
    <3>2. \A i \in Indices : /\ op[c].map[i] # None
                             /\ shard[<<op[c].map[i], op[c].file, i>>] # None
      BY <1>6, <2>3, <3>1 DEF StoreMeta, AllUploaded, UploadsHeld
    <3>3. files'[f].map = op[c].map /\ UNCHANGED shard
      BY <1>6, <2>1, <2>3 DEF StoreMeta, TypeOK
    <3> QED
      BY <2>3, <3>2, <3>3 DEF Whole
  <2>4. Kept
    BY <1>6, <1>u DEF StoreMeta
  <2> QED
    BY <1>g, <1>k, <2>2, <2>3, <2>4
<1>8. ASSUME NEW x \in strays, NEW n \in Nodes, StrayLands(x, n) PROVE ConvergentBacked'
  <2>1. Kept
    BY <1>8, <1>w DEF StrayLands, TypeOK
  <2> QED
    BY <1>8, <1>f, <2>1 DEF StrayLands, tracker, history
<1>10. ASSUME NEW c \in Clients, NEW i \in Indices, DeleteShard(c, i) PROVE ConvergentBacked'
  <2>1. op[c].file \in Files /\ op[c].map \in Placement
    BY <1>10, <1>p, Phases DEF DeleteShard
  <2>2. CASE UNCHANGED <<shard, history>>
    BY <1>10, <1>f, <1>u, <2>2 DEF DeleteShard, tracker, history
  <2>3. CASE /\ shard' = [shard EXCEPT ![<<op[c].map[i], op[c].file, i>>] = None]
             /\ torn' = torn \cup {f \in {op[c].file} : files[f] # None}
    <3>1. ASSUME NEW f \in Contents, files'[f] # None, f \notin torn' PROVE Whole(f)'
      <4>1. files' = files /\ f # op[c].file /\ f \notin torn
        BY <1>10, <2>3, <3>1 DEF DeleteShard, tracker
      <4>2. Whole(f) /\ files[f].map \in Placement
        BY <1>h, <1>m, <3>1, <4>1
      <4>3. ASSUME NEW j \in Indices PROVE shard'[<<files[f].map[j], f, j>>] # None
        <5>1. <<files[f].map[j], f, j>> \in Nodes \X Files \X Indices
          BY <4>2 DEF Placement, Files, Whole
        <5>2. <<files[f].map[j], f, j>> # <<op[c].map[i], op[c].file, i>>
          BY <4>1
        <5> QED
          BY <2>3, <4>2, <5>1, <5>2 DEF TypeOK, Whole
      <4> QED
        BY <4>1, <4>2, <4>3 DEF Whole
    <3> QED
      BY <1>g, <3>1
  <2> QED
    BY <1>10, <2>2, <2>3 DEF DeleteShard
<1>11. ASSUME NEW c \in Clients, DeleteMeta(c) PROVE ConvergentBacked'
  <2>1. \A f \in Files : files'[f] \in {None, files[f]}
    BY <1>11 DEF DeleteMeta, TypeOK, tracker
  <2>2. Kept /\ torn' = {g \in torn : files'[g] # None}
    BY <1>11, <1>u DEF DeleteMeta
  <2> QED
    BY <1>g, <1>k, <2>1, <2>2 DEF Files
<1>13. ASSUME TrackerRestart PROVE ConvergentBacked'
  BY <1>13 DEF TrackerRestart, ConvergentBacked, Files
<1>14. ASSUME UNCHANGED vars PROVE ConvergentBacked'
  BY <1>14, <1>f, <1>u DEF vars, history, tracker
<1> QED
  BY <1>1, <1>4, <1>5, <1>6, <1>8, <1>10, <1>11, <1>13, <1>14 DEF Next

(* What a hash is indexed to is the convergent file of that content. *)
LEMMA IndexStep ==
    TypeOK /\ Deterministic /\ RestIsUnindexed /\ IndexSound /\ [Next]_vars => IndexSound'
<1> SUFFICES ASSUME TypeOK, Deterministic, RestIsUnindexed, IndexSound, [Next]_vars
             PROVE  IndexSound'
  OBVIOUS
<1> USE OwnersAssumption, NoneAssumption
<1> DEFINE Good(h) == LET f == content_index[h] IN
                      /\ f \in Contents /\ files[f] # None /\ files[f].data = Sealed(h)
<1>h. \A h \in Contents : content_index[h] # None => Good(h)
  BY DEF IndexSound, Sealed
<1>g. (\A h \in Contents : content_index'[h] # None => Good(h)') => IndexSound'
  BY DEF IndexSound, Sealed, ConvergentKey
<1>s. \A h \in Contents : Sealed(h)' = Sealed(h)
  BY DEF Sealed, ConvergentKey
<1>p. \A b \in Clients : op[b] \in Operations
  BY DEF TypeOK
<1>1. ASSUME UNCHANGED tracker PROVE IndexSound'
  BY <1>1, <1>g, <1>h, <1>s DEF tracker
<1>2. ASSUME NEW c \in Clients, DedupRegister(c) PROVE IndexSound'
  <2>1. op[c].file \in Files
    BY <1>2, <1>p, Phases DEF DedupRegister, Files
  <2>2. \A f \in Files : files[f] # None =>
            AddRef(files[f], Owner[c]) \in Record /\ AddRef(files[f], Owner[c]).data = files[f].data
    BY DEF TypeOK, Record, AddRef
  <2>3. \A f \in Files : files[f] # None => files'[f] # None /\ files'[f].data = files[f].data
    BY <1>2, <2>1, <2>2 DEF DedupRegister, TypeOK
  <2> QED
    BY <1>2, <1>g, <1>h, <1>s, <2>3 DEF DedupRegister, Files
<1>3. ASSUME NEW c \in Clients, StoreMeta(c) PROVE IndexSound'
  <2>1. /\ op[c].file \in Files /\ op[c].data \in Payload /\ op[c].map \in Placement
    BY <1>3, <1>p, Phases DEF StoreMeta
  <2>2. op[c].file \in Contents => op[c].data = Sealed(op[c].file)
    BY <1>3 DEF StoreMeta, Deterministic
  <2>3. /\ files'[op[c].file] # None /\ files'[op[c].file].data = op[c].data
        /\ \A f \in Files \ {op[c].file} : files'[f] = files[f]
    BY <1>3, <2>1 DEF StoreMeta, TypeOK, Record
  <2>4. ASSUME NEW h \in Contents, content_index'[h] # None PROVE Good(h)'
    <3>1. CASE content_index'[h] = content_index[h]
      <4>1. Good(h) /\ content_index[h] \in Files
        BY <1>h, <2>4, <3>1 DEF Files
      <4>2. content_index[h] = op[c].file => Sealed(op[c].file) = Sealed(h)
        BY <4>1 DEF Deterministic
      <4> QED
        BY <1>s, <2>2, <2>3, <3>1, <4>1, <4>2
    <3>2. CASE content_index'[h] # content_index[h]
      <4>1. op[c].file \in Contents /\ h = op[c].data.of /\ content_index'[h] = op[c].file
        BY <1>3, <2>1, <3>2 DEF StoreMeta, TypeOK
      <4>2. h = op[c].file
        BY <2>2, <4>1 DEF Sealed
      <4> QED
        BY <1>s, <2>2, <2>3, <4>1, <4>2
    <3> QED
      BY <3>1, <3>2
  <2> QED
    BY <1>g, <2>4
<1>4. ASSUME NEW c \in Clients, DeleteMeta(c) PROVE IndexSound'
  <2> DEFINE f == op[c].file
  <2>1. f \in Files
    BY <1>4, <1>p, Phases DEF DeleteMeta
  <2>2. CASE UNCHANGED tracker
    BY <1>1, <2>2
  <2>3. CASE /\ files[f] # None /\ files' = [files EXCEPT ![f] = None]
             /\ content_index' = IF rest THEN content_index ELSE Unindexed(files[f])
    <3>r. CASE rest
      BY <1>4, <1>g, <2>3, <3>r DEF RestIsUnindexed
    <3>t. CASE ~rest
      <4>1. ASSUME NEW h \in Contents, content_index'[h] # None PROVE Good(h)'
        <5>1. content_index'[h] = content_index[h] /\ h # files[f].data.of
          BY <2>3, <3>t, <4>1 DEF Unindexed, TypeOK
        <5>2. Good(h)
          BY <1>h, <4>1, <5>1
        <5>3. content_index[h] # f
          BY <5>1, <5>2 DEF Sealed
        <5> QED
          BY <1>s, <2>1, <2>3, <5>1, <5>2, <5>3 DEF TypeOK, Files
      <4> QED
        BY <1>g, <4>1
    <3> QED
      BY <3>r, <3>t
  <2> QED
    BY <1>4, <2>2, <2>3 DEF DeleteMeta
<1>5. ASSUME TrackerRestart PROVE IndexSound'
  BY <1>5, <1>g DEF TrackerRestart
<1> QED
  BY <1>1, <1>2, <1>3, <1>4, <1>5 DEF Next, PutConvergent, PutPrivate, DedupCheck,
     UploadShard, PutFails, StrayLands, DeleteBegin, DeleteShard, DeleteFails, vars, tracker

LEMMA RestStep == TypeOK /\ RestIsUnindexed /\ [Next]_vars => RestIsUnindexed'
<1> SUFFICES ASSUME TypeOK, RestIsUnindexed, [Next]_vars PROVE RestIsUnindexed'
  OBVIOUS
<1>1. UNCHANGED rest
  BY DEF Next, PutConvergent, PutPrivate, DedupCheck, DedupRegister, UploadShard, StoreMeta,
     PutFails, StrayLands, DeleteBegin, DeleteShard, DeleteMeta, DeleteFails, TrackerRestart, vars
<1>2. rest => UNCHANGED content_index \/ TrackerRestart
  BY DEF Next, PutConvergent, PutPrivate, DedupCheck, DedupRegister, UploadShard, StoreMeta,
     PutFails, StrayLands, DeleteBegin, DeleteShard, DeleteMeta, DeleteFails, vars, tracker
<1> QED
  BY <1>1, <1>2 DEF RestIsUnindexed, TrackerRestart

LEMMA InvInit == Init => Inv
<1> SUFFICES ASSUME Init PROVE Inv
  OBVIOUS
<1>1. TypeOK
  BY InitTypes
<1>2. Deterministic
  BY DEF Init, Deterministic, Idle, Files
<1>3. UploadsHeld
  BY DEF Init, UploadsHeld, Idle
<1>4. ConvergentBacked /\ RestIsUnindexed /\ IndexSound
  BY DEF Init, ConvergentBacked, RestIsUnindexed, IndexSound, Files
<1> QED
  BY <1>1, <1>2, <1>3, <1>4 DEF Inv

LEMMA InvStep == Inv /\ [Next]_vars => Inv'
BY TypesStep, DeterministicStep, UploadsHeldStep, BackedStep, RestStep, IndexStep DEF Inv

(* For any clients, owners, contents, nodes and number of shards, and      *)
(* whatever requests fail, uploads overlap and trackers restart: the       *)
(* record of a convergent file that no delete has torn is backed by every  *)
(* shard it names.  Inv is needed because the record's shards were placed  *)
(* before it, by an upload (UploadsHeld), and because only determinism     *)
(* makes a shard left by another put as good as one's own.                 *)
THEOREM ConvergentFilesAreBacked == Spec => []ConvergentBacked
<1>1. Inv => ConvergentBacked
  BY DEF Inv
<1> QED
  BY <1>1, InvInit, InvStep, PTL DEF Spec

(* An indexed hash always leads to the convergent file of that content. *)
THEOREM IndexIsSound == Spec => []IndexSound
<1>1. Inv => IndexSound
  BY DEF Inv
<1> QED
  BY <1>1, InvInit, InvStep, PTL DEF Spec

(* Every reachable state has the types of TypeOK. *)
THEOREM TypeCorrect == Spec => []TypeOK
<1>1. Inv => TypeOK
  BY DEF Inv
<1> QED
  BY <1>1, InvInit, InvStep, PTL DEF Spec
=============================================================================
