------------------------- MODULE StorageNodeProofs -------------------------
(***************************************************************************)
(* The capacity promise of a storage node, for every set of shards, every  *)
(* payload size and every donation.                                        *)
(***************************************************************************)
EXTENDS StorageNode, FiniteSetTheorems, TLAPS

----------------------------------------------------------------------------
(* What the byte count of a directory is. *)

(* The bytes of a directory are finite in number. *)
LEMMA BytesFinite ==
    ASSUME NEW dk \in Disk
    PROVE  /\ IsFiniteSet(Bytes(dk))
           /\ used_bytes(dk) \in Nat
<1>1. IsFiniteSet(1 .. MaxShard)
  BY SizeAssumption, FS_Interval
<1>2. IsFiniteSet(Shards \X (1 .. MaxShard))
  BY <1>1, ShardsAssumption, FS_Product
<1>3. Bytes(dk) \in SUBSET (Shards \X (1 .. MaxShard))
  BY DEF Bytes
<1>4. IsFiniteSet(Bytes(dk))
  BY <1>2, <1>3, FS_Subset
<1> QED
  BY <1>4, FS_CardinalityType DEF used_bytes

(* Removing files leaves a directory. *)
LEMMA WithoutIsDisk ==
    ASSUME NEW dk \in Disk, NEW gone
    PROVE  Without(dk, gone) \in Disk
BY DEF Without, Disk

(* A directory without files uses nothing. *)
LEMMA EmptyDiskUsesNothing ==
    ASSUME NEW dk \in Disk
    PROVE  used_bytes(Without(dk, Present(dk))) = 0
<1>1. Bytes(Without(dk, Present(dk))) = {}
  BY DEF Bytes, Without, Present
<1> QED
  BY <1>1, FS_EmptySet DEF used_bytes

(* Writing n bytes of a payload adds at most n bytes, whatever the file    *)
(* held before.                                                            *)
LEMMA WriteAddsItsLength ==
    ASSUME NEW dk \in Disk, NEW s \in Shards, NEW d \in Data,
           NEW n \in 0 .. MaxShard
    PROVE  LET after == [dk EXCEPT ![s] = [data |-> d, len |-> n]]
           IN  /\ after \in Disk
               /\ used_bytes(after) <= used_bytes(dk) + n
<1> DEFINE after == [dk EXCEPT ![s] = [data |-> d, len |-> n]]
           written == {s} \X (1 .. n)
<1>1. after \in Disk
  BY DEF Disk, File
<1>2. IsFiniteSet(written) /\ Cardinality(written) = n
  <2>1. IsFiniteSet({s}) /\ Cardinality({s}) = 1
    BY FS_Singleton
  <2>2. IsFiniteSet(1 .. n) /\ Cardinality(1 .. n) = n
    BY SizeAssumption, FS_Interval
  <2>3. IsFiniteSet(written)
          /\ Cardinality(written) = Cardinality({s}) * Cardinality(1 .. n)
    BY <2>1, <2>2, FS_Product
  <2> QED
    BY <2>1, <2>2, <2>3
<1>3. Bytes(after) \subseteq Bytes(dk) \cup written
  <2> SUFFICES ASSUME NEW b \in Bytes(after), b \notin Bytes(dk)
               PROVE  b \in written
    OBVIOUS
  <2>1. b \in Shards \X (1 .. MaxShard) /\ b[2] <= after[b[1]].len
    BY DEF Bytes
  <2>2. b[1] = s
    BY <2>1 DEF Bytes, Disk
  <2>3. b[2] <= n /\ b[2] \in 1 .. MaxShard
    BY <2>1, <2>2 DEF Disk
  <2> QED
    BY <2>1, <2>2, <2>3, SizeAssumption
<1>4. IsFiniteSet(Bytes(dk)) /\ used_bytes(dk) \in Nat
  BY BytesFinite
<1>5. /\ IsFiniteSet(Bytes(dk) \cup written)
      /\ Cardinality(Bytes(dk) \cup written) =
           used_bytes(dk) + n - Cardinality(Bytes(dk) \cap written)
  BY <1>2, <1>4, FS_Union DEF used_bytes
<1>6. Cardinality(Bytes(dk) \cap written) \in Nat
  BY <1>4, FS_Intersection, FS_CardinalityType
<1>7. used_bytes(after) <= Cardinality(Bytes(dk) \cup written)
  BY <1>3, <1>5, FS_Subset DEF used_bytes
<1>8. used_bytes(after) \in Nat
  BY <1>1, BytesFinite
<1>9. Cardinality(Bytes(dk) \cup written) \in Nat
  BY <1>5, FS_CardinalityType
<1> QED
  BY <1>1, <1>4, <1>5, <1>6, <1>7, <1>8, <1>9

(* Removing files never adds bytes. *)
LEMMA WithoutUsesLess ==
    ASSUME NEW dk \in Disk, NEW gone
    PROVE  used_bytes(Without(dk, gone)) <= used_bytes(dk)
<1>1. Bytes(Without(dk, gone)) \in SUBSET Bytes(dk)
  BY DEF Bytes, Without
<1>2. IsFiniteSet(Bytes(dk))
  BY BytesFinite
<1> QED
  BY <1>1, <1>2, FS_Subset DEF used_bytes

----------------------------------------------------------------------------
(* What eviction and store_shard do to the byte count. *)

Ceiling == Donated + MaxShard - 1

(* However many shards an eviction pass removes before it stops, a payload *)
(* of the size it was called for ends below one shard over the donation:   *)
(* the pass counts every freed byte twice, but counts all of them.         *)
LEMMA EvictionMakesRoom ==
    ASSUME NEW dk \in Disk, NEW order, NEW needed \in 1 .. MaxShard,
           used_bytes(dk) <= Ceiling,
           NEW E \in Evictions(dk, order, needed)
    PROVE  used_bytes(Without(dk, E)) + needed <= Ceiling
<1> DEFINE u == used_bytes(dk)
           v == used_bytes(Without(dk, E))
<1>1. u \in Nat /\ v \in Nat
  BY BytesFinite, WithoutIsDisk
<1>2. needed \in Nat /\ needed >= 1 /\ needed <= MaxShard /\ MaxShard \in Nat
        /\ Donated \in Nat /\ Donated >= 1
  BY SizeAssumption, DonatedAssumption
<1>3. CASE needed <= free_bytes(dk)
  <2>1. free_bytes(dk) = IF u <= Donated THEN Donated - u ELSE 0
    BY DEF free_bytes
  <2>2. E = {}
    BY <1>1, <1>2, <1>3, <2>1 DEF Evictions
  <2>3. Without(dk, E) = dk
    BY <2>2 DEF Without, Disk
  <2>4. v = u
    BY <2>3
  <2> QED
    BY <1>1, <1>2, <1>3, <2>1, <2>4 DEF Ceiling
<1>4. CASE needed > free_bytes(dk)
  <2>1. StopsAfter(dk, E, needed) \/ E = Present(dk)
    BY <1>4 DEF Evictions, _evict_shards
  <2>2. CASE E = Present(dk)
    <3>1. v = 0
      BY <2>2, EmptyDiskUsesNothing
    <3> QED
      BY <1>2, <3>1 DEF Ceiling
  <2>3. CASE StopsAfter(dk, E, needed)
    <3>1. (IF v <= Donated THEN Donated - v ELSE 0) + (u - v) >= needed
      BY <2>3 DEF StopsAfter, free_bytes
    <3> QED
      BY <1>1, <1>2, <3>1 DEF Ceiling
  <2> QED
    BY <2>1, <2>2, <2>3
<1> QED
  <2>1. free_bytes(dk) \in Int
    BY <1>1, <1>2 DEF free_bytes
  <2> QED
    BY <1>2, <1>3, <1>4, <2>1

(* Removing files from the directory and from the order keeps it ordered. *)
LEMMA ForgetOrders ==
    ASSUME NEW dk \in Disk, NEW order, Orders(order, dk), NEW gone
    PROVE  Orders(Forget(order, gone), Without(dk, gone))
BY DEF Orders, Forget, Without, Present

(* A file that is written or touched becomes the last of the order, if the *)
(* order was one of the files before or of all the other files.            *)
LEMMA TouchOrders ==
    ASSUME NEW dk \in Disk, NEW s \in Present(dk), NEW before \in Disk,
           NEW order, Orders(order, before),
           Present(dk) = Present(before) \cup {s}
    PROVE  Orders(Touch(order, s, dk), dk)
<1> DEFINE P == Present(dk)
           new == Touch(order, s, dk)
<1>1. new \subseteq P \X P
  BY DEF Orders, Touch, Present
<1>2. \A t, u \in P : <<t, u>> \in new <=> t # s /\ (u = s \/ <<t, u>> \in order)
  BY DEF Touch, Present
<1>3. \A t \in P : t # s => t \in Present(before)
  OBVIOUS
<1> HIDE DEF new
<1>4. \A t, u \in P : IF t = u THEN <<t, u>> \notin new
                               ELSE <<t, u>> \in new <=> <<u, t>> \notin new
  BY <1>2, <1>3 DEF Orders
<1>5. \A t, u, v \in P : <<t, u>> \in new /\ <<u, v>> \in new => <<t, v>> \in new
  BY <1>2, <1>3 DEF Orders
<1> QED
  BY <1>1, <1>4, <1>5 DEF Orders, new

(* store_shard keeps the directory and its order well formed. *)
LEMMA StoreKeepsTypes ==
    ASSUME NEW dk \in Disk, NEW order, Orders(order, dk),
           NEW s \in Shards, NEW d \in Data, NEW n \in 0 .. MaxShard,
           store_shard(dk, order, s, d, n)
    PROVE  /\ disk' \in Disk
           /\ Orders(older', disk')
<1>1. CASE SameSize(dk, s, d) /\ disk' = dk /\ older' = Touch(order, s, dk)
  <2>1. s \in Present(dk) /\ Present(dk) = Present(dk) \cup {s}
    BY <1>1 DEF SameSize, Present
  <2> QED
    BY <1>1, <2>1, TouchOrders
<1>2. ASSUME NEW E, disk' = [Without(dk, E) EXCEPT ![s] = [data |-> d, len |-> n]],
             older' = Touch(Forget(order, E), s, disk')
      PROVE  disk' \in Disk /\ Orders(older', disk')
  <2>1. Without(dk, E) \in Disk /\ Orders(Forget(order, E), Without(dk, E))
    BY WithoutIsDisk, ForgetOrders
  <2>2. disk' \in Disk
    BY <1>2, <2>1, WriteAddsItsLength
  <2>3. [data |-> d, len |-> n] # None
    <3>1. [data |-> d, len |-> n] \in File
      BY DEF File
    <3> QED
      BY <3>1, ShardsAssumption
  <2>4. s \in Present(disk') /\ Present(disk') = Present(Without(dk, E)) \cup {s}
    BY <1>2, <2>1, <2>3 DEF Present, Disk
  <2> QED
    BY <1>2, <2>1, <2>2, <2>4, TouchOrders
<1> QED
  BY <1>1, <1>2 DEF store_shard

(* A payload that fits is stored within the donation. *)
LEMMA StoreThatFits ==
    ASSUME NEW dk \in Disk, NEW order, NEW s \in Shards, NEW d \in Data,
           NEW n \in 0 .. MaxShard, n <= Size[d],
           Size[d] <= free_bytes(dk),
           store_shard(dk, order, s, d, n)
    PROVE  used_bytes(disk') <= Donated
<1>1. Size[d] \in Nat /\ Size[d] >= 1 /\ Donated \in Nat /\ MaxShard \in Nat
  BY SizeAssumption, DonatedAssumption
<1>2. used_bytes(dk) \in Nat
  BY BytesFinite
<1>3. used_bytes(dk) + Size[d] <= Donated
  BY <1>1, <1>2 DEF free_bytes
<1>4. Evictions(dk, order, Size[d]) = {{}}
  BY <1>1, <1>2 DEF Evictions, free_bytes
<1>5. CASE disk' = dk
  BY <1>1, <1>2, <1>3, <1>5
<1>6. ASSUME NEW E \in Evictions(dk, order, Size[d]),
             disk' = [Without(dk, E) EXCEPT ![s] = [data |-> d, len |-> n]]
      PROVE  used_bytes(disk') <= Donated
  <2>1. Without(dk, E) = dk
    BY <1>4 DEF Without, Disk
  <2>2. disk' \in Disk /\ used_bytes(disk') <= used_bytes(dk) + n
    BY <1>6, <2>1, WriteAddsItsLength
  <2>3. used_bytes(disk') \in Nat
    BY <2>2, BytesFinite
  <2> QED
    BY <1>1, <1>2, <1>3, <2>2, <2>3
<1> QED
  BY <1>5, <1>6 DEF store_shard

(* Stored without a look at the capacity, it stays below the ceiling. *)
LEMMA StoreUnchecked ==
    ASSUME NEW dk \in Disk, NEW order, NEW s \in Shards, NEW d \in Data,
           NEW n \in 0 .. MaxShard, n <= Size[d],
           used_bytes(dk) <= Ceiling,
           store_shard(dk, order, s, d, n)
    PROVE  used_bytes(disk') <= Ceiling
<1>1. Size[d] \in 1 .. MaxShard /\ Donated \in Nat /\ MaxShard \in Nat
  BY SizeAssumption, DonatedAssumption
<1>2. CASE disk' = dk
  BY <1>2
<1>3. ASSUME NEW E \in Evictions(dk, order, Size[d]),
             disk' = [Without(dk, E) EXCEPT ![s] = [data |-> d, len |-> n]]
      PROVE  used_bytes(disk') <= Ceiling
  <2>1. Without(dk, E) \in Disk /\ used_bytes(Without(dk, E)) \in Nat
    BY WithoutIsDisk, BytesFinite
  <2>2. disk' \in Disk /\ used_bytes(disk') <= used_bytes(Without(dk, E)) + n
    BY <1>3, <2>1, WriteAddsItsLength
  <2>3. used_bytes(disk') \in Nat
    BY <2>2, BytesFinite
  <2>4. used_bytes(Without(dk, E)) + Size[d] <= Ceiling
    BY <1>1, <1>3, EvictionMakesRoom
  <2> QED
    BY <1>1, <2>1, <2>2, <2>3, <2>4 DEF Ceiling
<1> QED
  BY <1>2, <1>3 DEF store_shard

----------------------------------------------------------------------------
(* The invariant.  TypeOK says that a payload in flight or staged has a    *)
(* size; the unchecked store belongs to the poll loop, which a node with a *)
(* TCP listener never runs.                                                *)

PollsOnlyInHttpMode == pull # Idle => httpMode

CapacityInv == TypeOK /\ PollsOnlyInHttpMode /\ CapacityBound

(* Every handler that checks the capacity keeps a node within its donation *)
(* in TCP mode and below the ceiling in HTTP mode, when it stores and when *)
(* it refuses, also when only n bytes of the payload are written.          *)
LEMMA CheckedStoreKeeps ==
    ASSUME CapacityInv, httpMode' = httpMode,
           NEW s \in Shards, NEW d \in Data, NEW n \in 0 .. MaxShard, n <= Size[d],
           RefusedStore(s, d) \/ AcceptedStore(s, d, n)
    PROVE  /\ disk' \in Disk
           /\ Orders(older', disk')
           /\ CapacityBound'
<1>0. disk \in Disk /\ Orders(older, disk) /\ httpMode \in BOOLEAN
  BY DEF CapacityInv, TypeOK
<1>1. Donated \in Nat /\ MaxShard \in Nat /\ MaxShard >= 1
  BY SizeAssumption, DonatedAssumption
<1>2. CASE RefusedStore(s, d)
  <2>1. PICK E \in Evictions(disk, older, Size[d]) :
            disk' = Without(disk, E) /\ older' = Forget(older, E)
    BY <1>2 DEF RefusedStore
  <2>2. disk' \in Disk /\ used_bytes(disk') <= used_bytes(disk)
    BY <1>0, <2>1, WithoutIsDisk, WithoutUsesLess
  <2>3. used_bytes(disk) \in Nat /\ used_bytes(disk') \in Nat
    BY <1>0, <2>2, BytesFinite
  <2>4. Orders(older', disk')
    BY <1>0, <2>1, ForgetOrders
  <2> QED
    BY <1>1, <2>2, <2>3, <2>4 DEF CapacityInv, CapacityBound
<1>3. CASE AcceptedStore(s, d, n)
  <2>1. PICK E \in Evictions(disk, older, Size[d]) :
            /\ Size[d] <= free_bytes(Without(disk, E))
            /\ store_shard(Without(disk, E), Forget(older, E), s, d, n)
    BY <1>3 DEF AcceptedStore
  <2>2. Without(disk, E) \in Disk /\ Orders(Forget(older, E), Without(disk, E))
    BY <1>0, WithoutIsDisk, ForgetOrders
  <2>3. disk' \in Disk /\ Orders(older', disk')
    BY <2>1, <2>2, StoreKeepsTypes
  <2>4. used_bytes(disk') <= Donated
    BY <2>1, <2>2, StoreThatFits
  <2>5. used_bytes(disk') \in Nat
    BY <2>3, BytesFinite
  <2> QED
    BY <1>1, <2>3, <2>4, <2>5 DEF CapacityBound
<1> QED
  BY <1>2, <1>3

(* An unchecked store keeps a polling node below the ceiling. *)
LEMMA UncheckedStoreKeeps ==
    ASSUME CapacityInv, httpMode, httpMode' = httpMode,
           NEW s \in Shards, NEW d \in Data, NEW n \in 0 .. MaxShard, n <= Size[d],
           store_shard(disk, older, s, d, n)
    PROVE  /\ disk' \in Disk
           /\ Orders(older', disk')
           /\ CapacityBound'
<1>1. disk \in Disk /\ Orders(older, disk)
  BY DEF CapacityInv, TypeOK
<1>2. used_bytes(disk) <= Ceiling
  BY DEF CapacityInv, CapacityBound, Ceiling
<1>3. used_bytes(disk') <= Ceiling
  BY <1>1, <1>2, StoreUnchecked
<1> QED
  BY <1>1, <1>3, StoreKeepsTypes DEF CapacityBound, Ceiling

(* A step that changes no file keeps the byte count. *)
LEMMA SameDisk ==
    ASSUME CapacityInv, disk' = disk, httpMode' = httpMode
    PROVE  CapacityBound'
BY DEF CapacityInv, CapacityBound

(* Every step of the node keeps the invariant. *)
LEMMA CapacityStep ==
    CapacityInv /\ [Next]_vars => CapacityInv'
<1> SUFFICES ASSUME CapacityInv, [Next]_vars
             PROVE  CapacityInv'
  OBVIOUS
<1> USE DEF Silent, Answer, Stored, Idle
<1>0. TypeOK /\ PollsOnlyInHttpMode /\ CapacityBound
  BY DEF CapacityInv
<1>1. \A d \in Data : Size[d] \in 0 .. MaxShard /\ Size[d] <= Size[d]
  BY SizeAssumption
<1>2. ASSUME NEW s \in Shards, FetchShard(s)
      PROVE  CapacityInv'
  <2>1. Orders(older', disk')
    <3>1. s \in Present(disk) /\ Present(disk) = Present(disk) \cup {s}
      BY <1>2 DEF FetchShard, Present
    <3> QED
      BY <1>0, <1>2, <3>1, TouchOrders DEF FetchShard, TypeOK
  <2> QED
    BY <1>0, <1>2, <2>1, SameDisk
    DEF FetchShard, CapacityInv, TypeOK, PollsOnlyInHttpMode
<1>3. ASSUME NEW s \in Shards, TcpDelete(s)
      PROVE  CapacityInv'
  <2>1. disk' \in Disk /\ used_bytes(disk') <= used_bytes(disk)
    BY <1>0, <1>3, WithoutIsDisk, WithoutUsesLess DEF TcpDelete, TypeOK
  <2>2. used_bytes(disk) \in Nat /\ used_bytes(disk') \in Nat
    BY <1>0, <2>1, BytesFinite DEF TypeOK
  <2>3. CapacityBound'
    BY <1>0, <1>3, <2>1, <2>2, SizeAssumption, DonatedAssumption
    DEF TcpDelete, CapacityBound, TypeOK
  <2>4. Orders(older', disk')
    BY <1>0, <1>3, ForgetOrders DEF TcpDelete, TypeOK
  <2> QED
    BY <1>0, <1>3, <2>1, <2>3, <2>4
    DEF TcpDelete, CapacityInv, TypeOK, PollsOnlyInHttpMode
<1>4. ASSUME NEW s \in Shards, PullShard(s)
      PROVE  CapacityInv'
  <2>1. httpMode /\ httpMode' = httpMode /\ staged[s] \in Data
    BY <1>0, <1>4 DEF PullShard, TypeOK, PollsOnlyInHttpMode
  <2>2. store_shard(disk, older, s, staged[s], Size[staged[s]])
    BY <1>4 DEF PullShard
  <2>3. /\ disk' \in Disk /\ Orders(older', disk')
        /\ CapacityBound'
    BY <1>1, <2>1, <2>2, UncheckedStoreKeeps
  <2> QED
    BY <1>0, <1>4, <2>1, <2>3
    DEF PullShard, CapacityInv, TypeOK, PollsOnlyInHttpMode
<1>5. ASSUME NEW s \in Shards, PullFails(s)
      PROVE  CapacityInv'
  BY <1>0, <1>5, SameDisk
  DEF PullFails, CapacityInv, TypeOK, PollsOnlyInHttpMode
<1>6. ASSUME NEW s \in Shards, NEW d \in Data, TcpStore(s, d)
      PROVE  CapacityInv'
  <2>1. RefusedStore(s, d) \/ AcceptedStore(s, d, Size[d])
    BY <1>6 DEF TcpStore, CheckedStore
  <2>2. httpMode' = httpMode
    BY <1>6 DEF TcpStore
  <2>3. /\ disk' \in Disk /\ Orders(older', disk')
        /\ CapacityBound'
    BY <1>1, <2>1, <2>2, CheckedStoreKeeps
  <2>4. reply' \in [kind: {"none", "full", "existed"}] \cup
          [kind: {"stored"}, shard: Shards, data: Data]
    BY <1>6 DEF TcpStore, CheckedStore
  <2> QED
    BY <1>0, <1>6, <2>3, <2>4
    DEF TcpStore, CapacityInv, TypeOK, PollsOnlyInHttpMode
<1>7. ASSUME NEW s \in Shards, NEW d \in Data, StageShard(s, d)
      PROVE  CapacityInv'
  BY <1>0, <1>7, SameDisk
  DEF StageShard, CapacityInv, TypeOK, PollsOnlyInHttpMode
<1>8. ASSUME NEW r \in Requests, DirectStoreEnd(r)
      PROVE  CapacityInv'
  <2>1. direct[r] \in [shard: Shards, data: Data, existed: BOOLEAN]
    BY <1>0, <1>8 DEF DirectStoreEnd, TypeOK
  <2>2. httpMode' = httpMode /\ staged' = staged /\ pull' = pull
        /\ direct' = [direct EXCEPT ![r] = None]
    BY <1>8 DEF DirectStoreEnd
  <2>3. CASE direct[r].existed
    <3>1. disk' = disk /\ older' = older /\ reply' = Answer("existed")
      BY <1>8, <2>3 DEF DirectStoreEnd
    <3> QED
      BY <1>0, <2>2, <3>1, SameDisk
      DEF CapacityInv, TypeOK, PollsOnlyInHttpMode
  <2>4. CASE ~direct[r].existed
    <3> DEFINE s == direct[r].shard
               d == direct[r].data
    <3>1. s \in Shards /\ d \in Data
      BY <2>1
    <3>2. CheckedStore(s, d)
      BY <1>8, <2>4 DEF DirectStoreEnd
    <3>3. /\ RefusedStore(s, d) \/ AcceptedStore(s, d, Size[d])
          /\ reply' \in [kind: {"none", "full", "existed"}] \cup
                [kind: {"stored"}, shard: Shards, data: Data]
      BY <3>1, <3>2 DEF CheckedStore
    <3> HIDE DEF s, d
    <3>4. /\ disk' \in Disk /\ Orders(older', disk')
          /\ CapacityBound'
      BY <1>1, <2>2, <3>1, <3>3, CheckedStoreKeeps
    <3> QED
      BY <1>0, <2>2, <3>3, <3>4
      DEF CapacityInv, TypeOK, PollsOnlyInHttpMode
  <2> QED
    BY <2>3, <2>4
<1>9. ASSUME NEW r \in Requests, DirectStoreAbort(r)
      PROVE  CapacityInv'
  BY <1>0, <1>9, SameDisk
  DEF DirectStoreAbort, CapacityInv, TypeOK, PollsOnlyInHttpMode
<1>10. ASSUME NEW r \in Requests, NEW s \in Shards, NEW d \in Data,
              DirectStoreBegin(r, s, d)
       PROVE  CapacityInv'
  <2>1. SameSize(disk, s, d) \in BOOLEAN
    BY DEF SameSize
  <2> QED
    BY <1>0, <1>10, <2>1, SameDisk
    DEF DirectStoreBegin, CapacityInv, TypeOK, PollsOnlyInHttpMode
<1>11. ASSUME NEW s \in Shards, NEW d \in Data, NEW n \in 0 .. MaxShard,
              n < Size[d], CrashInStore(s, d, n)
       PROVE  CapacityInv'
  <2>1. n <= Size[d] /\ httpMode' = httpMode
    BY <1>11, SizeAssumption DEF CrashInStore
  <2>2. \/ AcceptedStore(s, d, n)
        \/ httpMode /\ store_shard(disk, older, s, d, n)
    BY <1>0, <1>11 DEF CrashInStore, PollsOnlyInHttpMode
  <2>3. /\ disk' \in Disk /\ Orders(older', disk')
        /\ CapacityBound'
    BY <2>1, <2>2, CheckedStoreKeeps, UncheckedStoreKeeps
  <2> QED
    BY <1>0, <1>11, <2>3
    DEF CrashInStore, CapacityInv, TypeOK, PollsOnlyInHttpMode
<1>12. CASE Poll \/ ConfirmShard \/ ConfirmFails
  <2>1. disk' = disk /\ httpMode' = httpMode /\ CapacityBound'
    BY <1>12, SameDisk DEF Poll, ConfirmShard, ConfirmFails
  <2> QED
    BY <1>0, <1>12, <2>1
    DEF Poll, ConfirmShard, ConfirmFails, CapacityInv, TypeOK, PollsOnlyInHttpMode
<1>13. CASE UNCHANGED vars
  BY <1>0, <1>13, SameDisk DEF vars, CapacityInv, TypeOK, PollsOnlyInHttpMode
<1> QED
  BY <1>2, <1>3, <1>4, <1>5, <1>6, <1>7, <1>8, <1>9, <1>10, <1>11, <1>12, <1>13
  DEF Next, DirectFetch, TcpFetch, AuditChallenge, PushShard

(* A node starts on an empty directory. *)
LEMMA CapacityInit == Init => CapacityInv
<1> SUFFICES ASSUME Init PROVE CapacityInv
  OBVIOUS
<1>1. disk \in Disk /\ disk = Without(disk, Present(disk))
  BY DEF Init, Disk, Without, Present
<1>2. used_bytes(disk) = 0
  BY <1>1, EmptyDiskUsesNothing
<1>3. CapacityBound
  BY <1>2, SizeAssumption, DonatedAssumption DEF CapacityBound
<1>4. Orders(older, disk)
  BY DEF Init, Orders, Present
<1> QED
  BY <1>1, <1>3, <1>4
  DEF Init, CapacityInv, TypeOK, PollsOnlyInHttpMode, Idle, Silent, Answer

(* Every reachable state of the node has the types of TypeOK. *)
THEOREM TypeCorrect == Spec => []TypeOK
<1>1. CapacityInv => TypeOK
  BY DEF CapacityInv
<1> QED
  BY <1>1, CapacityInit, CapacityStep, PTL DEF Spec

(* A node never holds more than it donated while it listens on TCP, and    *)
(* never a full shard more than it donated while it polls a server: for    *)
(* any shards, payload sizes, donation, connections and crashes in the     *)
(* middle of a write.                                                      *)
THEOREM NodeStaysWithinDonation == Spec => []CapacityBound
<1>1. CapacityInv => CapacityBound
  BY DEF CapacityInv
<1> QED
  BY <1>1, CapacityInit, CapacityStep, PTL DEF Spec

----------------------------------------------------------------------------
(* What an acknowledgement says. *)

(* A store leaves a file of the payload's length under the shard's name,   *)
(* written or already there.                                               *)
LEMMA StoreIsWhole ==
    ASSUME NEW dk \in Disk, NEW order, NEW s \in Shards, NEW d \in Data,
           store_shard(dk, order, s, d, Size[d])
    PROVE  disk'[s] # None /\ disk'[s].len = Size[d]
<1>1. CASE SameSize(dk, s, d) /\ disk' = dk
  BY <1>1 DEF SameSize
<1>2. ASSUME NEW E,
             disk' = [Without(dk, E) EXCEPT ![s] = [data |-> d, len |-> Size[d]]]
      PROVE  disk'[s] # None /\ disk'[s].len = Size[d]
  <2>1. disk'[s] = [data |-> d, len |-> Size[d]]
    BY <1>2 DEF Without
  <2>2. [data |-> d, len |-> Size[d]] \in File
    BY SizeAssumption DEF File
  <2> QED
    BY <2>1, <2>2, ShardsAssumption
<1> QED
  BY <1>1, <1>2 DEF store_shard

(* So does a store behind the capacity check, if it is not refused. *)
LEMMA CheckedStoreIsWhole ==
    ASSUME TypeOK, NEW s \in Shards, NEW d \in Data, CheckedStore(s, d)
    PROVE  AckedIsWhole'
<1>1. CASE reply' = Answer("full")
  BY <1>1 DEF Answer, AckedIsWhole
<1>2. CASE AcceptedStore(s, d, Size[d]) /\ reply' = Stored(s, d)
  <2>1. PICK E : store_shard(Without(disk, E), Forget(older, E), s, d, Size[d])
    BY <1>2 DEF AcceptedStore
  <2>2. Without(disk, E) \in Disk
    BY DEF TypeOK, Disk, Without
  <2>3. disk'[s] # None /\ disk'[s].len = Size[d]
    BY <2>1, <2>2, StoreIsWhole
  <2> QED
    BY <1>2, <2>3 DEF Stored, AckedIsWhole
<1> QED
  BY <1>1, <1>2 DEF CheckedStore

(* Every step that sends an acknowledgement has just stored the shard. *)
LEMMA AckedStep ==
    TypeOK /\ AckedIsWhole /\ [Next]_vars => AckedIsWhole'
<1> SUFFICES ASSUME TypeOK, AckedIsWhole, [Next]_vars
             PROVE  AckedIsWhole'
  OBVIOUS
<1>1. ASSUME reply' = Silent
      PROVE  AckedIsWhole'
  BY <1>1 DEF Silent, Answer, AckedIsWhole
<1>2. ASSUME NEW s \in Shards, NEW d \in Data, TcpStore(s, d)
      PROVE  AckedIsWhole'
  BY <1>2, CheckedStoreIsWhole DEF TcpStore
<1>3. ASSUME NEW r \in Requests, DirectStoreEnd(r)
      PROVE  AckedIsWhole'
  <2>1. direct[r].shard \in Shards /\ direct[r].data \in Data
    BY <1>3 DEF DirectStoreEnd, TypeOK
  <2>2. CASE reply' = Answer("existed")
    BY <2>2 DEF Answer, AckedIsWhole
  <2>3. CASE CheckedStore(direct[r].shard, direct[r].data)
    BY <2>1, <2>3, CheckedStoreIsWhole
  <2> QED
    BY <1>3, <2>2, <2>3 DEF DirectStoreEnd
<1>4. ASSUME NEW s \in Shards, PullShard(s)
      PROVE  AckedIsWhole'
  <2>1. staged[s] \in Data /\ disk \in Disk
    BY <1>4 DEF PullShard, TypeOK
  <2>2. disk'[s] # None /\ disk'[s].len = Size[staged[s]]
    BY <1>4, <2>1, StoreIsWhole DEF PullShard
  <2> QED
    BY <1>4, <2>2 DEF PullShard, Stored, AckedIsWhole
<1>5. ASSUME NEW s \in Shards,
             \/ DirectFetch(s) \/ TcpFetch(s) \/ AuditChallenge(s) \/ PushShard(s)
             \/ TcpDelete(s) \/ PullFails(s)
      PROVE  AckedIsWhole'
  BY <1>1, <1>5
  DEF DirectFetch, TcpFetch, AuditChallenge, PushShard, FetchShard, TcpDelete, PullFails
<1>6. ASSUME NEW s \in Shards, NEW d \in Data, StageShard(s, d)
      PROVE  AckedIsWhole'
  BY <1>1, <1>6 DEF StageShard
<1>7. ASSUME NEW r \in Requests, NEW s \in Shards, NEW d \in Data,
             DirectStoreBegin(r, s, d)
      PROVE  AckedIsWhole'
  BY <1>1, <1>7 DEF DirectStoreBegin
<1>8. ASSUME NEW s \in Shards, NEW d \in Data, NEW n, CrashInStore(s, d, n)
      PROVE  AckedIsWhole'
  BY <1>1, <1>8 DEF CrashInStore
<1>9. CASE Poll \/ ConfirmShard \/ ConfirmFails
  BY <1>1, <1>9 DEF Poll, ConfirmShard, ConfirmFails
<1>10. CASE UNCHANGED vars
  BY <1>10 DEF vars, AckedIsWhole
<1>11. ASSUME NEW r \in Requests, DirectStoreAbort(r)
       PROVE  AckedIsWhole'
  BY <1>1, <1>11 DEF DirectStoreAbort
<1> QED
  BY <1>2, <1>3, <1>4, <1>5, <1>6, <1>7, <1>8, <1>9, <1>10, <1>11 DEF Next

(* No truncated file is ever acknowledged: whatever the crashes, the       *)
(* shards and the payloads, the file of an acknowledged shard is whole.    *)
THEOREM AcknowledgedIsWhole == Spec => []AckedIsWhole
<1>1. Init => AckedIsWhole
  BY DEF Init, Silent, Answer, AckedIsWhole
<1> QED
  BY <1>1, AckedStep, TypeCorrect, PTL DEF Spec
=============================================================================
