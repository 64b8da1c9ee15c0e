--------------------------- MODULE MCStorageNode ---------------------------
(* A node of 4 bytes, three shard names and payloads of 1 and 3 bytes:     *)
(* large enough for an eviction of several small shards to make room for a *)
(* big one, and for a big one to be pulled into a node that is full.       *)
EXTENDS StorageNode, TLC

CONSTANTS small, big

MCSize == small :> 1 @@ big :> 3
ShardSymmetry == Permutations(Shards)
=============================================================================
