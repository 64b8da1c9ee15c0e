------------------------------ MODULE MCRepair ------------------------------
(* One file of k = 1, m = 2 on four nodes, the third of which has no room: *)
(* a crash may leave two shards dead, and the first node the repair turns  *)
(* to may be one that takes the shard or the one that never does.          *)
EXTENDS Repair

CONSTANT f1
=============================================================================
