--------------------------- MODULE MCClientRepair ---------------------------
(* A file of two chunks of two shards, either of which is enough, on three *)
(* nodes.                                                                  *)
EXTENDS ClientRepair

(* DownloadsHold promises nothing of a file stored across a repair, until  *)
(* it is stored again: without an upload left there is nothing more to see.*)
StillPromised == crossed => uploads < MaxUploads
=============================================================================
