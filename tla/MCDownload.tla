----------------------------- MODULE MCDownload -----------------------------
(* Two clients and two shards, either of which is enough; one of the nodes *)
(* has no URL for direct transfer.                                         *)
EXTENDS Download

CONSTANTS c1, c2
=============================================================================
