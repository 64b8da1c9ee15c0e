----------------------------- MODULE MCSharing -----------------------------
(* A folder with one file, shared with one user by two tasks. *)
EXTENDS Sharing

CONSTANTS u1, f1, p1, p2
=============================================================================
