----------------------------- MODULE MCWatcher -----------------------------
(* Two paths and three texts: the first two are a chunk each, of different *)
(* lengths; the third begins like the first and is longer.                 *)
EXTENDS Watcher, TLC

CONSTANTS p1, p2, a, b, c, head, tail

MCText == a :> <<head>> @@ b :> <<tail>> @@ c :> <<head, tail>>
MCSize == head :> 1 @@ tail :> 2
=============================================================================
