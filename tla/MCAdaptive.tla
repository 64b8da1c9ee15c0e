----------------------------- MODULE MCAdaptive -----------------------------
(* Texts of two chunks and of one; a second k and m with an index more per *)
(* chunk.  The two texts have shards of different lengths.                 *)
EXTENDS Adaptive

CONSTANTS x, y

MCContents == {<<x, x>>, <<x, y>>, <<y>>}
MCOwn == [k |-> 1, m |-> 1]
MCSchemes == {MCOwn, [k |-> 1, m |-> 2]}
MCLength == [e \in Texts \X Schemes |-> IF e[1] = x THEN 1 ELSE 2]
=============================================================================
