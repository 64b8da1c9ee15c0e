------------------------------- MODULE Mirror -------------------------------
(***************************************************************************)
(* What a watcher that looks at a directory from time to time can promise: *)
(* its mirror of a path is some value that path had since it was last      *)
(* looked at, never one it did not have or one of an earlier look.         *)
(***************************************************************************)
CONSTANTS Paths, Values, None

VARIABLES
    dir,        \* path -> its value, or None
    mirror,     \* path -> the value recorded of it, or None
    seen        \* path -> the values it had since the watcher looked at it

vars == <<dir, mirror, seen>>

Init ==
    /\ dir \in [Paths -> Values \cup {None}]
    /\ mirror = [p \in Paths |-> None]
    /\ seen = [p \in Paths |-> {dir[p]}]

(* Values come and move about; what was seen of a path is only forgotten   *)
(* when the watcher looks again.                                           *)
Change ==
    /\ dir' \in [Paths -> Values \cup {None}]
    /\ \A p \in Paths : seen'[p] \in SUBSET (seen[p] \cup {dir'[p]})
    /\ \A p \in Paths : dir'[p] \in seen'[p]
    /\ UNCHANGED mirror

Look ==
    /\ \A p \in Paths : dir[p] \in seen'[p] /\ seen'[p] \subseteq seen[p]
    /\ UNCHANGED <<dir, mirror>>

Record(p) ==
    /\ \E v \in seen[p] : mirror' = [mirror EXCEPT ![p] = v]
    /\ \A q \in Paths : dir[q] \in seen'[q] /\ seen'[q] \subseteq seen[q]
    /\ UNCHANGED dir

Lose ==
    /\ mirror' = [p \in Paths |-> None]
    /\ \A p \in Paths : dir[p] \in seen'[p] /\ seen'[p] \subseteq seen[p]
    /\ UNCHANGED dir

Next == Change \/ Look \/ Lose \/ \E p \in Paths : Record(p)

Spec == Init /\ [][Next]_vars
=============================================================================
