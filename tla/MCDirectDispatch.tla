------------------------- MODULE MCDirectDispatch -------------------------
(* Instances of DirectDispatch for TLC: one task, w1 and w2 can execute   *)
(* it, and w3, where there is one, cannot.                                *)
EXTENDS DirectDispatch

CONSTANTS w1, w2, t1

MCMatches == {w1, w2} \X {t1}

=============================================================================
