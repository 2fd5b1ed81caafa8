------------------------------- MODULE MCRule -------------------------------
(***************************************************************************)
(* Small instances of MbaSolveRule for TLC.                                *)
(***************************************************************************)
EXTENDS MbaSolveRule

CONSTANTS k1, k2, r1, r2

(* The rewrite is right for k1 and wrong for k2.                           *)
OneSound == {<<k1, r1>>}

(* Each key has a right rewrite and a wrong one.                           *)
TwoSound == {<<k1, r1>>, <<k2, r2>>}

=============================================================================
