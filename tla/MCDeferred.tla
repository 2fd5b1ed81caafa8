----------------------------- MODULE MCDeferred -----------------------------
(***************************************************************************)
(* A small instance of DeferredSolver for TLC.                             *)
(***************************************************************************)
EXTENDS DeferredSolver

CONSTANTS k1, k2, r1, r2

(* Both rewrites may be found for both keys; each is right for one.        *)
TwoSound == {<<k1, r1>>, <<k2, r2>>}

=============================================================================
