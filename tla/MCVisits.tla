------------------------------ MODULE MCVisits ------------------------------
(***************************************************************************)
(* A small instance of RuleVisits for TLC: r1 is right and r2 wrong.       *)
(***************************************************************************)
EXTENDS RuleVisits, TLC

CONSTANTS k1, r1, r2

OneSound == {<<k1, r1>>}

SessionSymmetry == Permutations(Sessions)

=============================================================================
