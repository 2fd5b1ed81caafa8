---------------------------- MODULE MCEscalation ----------------------------
(***************************************************************************)
(* Small instances of EscalationProver for TLC.                            *)
(***************************************************************************)
EXTENDS EscalationProver, TLC

CONSTANTS k1, k2, r1, r2

(* With one rewrite per key: the one of k1 is right, the one of k2 wrong.  *)
OneRewrite == {r1}
OneSound == {<<k1, r1>>}

(* With two: both keys have a right rewrite and a wrong one.               *)
TwoRewrite == {r1, r2}
TwoSound == {<<k1, r1>>, <<k2, r2>>}

ClientSymmetry == Permutations(Clients)

=============================================================================
