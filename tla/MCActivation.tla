---------------------------- MODULE MCActivation ----------------------------
(***************************************************************************)
(* A small instance of Activation for TLC.                                 *)
(***************************************************************************)
EXTENDS Activation

=============================================================================
