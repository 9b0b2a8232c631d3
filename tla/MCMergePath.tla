------------------------------ MODULE MCMergePath ------------------------------
(* Two cards of one run, whose runners are dispatched up to three times. *)
EXTENDS MergePath, TLC

Sym == Permutations(Cards)
=============================================================================
