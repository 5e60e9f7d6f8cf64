-------------------------- MODULE MCStatusTransition --------------------------
(***************************************************************************)
(* Instances of StatusTransition for TLC: a handful of interchangeable     *)
(* calls, each of which may ask for any status.                            *)
(***************************************************************************)
EXTENDS StatusTransition, TLC

CallSymmetry == Permutations(Calls)
=============================================================================
