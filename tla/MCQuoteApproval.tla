--------------------------- MODULE MCQuoteApproval ---------------------------
(***************************************************************************)
(* Instances of QuoteApproval for TLC.                                     *)
(***************************************************************************)
EXTENDS QuoteApproval, TLC

RequestSymmetry == Permutations(Calls)
=============================================================================
