-------------------------- MODULE MCServiceExecution --------------------------
(***************************************************************************)
(* Instances of ServiceExecution for TLC: two approved services that share *)
(* a supply, and one the customer rejected.                                *)
(***************************************************************************)
EXTENDS ServiceExecution, TLC

CONSTANTS brake, oil, wash, pad, fluid

TwoServices == {brake, oil}
ThreeServices == {brake, oil, wash}
TwoSupplies == {pad, fluid}

\* The brake service needs both supplies, the oil change one of them.
SharedNeeds ==
  [s \in ThreeServices |->
     [p \in TwoSupplies |->
        CASE s = brake -> 1
          [] s = oil   -> IF p = fluid THEN 2 ELSE 0
          [] OTHER     -> 1]]

\* Enough for each service alone, not for all of them.
TightStock == [p \in TwoSupplies |-> 2]

RequestSymmetry == Permutations(Calls)
=============================================================================
