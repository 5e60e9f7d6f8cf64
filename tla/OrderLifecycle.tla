---------------------------- MODULE OrderLifecycle ----------------------------
(***************************************************************************)
(* What the status service promises of one work order, with the calls, the *)
(* database and the e-mail provider left out: the status moves along the   *)
(* transition table one edge at a time, and every move is announced to the *)
(* customer at most once.  "At most": the e-mail is best effort.           *)
(***************************************************************************)
EXTENDS WorkOrderStatus

CONSTANT InitialStatuses

VARIABLES
  status,  \* the status of the order
  owed,    \* statuses entered whose announcement is still being made
  told     \* statuses the customer was told the order entered

vars == <<status, owed, told>>

Init ==
  /\ status \in InitialStatuses
  /\ owed = {}
  /\ told = {}

(***************************************************************************)
(* The order enters "to"; the announcement is owed, or already lost when   *)
(* the process that made the move failed with it.                          *)
(***************************************************************************)
Move(to) ==
  /\ to \in AllowedTransitions[status]
  /\ status' = to
  /\ owed' \in {owed, owed \union {to}}
  /\ UNCHANGED told

Tell(to) ==
  /\ to \in owed
  /\ owed' = owed \ {to}
  /\ told' = told \union {to}
  /\ UNCHANGED status

Drop(to) ==
  /\ to \in owed
  /\ owed' = owed \ {to}
  /\ UNCHANGED <<status, told>>

Settle(to) == Tell(to) \/ Drop(to)

Next == \E to \in WorkOrderStatuses : Move(to) \/ Settle(to)

Spec == Init /\ [][Next]_vars

\* With no crash every announcement is settled: sent, or refused and logged.
FairSpec == Spec /\ \A to \in WorkOrderStatuses : WF_vars(Settle(to))

TypeOK ==
  /\ status \in WorkOrderStatuses
  /\ owed \subseteq WorkOrderStatuses
  /\ told \subseteq WorkOrderStatuses

(***************************************************************************)
(* No status is announced twice: what was told is never owed again.  It    *)
(* rests on the table having no cycle.                                     *)
(***************************************************************************)
ToldOnce == owed \intersect told = {}

=============================================================================
