--------------------------- MODULE WorkOrderStatus ---------------------------
(***************************************************************************)
(* The statuses of a work order and the rules the code keeps about them:   *)
(* the constants of internal/domain/work_order.go and the transition table *)
(* of internal/service/work_order_status_service.go.  Nothing here changes *)
(* state; every other module of the project extends this one.              *)
(***************************************************************************)
EXTENDS Naturals

Received        == "RECEBIDA"
InDiagnosis     == "EM_DIAGNOSTICO"
WaitingApproval == "AGUARDANDO_APROVACAO"
Approved        == "APROVADO"
InProgress      == "EM_EXECUCAO"
Finished        == "FINALIZADA"
Delivered       == "ENTREGUE"
Canceled        == "CANCELADA"

WorkOrderStatuses ==
  {Received, InDiagnosis, WaitingApproval, Approved,
   InProgress, Finished, Delivered, Canceled}

(***************************************************************************)
(* The statuses a work order may move to, by the status it is in.          *)
(***************************************************************************)
AllowedTransitions ==
  [s \in WorkOrderStatuses |->
     CASE s = Received        -> {InDiagnosis, Canceled}
       [] s = InDiagnosis     -> {WaitingApproval, Canceled}
       [] s = WaitingApproval -> {Approved, Canceled}
       [] s = Approved        -> {InProgress}
       [] s = InProgress      -> {Finished}
       [] s = Finished        -> {Delivered}
       [] OTHER               -> {}]

IsValidTransition(from, to) == to \in AllowedTransitions[from]

(***************************************************************************)
(* The timestamp columns TransitionStatus may set.                         *)
(***************************************************************************)
Stamps == {"approved_at", "started_at", "finished_at", "delivered_at"}

\* Defect for the mutants: a column the table work_orders does not have.
StampOfCanceled(to) == IF to = Canceled THEN {"canceled_at"} ELSE {}

\* The column TransitionStatus sets on entering a status, if there is one.
StampOf(to) ==
  CASE to = Approved   -> {"approved_at"}
    [] to = InProgress -> {"started_at"}
    [] to = Finished   -> {"finished_at"}
    [] to = Delivered  -> {"delivered_at"}
    [] OTHER           -> {}

\* The columns an order that followed the table has set when it is in s.
StampsAt(s) ==
  CASE s = Approved   -> {"approved_at"}
    [] s = InProgress -> {"approved_at", "started_at"}
    [] s = Finished   -> {"approved_at", "started_at", "finished_at"}
    [] s = Delivered  -> Stamps
    [] OTHER          -> {}

(***************************************************************************)
(* The position of a status on the way from reception to delivery: the     *)
(* table only ever moves to a higher rank, so no status is entered twice.  *)
(***************************************************************************)
Rank(s) ==
  CASE s = Received        -> 0
    [] s = InDiagnosis     -> 1
    [] s = WaitingApproval -> 2
    [] s = Approved        -> 3
    [] s = InProgress      -> 4
    [] s = Finished        -> 5
    [] s = Delivered       -> 6
    [] OTHER               -> 7

(***************************************************************************)
(* canChangeWorkOrderItems: the statuses in which services and supplies of *)
(* an order may be added or removed.                                       *)
(***************************************************************************)
CanChangeItems(s) == s \in {Received, InDiagnosis, WaitingApproval}
=============================================================================
