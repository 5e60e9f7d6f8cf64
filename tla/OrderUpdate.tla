----------------------------- MODULE OrderUpdate -----------------------------
(***************************************************************************)
(* PUT /work-orders/:id.  The handler asks TransitionTo for the status, if *)
(* the body names one, and then always runs WorkOrderService.Update: read  *)
(* the order, merge the fields, write every column back.  The row read may *)
(* be out of date when it is written.                                      *)
(*                                                                         *)
(* The module holds the requests and the steps of this handler; the        *)
(* modules that compose it with other handlers add theirs.                 *)
(***************************************************************************)
EXTENDS StatusTransition

VARIABLE req  \* the local state of each request

orderVars == <<row, call, past, mailed, req>>

\* op: the handler; pc: its next step; wo: the work order it has read.
IdleRequest == [op |-> "none", pc |-> "idle", wo |-> NoOrder]

OrderInit == TransitionInit /\ req = [r \in Calls |-> IdleRequest]

-----------------------------------------------------------------------------
Begin(r, op, pc) ==
  /\ req[r].pc = "idle"
  /\ req' = [req EXCEPT ![r].op = op, ![r].pc = pc]

GoTo(r, pc) == req' = [req EXCEPT ![r].pc = pc]

\* The handler has called TransitionTo, which returned without an error.
TransitionReturned(r) ==
  /\ req[r].pc = "transition"
  /\ call[r].pc = "done"
  /\ call[r].result = "ok"

\* The request was answered, or its TransitionTo failed and was reported.
Answered(r) ==
  \/ req[r].pc = "done"
  \/ /\ req[r].pc = "transition"
     /\ call[r].pc = "done"
     /\ call[r].result # "ok"

BeginPut(r, to) ==
  /\ Begin(r, "put", "transition")
  /\ Invoke(r, to)

BeginPutFields(r) ==
  /\ Begin(r, "put", "editRead")
  /\ UNCHANGED transitionVars

EditRead(r) ==
  /\ req[r].op = "put"
  /\ req[r].pc = "editRead" \/ TransitionReturned(r)
  /\ req' = [req EXCEPT ![r].pc = "editWrite", ![r].wo = row]
  /\ UNCHANGED transitionVars

(***************************************************************************)
(* Defect for the mutants: the handler writes an order that was never      *)
(* read, its status and timestamps those of a new order.                   *)
(***************************************************************************)
WriteBackBlank(wo) ==
  /\ row' = [wo EXCEPT !.status = Received]
  /\ UNCHANGED <<call, past, mailed>>

\* WorkOrderRepository.Update: every column, WHERE id alone.
WriteBack(wo) ==
  /\ row' = wo
  /\ UNCHANGED <<call, past, mailed>>

EditWrite(r) ==
  /\ req[r].pc = "editWrite"
  /\ WriteBack(req[r].wo)
  /\ GoTo(r, "done")

PutStep(r) == EditRead(r) \/ EditWrite(r)
=============================================================================
