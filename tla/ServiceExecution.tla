--------------------------- MODULE ServiceExecution ---------------------------
(***************************************************************************)
(* One work order from the customer's approval to delivery: StartService   *)
(* and FinalizeService of WorkOrderCreationService for its services, the   *)
(* stock their supplies are taken from, the automatic move to FINALIZADA,  *)
(* the PUT of the workshop's staff, and the public status that a customer  *)
(* looks up meanwhile.  One action per statement, as no handler runs in a  *)
(* transaction.                                                            *)
(*                                                                         *)
(* The services and what each needs of each supply are fixed: adding,      *)
(* removing and deciding services belongs to QuoteApproval.  No budget is  *)
(* sent in this phase, so the quote columns are carried and never changed. *)
(***************************************************************************)
EXTENDS OrderUpdate, Integers, FiniteSets, Functions

CONSTANTS
  Services,          \* rows of work_order_services of the order
  ApprovedServices,  \* those the customer approved; the rest are rejected
  StartedServices,   \* approved services being worked on when requests begin
  Supplies,
  Needs,             \* Needs[s][p]: supply_quantity of supply p for service s
  InitialStock,      \* stock_quantity of each supply when requests begin
  Operations,        \* the handlers the requests may call
  Resubmits          \* TRUE: two requests may ask for the same thing

ASSUME ExecutionAssumption ==
  /\ ApprovedServices \subseteq Services
  /\ StartedServices \subseteq ApprovedServices
  /\ Needs \in [Services -> [Supplies -> Nat]]
  /\ InitialStock \in [Supplies -> Nat]
  /\ Operations \subseteq {"put", "start", "finalize", "track"}
  /\ Resubmits \in BOOLEAN
  /\ IsFiniteSet(Services)

VARIABLES
  exec,     \* status of each service
  stock,    \* stock_quantity of each supply; an integer column, no CHECK
  local,    \* per request: the service it is about and its status as read,
            \* or the services that a public status shows as finished
  deducted  \* history: how often the supplies of a service were taken

execVars == <<exec, stock, local, deducted>>
vars == <<orderVars, execVars>>

Pending == "PENDENTE"
Running == "EM_EXECUCAO"
Done    == "FINALIZADO"

Init ==
  /\ OrderInit
  /\ exec = [s \in Services |->
               IF s \in StartedServices THEN Running ELSE Pending]
  /\ stock = InitialStock
  /\ local = [r \in Calls |-> [service |-> {}, found |-> Pending]]
  /\ deducted = [s \in Services |-> 0]

Allow(op, s) ==
  /\ op \in Operations
  /\ Resubmits \/ \A r \in Calls : req[r].op = op => local[r].service # {s}

\* The service a request is about.
Service(r) == CHOOSE s \in Services : s \in local[r].service

-----------------------------------------------------------------------------
(***************************************************************************)
(* StartService.                                                           *)
(***************************************************************************)
BeginStart(r, s) ==
  /\ Allow("start", s)
  /\ Begin(r, "start", "findService")
  /\ local' = [local EXCEPT ![r].service = {s}]
  /\ UNCHANGED <<transitionVars, exec, stock, deducted>>

BeginFinalize(r, s) ==
  /\ Allow("finalize", s)
  /\ Begin(r, "finalize", "findService")
  /\ local' = [local EXCEPT ![r].service = {s}]
  /\ UNCHANGED <<transitionVars, exec, stock, deducted>>

FindService(r) ==
  /\ req[r].pc = "findService"
  /\ local' = [local EXCEPT ![r].found = exec[Service(r)]]
  /\ GoTo(r, "checkOrder")
  /\ UNCHANGED <<transitionVars, exec, stock, deducted>>

StartCheck(r) ==
  /\ req[r].op = "start" /\ req[r].pc = "checkOrder"
  /\ GoTo(r, IF /\ row.status = InProgress
                /\ Service(r) \in ApprovedServices
                /\ local[r].found = Pending
             THEN "checkStock" ELSE "done")
  /\ UNCHANGED <<transitionVars, execVars>>

HasShortage(s) == \E p \in Supplies : Needs[s][p] > stock[p]

StartStock(r) ==
  /\ req[r].pc = "checkStock"
  /\ GoTo(r, IF HasShortage(Service(r)) THEN "done" ELSE "markStarted")
  /\ UNCHANGED <<transitionVars, execVars>>

\* Defect for the mutants: the service is marked whatever state it is in.
MarkStartedBlind(r) ==
  /\ req[r].pc = "markStarted"
  /\ exec' = [exec EXCEPT ![Service(r)] = Running]
  /\ GoTo(r, "done")
  /\ UNCHANGED <<transitionVars, stock, local, deducted>>

\* No row matching is no error.
MarkStarted(r) ==
  /\ req[r].pc = "markStarted"
  /\ exec' = [exec EXCEPT ![Service(r)] = IF @ = Pending THEN Running ELSE @]
  /\ GoTo(r, "done")
  /\ UNCHANGED <<transitionVars, stock, local, deducted>>

-----------------------------------------------------------------------------
(***************************************************************************)
(* FinalizeService.                                                        *)
(***************************************************************************)
FinalizeCheck(r) ==
  /\ req[r].op = "finalize" /\ req[r].pc = "checkOrder"
  /\ GoTo(r, IF row.status = InProgress /\ local[r].found = Running
             THEN "markFinished" ELSE "done")
  /\ UNCHANGED <<transitionVars, execVars>>

\* No row matching is no error here either, and the handler goes on.
MarkFinished(r) ==
  /\ req[r].pc = "markFinished"
  /\ exec' = [exec EXCEPT ![Service(r)] = IF @ = Running THEN Done ELSE @]
  /\ GoTo(r, "deduct")
  /\ UNCHANGED <<transitionVars, stock, local, deducted>>

\* Defect for the mutants: the column is written, clipped at zero.
DeductClipped(r) ==
  /\ req[r].pc = "deduct"
  /\ stock' = [p \in Supplies |->
                 IF stock[p] > Needs[Service(r)][p]
                 THEN stock[p] - Needs[Service(r)][p] ELSE 0]
  /\ deducted' = [deducted EXCEPT ![Service(r)] = @ + 1]
  /\ GoTo(r, "checkServices")
  /\ UNCHANGED <<transitionVars, exec, local>>

\* Defect for the mutants: a stock too low is left alone, without an error.
DeductGuarded(r) ==
  /\ req[r].pc = "deduct"
  /\ IF HasShortage(Service(r))
     THEN UNCHANGED <<stock, deducted>>
     ELSE /\ stock' = [p \in Supplies |-> stock[p] - Needs[Service(r)][p]]
          /\ deducted' = [deducted EXCEPT ![Service(r)] = @ + 1]
  /\ GoTo(r, "checkServices")
  /\ UNCHANGED <<transitionVars, exec, local>>

\* DecrementStockForService: one UPDATE of all the supplies of the service.
Deduct(r) ==
  /\ req[r].pc = "deduct"
  /\ stock' = [p \in Supplies |-> stock[p] - Needs[Service(r)][p]]
  /\ deducted' = [deducted EXCEPT ![Service(r)] = @ + 1]
  /\ GoTo(r, "checkServices")
  /\ UNCHANGED <<transitionVars, exec, local>>

\* FindByWorkOrderID, which takes a read that broke off for a complete one.
ServicesRead == IF Faults THEN SUBSET Services ELSE {Services}

\* Defect for the mutants: rejected services must be finished too.
AllFinishedEvery(read) == \A s \in read : exec[s] = Done

AllFinished(read) ==
  \A s \in read : s \in ApprovedServices => exec[s] = Done

ServicesLeft(r) ==
  /\ req[r].pc = "checkServices"
  /\ \E read \in ServicesRead : ~ AllFinished(read)
  /\ GoTo(r, "done")
  /\ UNCHANGED <<transitionVars, execVars>>

NoServiceLeft(r) ==
  /\ req[r].pc = "checkServices"
  /\ \E read \in ServicesRead : AllFinished(read)
  /\ Invoke(r, Finished)
  /\ GoTo(r, "transition")
  /\ UNCHANGED execVars

\* The transition was the last thing FinalizeService does.
FinalizeReturns(r) ==
  /\ req[r].op = "finalize"
  /\ TransitionReturned(r)
  /\ GoTo(r, "done")
  /\ UNCHANGED <<transitionVars, execVars>>

-----------------------------------------------------------------------------
(***************************************************************************)
(* GetPublicStatus: the order by its code, its customer, whose document    *)
(* must be the one given, then the services, each by its own statement.    *)
(* Services are only decided and removed before this phase.                *)
(***************************************************************************)
BeginTrack(r) ==
  /\ "track" \in Operations
  /\ Resubmits \/ \A q \in Calls : req[q].op # "track"
  /\ Begin(r, "track", "findByCode")
  /\ UNCHANGED <<transitionVars, execVars>>

FindByCode(r, then) ==
  /\ req' = [req EXCEPT ![r].pc = then, ![r].wo = row]
  /\ UNCHANGED <<transitionVars, execVars>>

\* Another document than the customer's is answered like an unknown code.
CheckDocument(r) ==
  /\ req[r].pc = "checkDocument"
  /\ \E then \in {"listServices", "done"} : GoTo(r, then)
  /\ UNCHANGED <<transitionVars, execVars>>

ListServices(r, then) ==
  /\ \E read \in ServicesRead :
       local' = [local EXCEPT ![r].service = {s \in read : exec[s] = Done}]
  /\ GoTo(r, then)
  /\ UNCHANGED <<transitionVars, exec, stock, deducted>>

\* Defect for the mutants: the services are read before the order.
TrackServicesFirst(r) ==
  \/ req[r].pc = "findByCode" /\ ListServices(r, "checkDocument")
  \/ req[r].pc = "listServices" /\ FindByCode(r, "shown")

TrackReads(r) ==
  \/ req[r].pc = "findByCode" /\ FindByCode(r, "checkDocument")
  \/ req[r].pc = "listServices" /\ ListServices(r, "shown")

-----------------------------------------------------------------------------
Abandon(r) ==
  /\ Faults
  /\ req[r].pc # "idle"
  /\ ~ Answered(r)
  /\ GoTo(r, "done")
  /\ call' = [call EXCEPT ![r] = IF @.pc \in {"idle", "done"} THEN @
               ELSE [@ EXCEPT !.pc = "done", !.result = "error"]]
  /\ UNCHANGED <<row, past, mailed, execVars>>

StatusReplyLost(r) == CasReplyLost(r) /\ UNCHANGED <<req, execVars>>

BeginRequest(r) ==
  \/ /\ "put" \in Operations
     /\ BeginPutFields(r) \/ \E to \in WorkOrderStatuses : BeginPut(r, to)
     /\ UNCHANGED execVars
  \/ \E s \in Services : BeginStart(r, s) \/ BeginFinalize(r, s)
  \/ BeginTrack(r)

RequestStep(r) ==
  \/ TransitionStep(r) /\ UNCHANGED <<req, execVars>>
  \/ PutStep(r) /\ UNCHANGED execVars
  \/ FindService(r)
  \/ StartCheck(r) \/ StartStock(r) \/ MarkStarted(r)
  \/ FinalizeCheck(r) \/ MarkFinished(r) \/ Deduct(r)
  \/ ServicesLeft(r) \/ NoServiceLeft(r) \/ FinalizeReturns(r)
  \/ TrackReads(r) \/ CheckDocument(r)

Next == \E r \in Calls :
  BeginRequest(r) \/ RequestStep(r) \/ Abandon(r) \/ StatusReplyLost(r)

Spec == Init /\ [][Next]_vars

\* A goroutine that serves a request runs on, unless a fault ends it.
FairSpec == Spec /\ \A r \in Calls : WF_vars(RequestStep(r))

-----------------------------------------------------------------------------
TypeOK ==
  /\ TransitionTypeOK
  /\ req \in [Calls -> [op : Operations \union {"none"},
                       pc : {"idle", "transition", "editRead", "editWrite",
                             "findService", "checkOrder", "checkStock",
                             "markStarted", "markFinished", "deduct",
                             "checkServices", "findByCode", "checkDocument",
                             "listServices", "shown", "done"},
                       wo : Rows]]
  /\ exec \in [Services -> {Pending, Running, Done}]
  /\ stock \in [Supplies -> Int]
  /\ local \in [Calls -> [service : SUBSET Services,
                         found : {Pending, Running, Done}]]
  /\ deducted \in [Services -> Nat]

(***************************************************************************)
(* Every unit that left the stock left it for a service of the order that  *)
(* was taken the stated number of times: concurrent finalizations lose no  *)
(* decrement and a refused or failed request takes nothing.                *)
(***************************************************************************)
StockAccounts ==
  \A p \in Supplies :
    stock[p] = InitialStock[p]
                 - SumFunction([s \in Services |-> deducted[s] * Needs[s][p]])

(***************************************************************************)
(* Supplies are only taken for a service that the customer approved and    *)
(* that is finished, whatever requests race and wherever one fails.        *)
(***************************************************************************)
DeductedIsFinished ==
  \A s \in Services :
    deducted[s] > 0 => exec[s] = Done /\ s \in ApprovedServices

(***************************************************************************)
(* A finished service has had its supplies taken, or the request that      *)
(* finished it is about to take them.                                      *)
(***************************************************************************)
FinishedIsDeducted ==
  \A s \in Services :
    exec[s] = Done =>
      \/ deducted[s] > 0
      \/ \E r \in Calls : req[r].pc = "deduct" /\ local[r].service = {s}

(***************************************************************************)
(* ... and has had them taken once.                                        *)
(***************************************************************************)
DeductedOnce == \A s \in Services : deducted[s] <= 1

(***************************************************************************)
(* A customer is never shown a finished order together with an approved    *)
(* service that is not: the two reads of the public status, between which  *)
(* the mechanics go on, are in the order that keeps them consistent.       *)
(* (While only FinalizeService finishes orders, that is.)                  *)
(***************************************************************************)
ShownFinishedIsFinished ==
  \A r \in Calls :
    req[r].pc = "shown" /\ req[r].wo.status = Finished =>
      ApprovedServices \subseteq local[r].service

(***************************************************************************)
(* When the last approved service is finished the order follows: of the    *)
(* mechanics who finish the last services at the same moment one sees them *)
(* all finished.                                                           *)
(***************************************************************************)
AllApprovedDone ==
  ApprovedServices # {} /\ \A s \in ApprovedServices : exec[s] = Done

FinishedServicesFinishOrder == AllApprovedDone ~> (row.status # InProgress)

\* The handlers together use the order's row as StatusTransition allows.
UsesTransitionTo == SharedSpec
=============================================================================
