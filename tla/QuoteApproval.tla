---------------------------- MODULE QuoteApproval ----------------------------
(***************************************************************************)
(* One work order from reception to the customer's decision, with every    *)
(* handler that touches it until then: the PUT of the workshop's staff,    *)
(* adding and removing services, the budget e-mail, and the public links   *)
(* by which the customer approves or rejects.  No handler runs in a        *)
(* transaction, so each action is one statement or one e-mail and handlers *)
(* interleave between them.                                                *)
(*                                                                         *)
(* Money is abstracted to what is charged: a total is the set of services  *)
(* summed.  Supplies, catalog checks and the customer record, which these  *)
(* handlers only read, are left out, and so is the purchase alert, which   *)
(* writes nothing.                                                         *)
(***************************************************************************)
EXTENDS OrderUpdate

CONSTANTS
  Services,         \* rows of work_order_services, by id
  InitialServices,  \* those that exist, undecided, when the requests begin
  Operations        \* the handlers the requests may call

\* total_estimated_price_cents and quote_sent_at.
QuoteColumns == [total : SUBSET Services, sent : BOOLEAN]
NoQuote == [total |-> {}, sent |-> FALSE]

ASSUME ApprovalAssumption ==
  /\ InitialServices \subseteq Services
  /\ Operations \subseteq {"put", "approve", "reject", "approveAll",
                           "rejectAll", "add", "remove"}
  /\ Quotes = QuoteColumns
  /\ FirstQuote = NoQuote

VARIABLES
  services,  \* approval_status of each service, "unused" or "deleted"
  local,     \* per request: the service it is about, the total it computed
  budget,    \* per request: the local state of GenerateAndSendBudget
  quotes     \* history: the budget e-mails the provider accepted

vars == <<orderVars, services, local, budget, quotes>>

Pending == "PENDENTE"
Decisions == {"APROVADO", "REPROVADO"}

Present == {s \in Services : services[s] \in Decisions \union {Pending}}
PendingServices == {s \in Services : services[s] = Pending}
ApprovedServices == {s \in Services : services[s] = "APROVADO"}

BudgetOff == [pc |-> "off", list |-> {}, total |-> {}, wo |-> NoOrder]

Init ==
  /\ OrderInit
  /\ services = [s \in Services |->
                   IF s \in InitialServices THEN Pending ELSE "unused"]
  /\ local = [r \in Calls |-> [service |-> {}, total |-> {}]]
  /\ budget = [r \in Calls |-> BudgetOff]
  /\ quotes = {}

-----------------------------------------------------------------------------
(***************************************************************************)
(* GenerateAndSendBudget, called by the notifier when the order enters     *)
(* AGUARDANDO_APROVACAO and by the item handlers to refresh a quote.       *)
(***************************************************************************)
(***************************************************************************)
(* FindByWorkOrderID ends its loop on the first row that cannot be read    *)
(* and never looks at rows.Err(): a broken read yields some of the         *)
(* services, and no error.                                                 *)
(***************************************************************************)
ServicesRead == IF Faults THEN SUBSET Present ELSE {Present}

InNotifier(r) == call[r].target = WaitingApproval /\ call[r].pc = "notify"

BudgetCalled(r) ==
  /\ budget[r].pc = "off"
  /\ InNotifier(r) \/ req[r].pc = "budget"

BudgetServices(r) ==
  /\ BudgetCalled(r)
  /\ \E read \in ServicesRead :
       budget' = [budget EXCEPT ![r].pc = "total", ![r].list = read]
  /\ UNCHANGED <<orderVars, services, local, quotes>>

BudgetTotal(r) ==
  /\ budget[r].pc = "total"
  /\ budget' = [budget EXCEPT ![r].pc = "order", ![r].total = Present]
  /\ UNCHANGED <<orderVars, services, local, quotes>>

BudgetOrder(r) ==
  /\ budget[r].pc = "order"
  /\ budget' = [budget EXCEPT ![r].pc = "send", ![r].wo = row]
  /\ UNCHANGED <<orderVars, services, local, quotes>>

\* SendBudget succeeds: for the notifier, the announcement is made.
BudgetSent(r) ==
  /\ budget[r].pc = "send"
  /\ budget' = [budget EXCEPT ![r].pc = "save"]
  /\ quotes' = quotes \union {[list |-> budget[r].list,
                               total |-> budget[r].total]}
  /\ IF InNotifier(r) THEN NotifySent(r) ELSE UNCHANGED transitionVars
  /\ UNCHANGED <<req, services, local>>

\* Back to the notifier, or to the item handler, which answers.
BudgetReturns(r) ==
  /\ budget' = [budget EXCEPT ![r] = BudgetOff]
  /\ IF req[r].pc = "budget" THEN GoTo(r, "done") ELSE UNCHANGED req

\* Defect for the mutants: a refused e-mail does not end the function.
BudgetRefusedGoesOn(r) ==
  /\ budget[r].pc = "send"
  /\ budget' = [budget EXCEPT ![r].pc = "save"]
  /\ IF InNotifier(r) THEN NotifyRefused(r) ELSE UNCHANGED transitionVars
  /\ UNCHANGED <<req, services, local, quotes>>

\* SendBudget failed: logged, and neither the total nor the date is saved.
BudgetRefused(r) ==
  /\ budget[r].pc = "send"
  /\ BudgetReturns(r)
  /\ IF InNotifier(r) THEN NotifyRefused(r) ELSE UNCHANGED transitionVars
  /\ UNCHANGED <<services, local, quotes>>

BudgetSave(r) ==
  /\ budget[r].pc = "save"
  /\ WriteBack([budget[r].wo EXCEPT !.quote = [total |-> budget[r].total,
                                              sent |-> TRUE]])
  /\ BudgetReturns(r)
  /\ UNCHANGED <<services, local, quotes>>

\* A statement fails: the notifier logs it, the item handler reports it.
BudgetError(r) ==
  /\ Faults
  /\ BudgetCalled(r) \/ budget[r].pc \in {"total", "order", "save"}
  /\ BudgetReturns(r)
  /\ IF InNotifier(r) THEN NotifyRefused(r) ELSE UNCHANGED transitionVars
  /\ UNCHANGED <<services, local, quotes>>

BudgetStep(r) ==
  \/ BudgetServices(r) \/ BudgetTotal(r) \/ BudgetOrder(r)
  \/ BudgetSent(r) \/ BudgetRefused(r) \/ BudgetSave(r)

-----------------------------------------------------------------------------
(***************************************************************************)
(* The steps of TransitionTo; entering AGUARDANDO_APROVACAO is announced   *)
(* by the budget above, every other status by a status e-mail.             *)
(***************************************************************************)
TransitionToStep(r) ==
  /\ \/ Find(r) \/ Cas(r) \/ CasMisses(r) \/ Recheck(r)
     \/ Notify(r) /\ call[r].target # WaitingApproval
     \/ Return(r) /\ budget[r].pc = "off"
  /\ UNCHANGED <<req, services, local, budget, quotes>>

-----------------------------------------------------------------------------
(***************************************************************************)
(* The customer's links: ApproveService, RejectService, ApproveAll and     *)
(* RejectAll, and evaluateWorkOrderCompletion, which ends each of them.    *)
(***************************************************************************)
BeginDecision(r, op, s) ==
  /\ op \in Operations \intersect {"approve", "reject"}
  /\ s \in Present
  /\ Begin(r, op, "findService")
  /\ local' = [local EXCEPT ![r].service = {s}]
  /\ UNCHANGED <<transitionVars, services, budget, quotes>>

BeginDecideAll(r, op) ==
  /\ op \in Operations \intersect {"approveAll", "rejectAll"}
  /\ Begin(r, op, "decideAll")
  /\ UNCHANGED <<transitionVars, services, local, budget, quotes>>

\* The service of the request is already decided (or gone): nothing to do.
FindServiceDecided(r) ==
  /\ req[r].pc = "findService"
  /\ local[r].service \intersect PendingServices = {}
  /\ GoTo(r, "done")
  /\ UNCHANGED <<transitionVars, services, local, budget, quotes>>

FindServicePending(r) ==
  /\ req[r].pc = "findService"
  /\ local[r].service \subseteq PendingServices
  /\ GoTo(r, "decide")
  /\ UNCHANGED <<transitionVars, services, local, budget, quotes>>

\* Defect for the mutants: a rejection writes the order's status.
DecisionOfOrder(op) ==
  IF op \in {"approve", "approveAll"} THEN Approved ELSE Canceled

DecisionOf(op) ==
  IF op \in {"approve", "approveAll"} THEN "APROVADO" ELSE "REPROVADO"

SetDecision(r, S) ==
  services' = [s \in Services |->
                 IF s \in S THEN DecisionOf(req[r].op) ELSE services[s]]

\* Defect for the mutants: completion is judged by the list read before.
DecideEvaluatesFirst(r) ==
  /\ req[r].pc = "decide"
  /\ SetDecision(r, local[r].service \intersect Present)
  /\ GoTo(r, IF PendingServices = {} THEN "evaluate" ELSE "done")
  /\ UNCHANGED <<transitionVars, local, budget, quotes>>

\* UpdateApprovalStatus, by id alone: what was read is not checked again.
Decide(r) ==
  /\ req[r].pc = "decide"
  /\ SetDecision(r, local[r].service \intersect Present)
  /\ GoTo(r, "evaluate")
  /\ UNCHANGED <<transitionVars, local, budget, quotes>>

DecideAll(r) ==
  /\ req[r].pc = "decideAll"
  /\ SetDecision(r, PendingServices)
  /\ GoTo(r, "evaluate")
  /\ UNCHANGED <<transitionVars, local, budget, quotes>>

EvaluatePending(r) ==
  /\ req[r].pc = "evaluate"
  /\ \E read \in ServicesRead : read \intersect PendingServices # {}
  /\ GoTo(r, "done")
  /\ UNCHANGED <<transitionVars, services, local, budget, quotes>>

EvaluateDecided(r) ==
  /\ req[r].pc = "evaluate"
  /\ \E read \in ServicesRead :
       /\ read \intersect PendingServices = {}
       /\ Invoke(r, IF read \intersect ApprovedServices # {}
                    THEN Approved ELSE Canceled)
  /\ GoTo(r, "transition")
  /\ UNCHANGED <<services, local, budget, quotes>>

IsDecision(r) == req[r].op \in {"approve", "reject", "approveAll", "rejectAll"}

\* Defect for the mutants: only the services of this request are summed.
ApprovedTotalOwn(r) ==
  /\ IsDecision(r)
  /\ TransitionReturned(r)
  /\ local' = [local EXCEPT ![r].total = ApprovedServices \intersect
                                           local[r].service]
  /\ req' = [req EXCEPT ![r].pc = "saveTotal", ![r].wo = call[r].order]
  /\ UNCHANGED <<transitionVars, services, budget, quotes>>

ApprovedTotal(r) ==
  /\ IsDecision(r)
  /\ TransitionReturned(r)
  /\ local' = [local EXCEPT ![r].total = ApprovedServices]
  /\ req' = [req EXCEPT ![r].pc = "saveTotal", ![r].wo = call[r].order]
  /\ UNCHANGED <<transitionVars, services, budget, quotes>>

SaveTotal(r) ==
  /\ req[r].pc = "saveTotal"
  /\ WriteBack([req[r].wo EXCEPT !.quote.total = local[r].total])
  /\ GoTo(r, "done")
  /\ UNCHANGED <<services, local, budget, quotes>>

DecisionStep(r) ==
  \/ FindServiceDecided(r) \/ FindServicePending(r)
  \/ Decide(r) \/ DecideAll(r)
  \/ EvaluatePending(r) \/ EvaluateDecided(r)
  \/ ApprovedTotal(r) \/ SaveTotal(r)

-----------------------------------------------------------------------------
(***************************************************************************)
(* AddServices and RemoveService.                                          *)
(***************************************************************************)
\* Every row added has a new id: none that was used or is about to be.
FreshServices ==
  {s \in Services : services[s] = "unused"
                    /\ \A r \in Calls : s \notin local[r].service}

BeginAdd(r) ==
  /\ "add" \in Operations
  /\ Begin(r, "add", "addCheck")
  /\ \E s \in FreshServices :
       local' = [local EXCEPT ![r].service = {s}]
  /\ UNCHANGED <<transitionVars, services, budget, quotes>>

BeginRemove(r, s) ==
  /\ "remove" \in Operations
  /\ s \in Present
  /\ Begin(r, "remove", "removeCheck")
  /\ local' = [local EXCEPT ![r].service = {s}]
  /\ UNCHANGED <<transitionVars, services, budget, quotes>>

\* ensureWorkOrderItemsCanChange, on the order as it is now.
ItemsCheck(r) ==
  /\ req[r].pc \in {"addCheck", "removeCheck"}
  /\ req' = [req EXCEPT
       ![r].pc = CASE ~ CanChangeItems(row.status) -> "done"
                   [] @ = "addCheck"               -> "insert"
                   [] OTHER                        -> "delete",
       ![r].wo = row]
  /\ UNCHANGED <<transitionVars, services, local, budget, quotes>>

\* CreateBatch; an order the check saw in RECEBIDA goes to EM_DIAGNOSTICO.
Insert(r) ==
  /\ req[r].pc = "insert"
  /\ services' = [s \in Services |->
                    IF s \in local[r].service THEN Pending ELSE services[s]]
  /\ IF req[r].wo.status = Received
     THEN Invoke(r, InDiagnosis) /\ GoTo(r, "transition")
     ELSE GoTo(r, "refresh") /\ UNCHANGED transitionVars
  /\ UNCHANGED <<local, budget, quotes>>

\* DeleteByID answers "not found" when another request was first.
Delete(r) ==
  /\ req[r].pc = "delete"
  /\ services' = [s \in Services |->
                    IF s \in local[r].service THEN "deleted" ELSE services[s]]
  /\ GoTo(r, IF local[r].service \subseteq Present THEN "refresh" ELSE "done")
  /\ UNCHANGED <<transitionVars, local, budget, quotes>>

\* refreshBudgetIfWaitingApproval.
Refresh(r) ==
  /\ req[r].pc = "refresh" \/ (req[r].op = "add" /\ TransitionReturned(r))
  /\ GoTo(r, IF row.status = WaitingApproval THEN "budget" ELSE "done")
  /\ UNCHANGED <<transitionVars, services, local, budget, quotes>>

ItemStep(r) == ItemsCheck(r) \/ Insert(r) \/ Delete(r) \/ Refresh(r)

-----------------------------------------------------------------------------
(***************************************************************************)
(* Failures: the request ends with an error at the statement it is at, or  *)
(* with the replica that served it; an UPDATE of the status commits and    *)
(* its reply is lost.                                                      *)
(***************************************************************************)
Abandon(r) ==
  /\ Faults
  /\ req[r].pc # "idle"
  /\ ~ Answered(r)
  /\ GoTo(r, "done")
  /\ call' = [call EXCEPT ![r] = IF @.pc \in {"idle", "done"} THEN @
               ELSE [@ EXCEPT !.pc = "done", !.result = "error"]]
  /\ budget' = [budget EXCEPT ![r] = BudgetOff]
  /\ UNCHANGED <<row, past, mailed, services, local, quotes>>

StatusReplyLost(r) ==
  /\ CasReplyLost(r)
  /\ UNCHANGED <<req, services, local, budget, quotes>>

BeginRequest(r) ==
  \/ /\ "put" \in Operations
     /\ BeginPutFields(r) \/ \E to \in WorkOrderStatuses : BeginPut(r, to)
     /\ UNCHANGED <<services, local, budget, quotes>>
  \/ \E s \in Services : \/ BeginDecision(r, "approve", s)
                         \/ BeginDecision(r, "reject", s)
                         \/ BeginRemove(r, s)
  \/ BeginDecideAll(r, "approveAll")
  \/ BeginDecideAll(r, "rejectAll")
  \/ BeginAdd(r)

RequestStep(r) ==
  \/ TransitionToStep(r)
  \/ BudgetStep(r)
  \/ DecisionStep(r)
  \/ ItemStep(r)
  \/ PutStep(r) /\ UNCHANGED <<services, local, budget, quotes>>

Next == \E r \in Calls :
  \/ BeginRequest(r) \/ RequestStep(r)
  \/ BudgetError(r) \/ Abandon(r) \/ StatusReplyLost(r)

Spec == Init /\ [][Next]_vars

\* A goroutine that serves a request runs on, unless a fault ends it.
FairSpec == Spec /\ \A r \in Calls : WF_vars(RequestStep(r))

-----------------------------------------------------------------------------
TypeOK ==
  /\ TransitionTypeOK
  /\ req \in [Calls -> [op : Operations \union {"none"},
                       pc : {"idle", "transition", "editRead", "editWrite",
                             "findService", "decide", "decideAll", "evaluate",
                             "saveTotal", "addCheck", "removeCheck", "insert",
                             "delete", "refresh", "budget", "done"},
                       wo : Rows]]
  /\ services \in [Services -> Decisions \union {Pending, "unused", "deleted"}]
  /\ local \in [Calls -> [service : SUBSET Services, total : SUBSET Services]]
  /\ budget \in [Calls -> [pc : {"off", "total", "order", "send", "save"},
                          list : SUBSET Services, total : SUBSET Services,
                          wo : Rows]]
  /\ quotes \subseteq [list : SUBSET Services, total : SUBSET Services]

(***************************************************************************)
(* The handlers together use the order's row as StatusTransition allows:   *)
(* every status change is a compare-and-set of TransitionTo or restores    *)
(* status and timestamps the order has had.                                *)
(***************************************************************************)
UsesTransitionTo == SharedSpec

(***************************************************************************)
(* quote_sent_at is on the order only if a budget e-mail was accepted by   *)
(* the provider, whichever requests wrote the row since.                   *)
(***************************************************************************)
QuoteSentMeansMailed == row.quote.sent => quotes # {}

(***************************************************************************)
(* Once every service is decided the order leaves AGUARDANDO_APROVACAO:    *)
(* of the customers who decide the last services at the same time one sees *)
(* that nothing is pending and moves the order.                            *)
(***************************************************************************)
DecidedOrderMoves ==
  (Present # {} /\ PendingServices = {}) ~> (row.status # WaitingApproval)

NobodyRejects == \A r \in Calls : req[r].op \notin {"reject", "rejectAll"}

(***************************************************************************)
(* When no customer rejects, the total left on the approved order is the   *)
(* sum of its approved services, whichever approval saved it last.         *)
(***************************************************************************)
ApprovedTotalSettles ==
  /\ row.status = Approved
  /\ NobodyRejects
  /\ \A r \in Calls : req[r].pc = "idle" \/ Answered(r)
  => row.quote.total = ApprovedServices
=============================================================================
