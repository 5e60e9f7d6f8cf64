-------------------------- MODULE QuoteApprovalProofs --------------------------
(***************************************************************************)
(* Theorems about QuoteApproval, for any number of requests and services:  *)
(* the handlers use the order's row as StatusTransition allows, the date   *)
(* of a quote is never on an order whose quote was not sent, and while     *)
(* only customers decide the order moves as the lifecycle says, the last   *)
(* decision is not lost and the total settles.                             *)
(***************************************************************************)
EXTENDS QuoteApproval, StatusTransitionProofs

-----------------------------------------------------------------------------
(***************************************************************************)
(* Types.                                                                  *)
(***************************************************************************)
Pcs == {"idle", "transition", "editRead", "editWrite", "findService",
        "decide", "decideAll", "evaluate", "saveTotal", "addCheck",
        "removeCheck", "insert", "delete", "refresh", "budget", "done"}

\* The places from which a request writes a whole row back.
Writing == {"editWrite", "saveTotal"}

RequestRecords == [op : Operations \union {"none"}, pc : Pcs, wo : Rows]

ServiceStatuses == Decisions \union {Pending, "unused", "deleted"}

LocalRecords == [service : SUBSET Services, total : SUBSET Services]

BudgetRecords ==
  [pc : {"off", "total", "order", "send", "save"},
   list : SUBSET Services, total : SUBSET Services, wo : Rows]

Mails == [list : SUBSET Services, total : SUBSET Services]

RestTyped ==
  /\ req \in [Calls -> RequestRecords]
  /\ services \in [Services -> ServiceStatuses]
  /\ local \in [Calls -> LocalRecords]
  /\ budget \in [Calls -> BudgetRecords]
  /\ quotes \subseteq Mails

LEMMA TypeParts == TypeOK <=> TransitionTypeOK /\ RestTyped
BY DEF TypeOK, RestTyped, RequestRecords, Pcs, ServiceStatuses, LocalRecords,
       BudgetRecords, Mails

LEMMA RestTypedInit == Init => RestTyped
BY NoOrderType, ApprovalAssumption
DEF Init, OrderInit, RestTyped, IdleRequest, RequestRecords, Pcs,
    ServiceStatuses, LocalRecords, BudgetOff, BudgetRecords, Mails

(***************************************************************************)
(* What a step of the request r does to each variable.                     *)
(***************************************************************************)
Leaves(r) == \E pc \in Pcs \ Writing : GoTo(r, pc)

Starts(r) ==
  \E pc \in Pcs \ Writing : \E op \in Operations : Begin(r, op, pc)

HoldsOn(r, pc, wo) == req' = [req EXCEPT ![r].pc = pc, ![r].wo = wo]

Keeps(r, wo) == \E pc \in Pcs : HoldsOn(r, pc, wo)

ReqKind(r) ==
  \/ UNCHANGED req
  \/ Leaves(r)
  \/ Starts(r)
  \/ Keeps(r, row) /\ UNCHANGED transitionVars
  \/ Keeps(r, call[r].order) /\ TransitionReturned(r)
     /\ UNCHANGED transitionVars

LocalKind(r) ==
  \/ UNCHANGED local
  \/ \E S \in SUBSET Services : local' = [local EXCEPT ![r].service = S]
  \/ \E S \in SUBSET Services : local' = [local EXCEPT ![r].total = S]

ServicesKind ==
  \E S : \E v \in ServiceStatuses :
    services' = [s \in Services |-> IF s \in S THEN v ELSE services[s]]

BudgetKind(r) ==
  \/ UNCHANGED budget
  \/ budget' = [budget EXCEPT ![r] = BudgetOff]
  \/ \E S \in SUBSET Services :
       budget' = [budget EXCEPT ![r].pc = "total", ![r].list = S]
  \/ \E S \in SUBSET Services :
       budget' = [budget EXCEPT ![r].pc = "order", ![r].total = S]
  \/ /\ budget' = [budget EXCEPT ![r].pc = "send", ![r].wo = row]
     /\ UNCHANGED transitionVars
  \/ /\ budget[r].pc = "send"
     /\ budget' = [budget EXCEPT ![r].pc = "save"]
     /\ quotes' # {}

QuotesKind == quotes \subseteq quotes' /\ quotes' \subseteq quotes \union Mails

RowKind(r) ==
  \/ UNCHANGED row
  \/ Moves(r)
  \/ req[r].pc = "editWrite" /\ row' = req[r].wo
  \/ /\ req[r].pc = "saveTotal"
     /\ row' = [req[r].wo EXCEPT !.quote.total = local[r].total]
  \/ /\ budget[r].pc = "save"
     /\ row' = [budget[r].wo EXCEPT !.quote = [total |-> budget[r].total,
                                               sent |-> TRUE]]

Kinds(r) ==
  /\ ReqKind(r) /\ LocalKind(r) /\ (services' = services \/ ServicesKind)
  /\ BudgetKind(r) /\ QuotesKind /\ RowKind(r)

LEMMA PresentType == Present \subseteq Services /\ ServicesRead \subseteq SUBSET Services
BY DEF Present, ServicesRead

LEMMA BeginKinds ==
  ASSUME NEW r \in Calls, BeginRequest(r)
  PROVE  Kinds(r)
<1> USE DEF Kinds, ReqKind, LocalKind, BudgetKind, QuotesKind, RowKind, Starts,
            Pcs, Writing, transitionVars
<1>1. ASSUME "put" \in Operations, NEW to,
             BeginPutFields(r) \/ BeginPut(r, to),
             UNCHANGED <<services, local, budget, quotes>>
      PROVE  Kinds(r)
  BY <1>1 DEF BeginPutFields, BeginPut, Invoke
<1>2. ASSUME NEW s \in Services, NEW op, BeginDecision(r, op, s)
      PROVE  Kinds(r)
  BY <1>2 DEF BeginDecision
<1>3. ASSUME NEW s \in Services, BeginRemove(r, s)
      PROVE  Kinds(r)
  BY <1>3 DEF BeginRemove
<1>4. ASSUME NEW op, BeginDecideAll(r, op)
      PROVE  Kinds(r)
  BY <1>4 DEF BeginDecideAll
<1>5. CASE BeginAdd(r)
  BY <1>5 DEF BeginAdd, FreshServices
<1>6. QED
  BY <1>1, <1>2, <1>3, <1>4, <1>5 DEF BeginRequest

LEMMA TransitionKinds ==
  ASSUME NEW r \in Calls, TransitionToStep(r)
  PROVE  Kinds(r)
BY DEF TransitionToStep, Kinds, ReqKind, LocalKind, BudgetKind, QuotesKind,
       RowKind, Find, FindSame, FindInvalid, FindValid, CasMisses, Recheck,
       Notify, NotifySent, NotifyRefused, Return, Moves

LEMMA BudgetKinds ==
  ASSUME RestTyped, NEW r \in Calls, BudgetStep(r) \/ BudgetError(r)
  PROVE  Kinds(r)
<1> USE DEF Kinds, ReqKind, LocalKind, BudgetKind, QuotesKind, RowKind, Leaves,
            Pcs, Writing, transitionVars, orderVars
<1>1. CASE BudgetServices(r) \/ BudgetTotal(r) \/ BudgetOrder(r)
  BY <1>1, PresentType DEF BudgetServices, BudgetTotal, BudgetOrder
<1>2. CASE BudgetSent(r)
  <2>1. [list |-> budget[r].list, total |-> budget[r].total] \in Mails
    BY DEF RestTyped, BudgetRecords, Mails
  <2>2. UNCHANGED row
    BY <1>2 DEF BudgetSent, NotifySent
  <2>3. QED
    BY <1>2, <2>1, <2>2 DEF BudgetSent
<1>3. CASE BudgetRefused(r) \/ BudgetError(r)
  <2>1. UNCHANGED row
    BY <1>3 DEF BudgetRefused, BudgetError, NotifyRefused
  <2>2. QED
    BY <1>3, <2>1 DEF BudgetRefused, BudgetError, BudgetReturns
<1>4. CASE BudgetSave(r)
  BY <1>4 DEF BudgetSave, BudgetReturns, WriteBack
<1>5. QED
  BY <1>1, <1>2, <1>3, <1>4 DEF BudgetStep

LEMMA DecisionKinds ==
  ASSUME NEW r \in Calls, DecisionStep(r)
  PROVE  Kinds(r)
<1> USE DEF Kinds, ReqKind, LocalKind, BudgetKind, QuotesKind, RowKind, Leaves,
            Pcs, Writing, transitionVars
<1>1. CASE FindServiceDecided(r) \/ FindServicePending(r)
  BY <1>1 DEF FindServiceDecided, FindServicePending
<1>2. CASE Decide(r) \/ DecideAll(r)
  <2>1. PICK S : SetDecision(r, S)
    BY <1>2 DEF Decide, DecideAll
  <2>2. ServicesKind
    BY <2>1 DEF SetDecision, DecisionOf, ServicesKind, ServiceStatuses, Decisions
  <2>3. QED
    BY <1>2, <2>2 DEF Decide, DecideAll
<1>3. CASE EvaluatePending(r) \/ EvaluateDecided(r)
  BY <1>3 DEF EvaluatePending, EvaluateDecided, Invoke
<1>4. CASE ApprovedTotal(r)
  <2>1. ApprovedServices \in SUBSET Services
    BY DEF ApprovedServices
  <2>2. QED
    BY <1>4, <2>1 DEF ApprovedTotal, Keeps, HoldsOn
<1>5. CASE SaveTotal(r)
  BY <1>5 DEF SaveTotal, WriteBack
<1>6. QED
  BY <1>1, <1>2, <1>3, <1>4, <1>5 DEF DecisionStep

LEMMA ItemKinds ==
  ASSUME NEW r \in Calls, ItemStep(r)
  PROVE  Kinds(r)
<1> USE DEF Kinds, ReqKind, LocalKind, BudgetKind, QuotesKind, RowKind, Leaves,
            Pcs, Writing, transitionVars
<1>1. CASE ItemsCheck(r)
  <2> DEFINE pc == CASE ~ CanChangeItems(row.status) -> "done"
                     [] req[r].pc = "addCheck"       -> "insert"
                     [] OTHER                        -> "delete"
  <2>1. req' = [req EXCEPT ![r].pc = pc, ![r].wo = row]
    BY <1>1 DEF ItemsCheck
  <2>2. pc \in Pcs
    OBVIOUS
  <2>3. Keeps(r, row)
    BY <2>1, <2>2 DEF Keeps, HoldsOn
  <2>4. QED
    BY <1>1, <2>3 DEF ItemsCheck
<1>2. CASE Insert(r)
  <2>1. ServicesKind
    BY <1>2 DEF Insert, ServicesKind, ServiceStatuses
  <2>2. QED
    BY <1>2, <2>1 DEF Insert, Invoke
<1>3. CASE Delete(r)
  <2>1. ServicesKind
    BY <1>3 DEF Delete, ServicesKind, ServiceStatuses
  <2>2. QED
    BY <1>3, <2>1 DEF Delete
<1>4. CASE Refresh(r)
  BY <1>4 DEF Refresh
<1>5. QED
  BY <1>1, <1>2, <1>3, <1>4 DEF ItemStep

LEMMA OtherKinds ==
  ASSUME NEW r \in Calls,
         \/ PutStep(r) /\ UNCHANGED <<services, local, budget, quotes>>
         \/ Abandon(r) \/ StatusReplyLost(r)
  PROVE  Kinds(r)
<1> USE DEF Kinds, ReqKind, LocalKind, BudgetKind, QuotesKind, RowKind, Leaves,
            Pcs, Writing, transitionVars
<1>1. ASSUME EditRead(r), UNCHANGED <<services, local, budget, quotes>>
      PROVE  Kinds(r)
  BY <1>1 DEF EditRead, Keeps, HoldsOn
<1>2. ASSUME EditWrite(r), UNCHANGED <<services, local, budget, quotes>>
      PROVE  Kinds(r)
  BY <1>2 DEF EditWrite, WriteBack
<1>3. CASE Abandon(r)
  BY <1>3 DEF Abandon
<1>4. CASE StatusReplyLost(r)
  BY <1>4 DEF StatusReplyLost, Moves
<1>5. QED
  BY <1>1, <1>2, <1>3, <1>4 DEF PutStep

LEMMA NextKinds ==
  ASSUME RestTyped, Next
  PROVE  \E r \in Calls : Kinds(r)
BY BeginKinds, TransitionKinds, BudgetKinds, DecisionKinds, ItemKinds,
   OtherKinds
DEF Next, RequestStep

\* The record of r changes; the others stay.
LEMMA ReqTyped ==
  ASSUME RestTyped, NEW r \in Calls, NEW new \in RequestRecords,
         req' = [req EXCEPT ![r] = new]
  PROVE  /\ req' \in [Calls -> RequestRecords] /\ req'[r] = new
         /\ \A q \in Calls \ {r} : req'[q] = req[q]
BY DEF RestTyped

LEMMA GoToTyped ==
  ASSUME RestTyped, NEW r \in Calls, NEW pc \in Pcs, GoTo(r, pc)
  PROVE  /\ req' \in [Calls -> RequestRecords]
         /\ req'[r].op = req[r].op /\ req'[r].pc = pc /\ req'[r].wo = req[r].wo
         /\ \A q \in Calls \ {r} : req'[q] = req[q]
<1> DEFINE new == [req[r] EXCEPT !.pc = pc]
<1>1. req[r] \in RequestRecords
  BY DEF RestTyped
<1>2. /\ new \in RequestRecords
      /\ new.op = req[r].op /\ new.pc = pc /\ new.wo = req[r].wo
  BY <1>1 DEF RequestRecords
<1>3. req' = [req EXCEPT ![r] = new]
  BY DEF GoTo
<1>4. QED
  BY <1>2, <1>3, ReqTyped

LEMMA BeginTyped ==
  ASSUME RestTyped, NEW r \in Calls, NEW pc \in Pcs, NEW op \in Operations,
         Begin(r, op, pc)
  PROVE  /\ req' \in [Calls -> RequestRecords]
         /\ req'[r].op = op /\ req'[r].pc = pc /\ req'[r].wo = req[r].wo
         /\ \A q \in Calls \ {r} : req'[q] = req[q]
<1> DEFINE new == [req[r] EXCEPT !.op = op, !.pc = pc]
<1>1. req[r] \in RequestRecords
  BY DEF RestTyped
<1>2. /\ new \in RequestRecords
      /\ new.op = op /\ new.pc = pc /\ new.wo = req[r].wo
  BY <1>1 DEF RequestRecords
<1>3. req' = [req EXCEPT ![r] = new]
  BY DEF Begin
<1>4. QED
  BY <1>2, <1>3, ReqTyped

LEMMA KeepsTyped ==
  ASSUME RestTyped, NEW r \in Calls, NEW pc \in Pcs, NEW wo \in Rows,
         HoldsOn(r, pc, wo)
  PROVE  /\ req' \in [Calls -> RequestRecords]
         /\ req'[r].op = req[r].op /\ req'[r].pc = pc /\ req'[r].wo = wo
         /\ \A q \in Calls \ {r} : req'[q] = req[q]
<1> DEFINE new == [req[r] EXCEPT !.pc = pc, !.wo = wo]
<1>1. req[r] \in RequestRecords
  BY DEF RestTyped
<1>2. /\ new \in RequestRecords
      /\ new.op = req[r].op /\ new.pc = pc /\ new.wo = wo
  BY <1>1 DEF RequestRecords
<1>3. req' = [req EXCEPT ![r] = new]
  BY DEF HoldsOn
<1>4. QED
  BY <1>2, <1>3, ReqTyped

\* How the record of a request r may differ after a step of r.
LEMMA ReqKindTyped ==
  ASSUME RestTyped, TransitionTypeOK, NEW r \in Calls, ReqKind(r)
  PROVE  /\ req' \in [Calls -> RequestRecords]
         /\ \A q \in Calls \ {r} : req'[q] = req[q]
         /\ \/ req'[r] = req[r]
            \/ req'[r].pc \notin Writing
            \/ req'[r].wo = row /\ UNCHANGED transitionVars
            \/ /\ req'[r].wo = call[r].order /\ TransitionReturned(r)
               /\ UNCHANGED transitionVars
<1>1. row \in Rows /\ call[r].order \in Rows
  BY DEF TransitionTypeOK, CallRecords
<1>2. CASE UNCHANGED req
  BY <1>2 DEF RestTyped
<1>3. CASE Leaves(r)
  BY <1>3, GoToTyped DEF Leaves
<1>4. CASE Starts(r)
  BY <1>4, BeginTyped DEF Starts
<1>5. CASE Keeps(r, row) /\ UNCHANGED transitionVars
  <2>1. PICK pc \in Pcs : HoldsOn(r, pc, row)
    BY <1>5 DEF Keeps
  <2>2. req' \in [Calls -> RequestRecords] /\ req'[r].wo = row
        /\ \A q \in Calls \ {r} : req'[q] = req[q]
    BY <1>1, <2>1, KeepsTyped
  <2>3. QED
    BY <1>5, <2>2
<1>6. CASE Keeps(r, call[r].order) /\ TransitionReturned(r)
           /\ UNCHANGED transitionVars
  <2>1. PICK pc \in Pcs : HoldsOn(r, pc, call[r].order)
    BY <1>6 DEF Keeps
  <2>2. req' \in [Calls -> RequestRecords] /\ req'[r].wo = call[r].order
        /\ \A q \in Calls \ {r} : req'[q] = req[q]
    BY <1>1, <2>1, KeepsTyped
  <2>3. QED
    BY <1>6, <2>2
<1>7. QED
  BY <1>2, <1>3, <1>4, <1>5, <1>6 DEF ReqKind

LEMMA LocalKindTyped ==
  ASSUME RestTyped, NEW r \in Calls, LocalKind(r)
  PROVE  /\ local' \in [Calls -> LocalRecords]
         /\ \A q \in Calls \ {r} : local'[q] = local[q]
<1>1. local[r] \in LocalRecords /\ local \in [Calls -> LocalRecords]
  BY DEF RestTyped
<1>2. ASSUME NEW S \in SUBSET Services
      PROVE  /\ [local[r] EXCEPT !.service = S] \in LocalRecords
             /\ [local[r] EXCEPT !.total = S] \in LocalRecords
  BY <1>1 DEF LocalRecords
<1>3. ASSUME NEW new \in LocalRecords, local' = [local EXCEPT ![r] = new]
      PROVE  /\ local' \in [Calls -> LocalRecords]
             /\ \A q \in Calls \ {r} : local'[q] = local[q]
  BY <1>1, <1>3
<1>4. QED
  BY <1>1, <1>2, <1>3 DEF LocalKind

LEMMA BudgetKindTyped ==
  ASSUME RestTyped, row \in Rows, NEW r \in Calls, BudgetKind(r)
  PROVE  /\ budget' \in [Calls -> BudgetRecords]
         /\ \A q \in Calls \ {r} : budget'[q] = budget[q]
         /\ \/ budget'[r] = budget[r]
            \/ budget'[r].pc \notin {"send", "save"}
            \/ /\ budget'[r].pc = "send" /\ budget'[r].wo = row
               /\ UNCHANGED transitionVars
            \/ /\ budget[r].pc = "send" /\ budget'[r].wo = budget[r].wo
               /\ quotes' # {}
<1>1. budget[r] \in BudgetRecords /\ budget \in [Calls -> BudgetRecords]
  BY DEF RestTyped
<1>2. ASSUME NEW new \in BudgetRecords, budget' = [budget EXCEPT ![r] = new]
      PROVE  /\ budget' \in [Calls -> BudgetRecords] /\ budget'[r] = new
             /\ \A q \in Calls \ {r} : budget'[q] = budget[q]
  BY <1>1, <1>2
<1>3. BudgetOff \in BudgetRecords /\ BudgetOff.pc = "off"
  BY NoOrderType DEF BudgetOff, BudgetRecords
<1>4. ASSUME NEW S \in SUBSET Services
      PROVE  /\ [budget[r] EXCEPT !.pc = "total", !.list = S] \in BudgetRecords
             /\ [budget[r] EXCEPT !.pc = "total", !.list = S].pc = "total"
             /\ [budget[r] EXCEPT !.pc = "order", !.total = S] \in BudgetRecords
             /\ [budget[r] EXCEPT !.pc = "order", !.total = S].pc = "order"
  BY <1>1 DEF BudgetRecords
<1>5. /\ [budget[r] EXCEPT !.pc = "send", !.wo = row] \in BudgetRecords
      /\ [budget[r] EXCEPT !.pc = "send", !.wo = row].pc = "send"
      /\ [budget[r] EXCEPT !.pc = "send", !.wo = row].wo = row
      /\ [budget[r] EXCEPT !.pc = "save"] \in BudgetRecords
      /\ [budget[r] EXCEPT !.pc = "save"].wo = budget[r].wo
  BY <1>1 DEF BudgetRecords
<1>6. CASE UNCHANGED budget
  BY <1>1, <1>6
<1>7. CASE budget' = [budget EXCEPT ![r] = BudgetOff]
  BY <1>2, <1>3, <1>7
<1>8. ASSUME NEW S \in SUBSET Services,
             \/ budget' = [budget EXCEPT ![r].pc = "total", ![r].list = S]
             \/ budget' = [budget EXCEPT ![r].pc = "order", ![r].total = S]
      PROVE  /\ budget' \in [Calls -> BudgetRecords]
             /\ \A q \in Calls \ {r} : budget'[q] = budget[q]
             /\ budget'[r].pc \notin {"send", "save"}
  <2>1. \/ budget' = [budget EXCEPT ![r] = [budget[r] EXCEPT !.pc = "total",
                                                             !.list = S]]
        \/ budget' = [budget EXCEPT ![r] = [budget[r] EXCEPT !.pc = "order",
                                                             !.total = S]]
    BY <1>8
  <2>2. QED
    BY <1>2, <1>4, <2>1
<1>9. ASSUME budget' = [budget EXCEPT ![r].pc = "send", ![r].wo = row]
      PROVE  /\ budget' \in [Calls -> BudgetRecords]
             /\ \A q \in Calls \ {r} : budget'[q] = budget[q]
             /\ budget'[r].pc = "send" /\ budget'[r].wo = row
  <2>1. budget' = [budget EXCEPT ![r] = [budget[r] EXCEPT !.pc = "send",
                                                          !.wo = row]]
    BY <1>9
  <2>2. QED
    BY <1>2, <1>5, <2>1
<1>10. ASSUME budget' = [budget EXCEPT ![r].pc = "save"]
       PROVE  /\ budget' \in [Calls -> BudgetRecords]
              /\ \A q \in Calls \ {r} : budget'[q] = budget[q]
              /\ budget'[r].wo = budget[r].wo
  <2>1. budget' = [budget EXCEPT ![r] = [budget[r] EXCEPT !.pc = "save"]]
    BY <1>10
  <2>2. QED
    BY <1>2, <1>5, <2>1
<1>11. QED
  BY <1>6, <1>7, <1>8, <1>9, <1>10 DEF BudgetKind

LEMMA RestTypedStep ==
  ASSUME RestTyped, TransitionTypeOK, [Next]_vars
  PROVE  RestTyped'
<1>1. CASE UNCHANGED vars
  BY <1>1 DEF vars, orderVars, RestTyped
<1>2. ASSUME NEW r \in Calls, Kinds(r)
      PROVE  RestTyped'
  <2>1. row \in Rows
    BY DEF TransitionTypeOK
  <2>2. /\ req' \in [Calls -> RequestRecords]
        /\ local' \in [Calls -> LocalRecords]
        /\ budget' \in [Calls -> BudgetRecords]
    BY <1>2, <2>1, ReqKindTyped, LocalKindTyped, BudgetKindTyped DEF Kinds
  <2>3. services' \in [Services -> ServiceStatuses]
    BY <1>2 DEF Kinds, ServicesKind, RestTyped
  <2>4. quotes' \subseteq Mails
    BY <1>2 DEF Kinds, QuotesKind, RestTyped
  <2>5. QED
    BY <2>2, <2>3, <2>4 DEF RestTyped
<1>3. QED
  BY <1>1, <1>2, NextKinds

-----------------------------------------------------------------------------
(***************************************************************************)
(* The order's row.  A handler that will write the whole row back holds    *)
(* one whose status and timestamps the row has had, and whose date of the  *)
(* quote is set only if a quote was sent: it read it, or TransitionTo      *)
(* returned it.                                                            *)
(***************************************************************************)
Held(wo) == Progress(wo) \in past /\ (wo.quote.sent => quotes # {})

\* TransitionTo has filled in the work order it returns.
HasOrder(c) == c.pc \in {"notify", "return"} \/ c.result = "ok"

HeldInv ==
  /\ Held(row)
  /\ \A r \in Calls : req[r].pc \in Writing => Held(req[r].wo)
  /\ \A r \in Calls : budget[r].pc \in {"send", "save"} => Held(budget[r].wo)
  /\ \A r \in Calls : budget[r].pc = "save" => quotes # {}
  /\ \A r \in Calls : HasOrder(call[r]) => Held(call[r].order)

SharedInv == HistoryInv /\ RestTyped /\ HeldInv

LEMMA SharedInvInit == Init => SharedInv
<1> SUFFICES ASSUME Init PROVE SharedInv
  OBVIOUS
<1>1. TransitionInit
  BY DEF Init, OrderInit
<1>2. HistoryInv
  BY <1>1, TypeInit, CasIsAllowedInit, PastInvInit DEF HistoryInv
<1>3. Held(row)
  <2>1. ~ row.quote.sent
    BY <1>1, ApprovalAssumption DEF TransitionInit, FirstRow, NoQuote
  <2>2. Progress(row) \in past
    BY <1>1 DEF TransitionInit
  <2>3. QED
    BY <2>1, <2>2 DEF Held
<1>4. HeldInv
  BY <1>1, <1>3 DEF HeldInv, Init, OrderInit, TransitionInit, IdleRequest,
     IdleCall, BudgetOff, Writing, HasOrder
<1>5. QED
  BY <1>2, <1>4, RestTypedInit DEF SharedInv

\* The quote columns a handler writes, in a row it holds.
LEMMA QuoteWritten ==
  ASSUME NEW wo \in Rows, NEW total \in SUBSET Services
  PROVE  LET saved == [wo EXCEPT !.quote.total = total]
             sent  == [wo EXCEPT !.quote = [total |-> total, sent |-> TRUE]]
         IN  /\ saved \in Rows /\ Progress(saved) = Progress(wo)
             /\ saved.quote.sent = wo.quote.sent
             /\ saved.quote.total = total /\ saved.status = wo.status
             /\ sent \in Rows /\ Progress(sent) = Progress(wo)
<1>1. wo.quote \in [total : SUBSET Services, sent : BOOLEAN]
  BY ApprovalAssumption DEF Rows, QuoteColumns
<1>2. /\ [wo.quote EXCEPT !.total = total] \in Quotes
      /\ [wo.quote EXCEPT !.total = total].sent = wo.quote.sent
      /\ [wo.quote EXCEPT !.total = total].total = total
      /\ [total |-> total, sent |-> TRUE] \in Quotes
  BY <1>1, ApprovalAssumption DEF QuoteColumns
<1>3. ASSUME NEW quote \in Quotes
      PROVE  /\ [wo EXCEPT !.quote = quote] \in Rows
             /\ Progress([wo EXCEPT !.quote = quote]) = Progress(wo)
             /\ [wo EXCEPT !.quote = quote].quote = quote
             /\ [wo EXCEPT !.quote = quote].status = wo.status
  BY DEF Rows, Progress
<1>4. [wo EXCEPT !.quote.total = total]
        = [wo EXCEPT !.quote = [wo.quote EXCEPT !.total = total]]
  BY DEF Rows
<1>5. QED
  BY <1>2, <1>3, <1>4

LEMMA AbandonIsFail ==
  ASSUME TransitionTypeOK, NEW r \in Calls, Abandon(r)
  PROVE  Fail(r) \/ UNCHANGED transitionVars
<1>1. call \in [Calls -> CallRecords]
  BY DEF TransitionTypeOK
<1>2. CASE call[r].pc \in {"idle", "done"}
  <2>1. call' = [call EXCEPT ![r] = call[r]]
    BY <1>2 DEF Abandon
  <2>2. QED
    BY <1>1, <2>1 DEF Abandon, transitionVars
<1>3. CASE call[r].pc \notin {"idle", "done"}
  <2>1. call' = [call EXCEPT ![r] = [call[r] EXCEPT !.pc = "done",
                                                    !.result = "error"]]
    BY <1>3 DEF Abandon
  <2>2. call[r].pc \in {"find", "cas", "recheck", "notify", "return"}
    BY <1>1, <1>3 DEF CallRecords
  <2>3. QED
    BY <2>1, <2>2 DEF Abandon, Fail
<1>4. QED
  BY <1>2, <1>3

LEMMA WriteIsOther ==
  ASSUME RestTyped, HeldInv, NEW r \in Calls,
         EditWrite(r) \/ SaveTotal(r) \/ BudgetSave(r)
  PROVE  OtherWrite
<1>1. /\ req[r].wo \in Rows /\ budget[r].wo \in Rows
      /\ local[r].total \in SUBSET Services
      /\ budget[r].total \in SUBSET Services
  BY DEF RestTyped, RequestRecords, LocalRecords, BudgetRecords
<1>2. CASE EditWrite(r)
  <2>1. Progress(req[r].wo) \in past
    BY <1>2 DEF EditWrite, HeldInv, Held, Writing
  <2>2. QED
    BY <1>1, <1>2, <2>1 DEF EditWrite, WriteBack, OtherWrite
<1>3. CASE SaveTotal(r)
  <2>1. Progress(req[r].wo) \in past
    BY <1>3 DEF SaveTotal, HeldInv, Held, Writing
  <2>2. row' = [req[r].wo EXCEPT !.quote.total = local[r].total]
        /\ UNCHANGED <<call, past, mailed>>
    BY <1>3 DEF SaveTotal, WriteBack
  <2>3. row' \in Rows /\ Progress(row') = Progress(req[r].wo)
    BY <1>1, <2>2, QuoteWritten
  <2>4. QED
    BY <2>1, <2>2, <2>3 DEF OtherWrite
<1>4. CASE BudgetSave(r)
  <2>1. Progress(budget[r].wo) \in past
    BY <1>4 DEF BudgetSave, HeldInv, Held
  <2>2. row' = [budget[r].wo EXCEPT !.quote = [total |-> budget[r].total,
                                               sent |-> TRUE]]
        /\ UNCHANGED <<call, past, mailed>>
    BY <1>4 DEF BudgetSave, WriteBack
  <2>3. row' \in Rows /\ Progress(row') = Progress(budget[r].wo)
    BY <1>1, <2>2, QuoteWritten
  <2>4. QED
    BY <2>1, <2>2, <2>3 DEF OtherWrite
<1>5. QED
  BY <1>2, <1>3, <1>4

LEMMA SharedStep ==
  ASSUME TransitionTypeOK, RestTyped, HeldInv, [Next]_vars
  PROVE  [SharedNext]_transitionVars
<1> USE DEF SharedNext, TransitionNext
<1>1. ASSUME NEW r \in Calls, BeginRequest(r)
      PROVE  [SharedNext]_transitionVars
  <2>1. ASSUME NEW to \in WorkOrderStatuses, BeginPut(r, to)
        PROVE  SharedNext
    BY <2>1 DEF BeginPut
  <2>2. QED
    BY <1>1, <2>1
    DEF BeginRequest, BeginPutFields, BeginDecision, BeginDecideAll, BeginAdd,
        BeginRemove
<1>2. ASSUME NEW r \in Calls, TransitionToStep(r)
      PROVE  [SharedNext]_transitionVars
  BY <1>2 DEF TransitionToStep, TransitionStep
<1>3. ASSUME NEW r \in Calls, BudgetStep(r) \/ BudgetError(r)
      PROVE  [SharedNext]_transitionVars
  <2>1. CASE BudgetServices(r) \/ BudgetTotal(r) \/ BudgetOrder(r)
    BY <2>1 DEF BudgetServices, BudgetTotal, BudgetOrder, orderVars,
                transitionVars
  <2>2. CASE BudgetSent(r) \/ BudgetRefused(r) \/ BudgetError(r)
    <3>1. NotifySent(r) \/ NotifyRefused(r) \/ UNCHANGED transitionVars
      BY <2>2 DEF BudgetSent, BudgetRefused, BudgetError
    <3>2. QED
      BY <3>1 DEF TransitionStep, Notify
  <2>3. CASE BudgetSave(r)
    BY <2>3, WriteIsOther
  <2>4. QED
    BY <1>3, <2>1, <2>2, <2>3 DEF BudgetStep
<1>4. ASSUME NEW r \in Calls, DecisionStep(r)
      PROVE  [SharedNext]_transitionVars
  <2>1. CASE EvaluateDecided(r)
    <3>1. Approved \in WorkOrderStatuses /\ Canceled \in WorkOrderStatuses
      BY DEF Approved, Canceled, WorkOrderStatuses
    <3>2. QED
      BY <2>1, <3>1 DEF EvaluateDecided
  <2>2. CASE SaveTotal(r)
    BY <2>2, WriteIsOther
  <2>3. CASE ~ (EvaluateDecided(r) \/ SaveTotal(r))
    BY <1>4, <2>3
    DEF DecisionStep, FindServiceDecided, FindServicePending, Decide,
        DecideAll, EvaluatePending, ApprovedTotal
  <2>4. QED
    BY <2>1, <2>2, <2>3
<1>5. ASSUME NEW r \in Calls, ItemStep(r)
      PROVE  [SharedNext]_transitionVars
  <2>1. InDiagnosis \in WorkOrderStatuses
    BY DEF InDiagnosis, WorkOrderStatuses
  <2>2. QED
    BY <1>5, <2>1 DEF ItemStep, ItemsCheck, Insert, Delete, Refresh
<1>6. ASSUME NEW r \in Calls, PutStep(r)
      PROVE  [SharedNext]_transitionVars
  BY <1>6, WriteIsOther DEF PutStep, EditRead
<1>7. ASSUME NEW r \in Calls, Abandon(r)
      PROVE  [SharedNext]_transitionVars
  BY <1>7, AbandonIsFail
<1>8. ASSUME NEW r \in Calls, StatusReplyLost(r)
      PROVE  [SharedNext]_transitionVars
  BY <1>8 DEF StatusReplyLost
<1>9. CASE UNCHANGED vars
  BY <1>9 DEF vars, orderVars, transitionVars
<1>10. QED
  BY <1>1, <1>2, <1>3, <1>4, <1>5, <1>6, <1>7, <1>8, <1>9
  DEF Next, RequestStep

\* What held before a step still holds after it, of the same work order.
HeldNext(wo) == Progress(wo) \in past' /\ (wo.quote.sent => quotes' # {})

LEMMA HeldStays ==
  ASSUME TransitionTypeOK, RestTyped, HeldInv, [Next]_vars, NEW wo, Held(wo)
  PROVE  HeldNext(wo)
<1>1. past \subseteq past'
  BY SharedStep, PastGrows
<1>2. quotes \subseteq quotes'
  <2>1. CASE UNCHANGED vars
    BY <2>1 DEF vars
  <2>2. ASSUME NEW r \in Calls, Kinds(r)
        PROVE  quotes \subseteq quotes'
    BY <2>2 DEF Kinds, QuotesKind
  <2>3. QED
    BY <2>1, <2>2, NextKinds
<1>3. QED
  BY <1>1, <1>2 DEF Held, HeldNext

LEMMA RowHeld ==
  ASSUME TransitionTypeOK, RestTyped, HeldInv, [Next]_vars
  PROVE  HeldNext(row')
<1>1. CASE UNCHANGED row
  <2>1. HeldNext(row)
    BY HeldStays DEF HeldInv
  <2>2. QED
    BY <1>1, <2>1
<1>2. ASSUME NEW r \in Calls, Kinds(r)
      PROVE  HeldNext(row')
  <2>1. /\ req[r].wo \in Rows /\ budget[r].wo \in Rows
        /\ local[r].total \in SUBSET Services
        /\ budget[r].total \in SUBSET Services
    BY DEF RestTyped, RequestRecords, LocalRecords, BudgetRecords
  <2>2. CASE Moves(r)
    <3>1. /\ row' = RowAfter(call[r].target)
          /\ past' = past \union {Progress(row')}
      BY <2>2 DEF Moves, Cas, CasReplyLost
    <3>2. row'.quote = row.quote
      BY <3>1 DEF RowAfter, TransitionTypeOK, Rows
    <3>3. HeldNext(row)
      BY HeldStays DEF HeldInv
    <3>4. QED
      BY <3>1, <3>2, <3>3 DEF HeldNext
  <2>3. CASE req[r].pc = "editWrite" /\ row' = req[r].wo
    <3>1. HeldNext(req[r].wo)
      BY <2>3, HeldStays DEF HeldInv, Writing
    <3>2. QED
      BY <2>3, <3>1
  <2>4. CASE /\ req[r].pc = "saveTotal"
             /\ row' = [req[r].wo EXCEPT !.quote.total = local[r].total]
    <3>1. HeldNext(req[r].wo)
      BY <2>4, HeldStays DEF HeldInv, Writing
    <3>2. /\ Progress(row') = Progress(req[r].wo)
          /\ row'.quote.sent = req[r].wo.quote.sent
      BY <2>1, <2>4, QuoteWritten
    <3>3. QED
      BY <3>1, <3>2 DEF HeldNext
  <2>5. CASE /\ budget[r].pc = "save"
             /\ row' = [budget[r].wo EXCEPT
                          !.quote = [total |-> budget[r].total, sent |-> TRUE]]
    <3>1. HeldNext(budget[r].wo)
      BY <2>5, HeldStays DEF HeldInv
    <3>2. Progress(row') = Progress(budget[r].wo)
      BY <2>1, <2>5, QuoteWritten
    <3>3. quotes # {} /\ quotes \subseteq quotes'
      BY <1>2, <2>5 DEF HeldInv, Kinds, QuotesKind
    <3>4. QED
      BY <3>1, <3>2, <3>3 DEF HeldNext
  <2>6. QED
    BY <1>1, <1>2, <2>2, <2>3, <2>4, <2>5 DEF Kinds, RowKind
<1>3. CASE UNCHANGED vars
  BY <1>1, <1>3 DEF vars, orderVars
<1>4. QED
  BY <1>2, <1>3, NextKinds

\* The work order a call returns is the row as the call last saw it.
LEMMA OrderHeld ==
  ASSUME TransitionTypeOK, RestTyped, HeldInv, [Next]_vars, NEW d \in Calls,
         HasOrder(call'[d])
  PROVE  HeldNext(call'[d].order)
<1> USE DEF TransitionTypeOK, CallRecords
<1>1. HeldNext(row)
  BY HeldStays DEF HeldInv
<1>2. HasOrder(call[d]) => HeldNext(call[d].order)
  BY HeldStays DEF HeldInv
<1>3. HeldNext(row')
  BY RowHeld
<1>4. CASE call'[d] = call[d]
  BY <1>2, <1>4
<1>5. ASSUME NEW to \in WorkOrderStatuses, Invoke(d, to)
      PROVE  HasOrder(call[d]) /\ call'[d].order = call[d].order
  BY <1>5 DEF Invoke, HasOrder
<1>6. CASE FindSame(d) \/ FindInvalid(d) \/ Recheck(d)
  <2>1. call'[d].order = row
    BY <1>6 DEF FindSame, FindInvalid, Recheck, Answer
  <2>2. QED
    BY <1>1, <2>1
<1>7. CASE FindValid(d) \/ CasMisses(d) \/ Return(d)
  <2>1. HasOrder(call[d]) /\ call'[d].order = call[d].order
    BY <1>7 DEF FindValid, CasMisses, Return, HasOrder
  <2>2. QED
    BY <1>2, <2>1
<1>8. CASE Cas(d)
  <2>1. call'[d].order = row'
    BY <1>8 DEF Cas, CasMatches
  <2>2. QED
    BY <1>3, <2>1
<1>9. CASE NotifySent(d) \/ NotifyRefused(d)
  <2>1. HasOrder(call[d]) /\ call'[d].order = call[d].order
    BY <1>9 DEF NotifySent, NotifyRefused, HasOrder
  <2>2. QED
    BY <1>2, <2>1
<1>10. CASE Fail(d) \/ CasReplyLost(d)
  BY <1>10 DEF Fail, CasReplyLost, CasMatches, HasOrder
<1>11. QED
  BY <1>2, <1>4, <1>5, <1>6, <1>7, <1>8, <1>9, <1>10, SharedStep, OwnSteps

LEMMA RequestHeld ==
  ASSUME TransitionTypeOK, RestTyped, HeldInv, [Next]_vars, NEW d \in Calls,
         req'[d].pc \in Writing
  PROVE  HeldNext(req'[d].wo)
<1>1. HeldNext(row)
  BY HeldStays DEF HeldInv
<1>2. CASE req'[d] = req[d]
  <2>1. HeldNext(req[d].wo)
    BY <1>2, HeldStays DEF HeldInv
  <2>2. QED
    BY <1>2, <2>1
<1>3. ASSUME ReqKind(d)
      PROVE  HeldNext(req'[d].wo)
  <2>1. \/ req'[d] = req[d]
        \/ req'[d].wo = row
        \/ req'[d].wo = call[d].order /\ TransitionReturned(d)
    BY <1>3, ReqKindTyped
  <2>2. ASSUME TransitionReturned(d)
        PROVE  HeldNext(call[d].order)
    BY <2>2, HeldStays DEF TransitionReturned, HeldInv, HasOrder
  <2>3. QED
    BY <1>1, <1>2, <2>1, <2>2
<1>4. ASSUME NEW r \in Calls, ReqKind(r), r # d
      PROVE  req'[d] = req[d]
  BY <1>4, ReqKindTyped
<1>5. CASE UNCHANGED vars
  BY <1>2, <1>5 DEF vars, orderVars
<1>6. QED
  BY <1>2, <1>3, <1>4, <1>5, NextKinds DEF Kinds

LEMMA BudgetHeld ==
  ASSUME TransitionTypeOK, RestTyped, HeldInv, [Next]_vars, NEW d \in Calls,
         budget'[d].pc \in {"send", "save"}
  PROVE  /\ HeldNext(budget'[d].wo)
         /\ budget'[d].pc = "save" => quotes' # {}
<1>1. HeldNext(row) /\ row \in Rows
  BY HeldStays DEF HeldInv, TransitionTypeOK
<1>2. CASE budget'[d] = budget[d]
  <2>1. HeldNext(budget[d].wo)
    BY <1>2, HeldStays DEF HeldInv
  <2>2. budget[d].pc = "save" => quotes' # {}
    <3>1. ASSUME NEW r \in Calls, Kinds(r) PROVE quotes \subseteq quotes'
      BY <3>1 DEF Kinds, QuotesKind
    <3>2. CASE UNCHANGED vars
      BY <3>2 DEF vars, HeldInv
    <3>3. QED
      BY <3>1, <3>2, NextKinds DEF HeldInv
  <2>3. QED
    BY <1>2, <2>1, <2>2
<1>3. ASSUME BudgetKind(d)
      PROVE  /\ HeldNext(budget'[d].wo)
             /\ budget'[d].pc = "save" => quotes' # {}
  <2>1. \/ budget'[d] = budget[d]
        \/ budget'[d].pc = "send" /\ budget'[d].wo = row
        \/ /\ budget[d].pc = "send" /\ budget'[d].wo = budget[d].wo
           /\ quotes' # {}
    BY <1>1, <1>3, BudgetKindTyped
  <2>2. ASSUME budget[d].pc = "send"
        PROVE  HeldNext(budget[d].wo)
    BY <2>2, HeldStays DEF HeldInv
  <2>3. QED
    BY <1>1, <1>2, <2>1, <2>2
<1>4. ASSUME NEW r \in Calls, BudgetKind(r), r # d
      PROVE  budget'[d] = budget[d]
  BY <1>1, <1>4, BudgetKindTyped
<1>5. CASE UNCHANGED vars
  BY <1>2, <1>5 DEF vars
<1>6. QED
  BY <1>2, <1>3, <1>4, <1>5, NextKinds DEF Kinds

LEMMA SharedInvStep == SharedInv /\ [Next]_vars => SharedInv'
<1> SUFFICES ASSUME SharedInv, [Next]_vars PROVE SharedInv'
  OBVIOUS
<1>1. TransitionTypeOK /\ RestTyped /\ HeldInv
  BY DEF SharedInv, HistoryInv
<1>2. HistoryInv'
  BY <1>1, SharedStep, TypeStep, CasIsAllowedStep, PastInvStep
  DEF SharedInv, HistoryInv
<1>3. RestTyped'
  BY <1>1, RestTypedStep
<1>4. HeldInv'
  BY <1>1, RowHeld, OrderHeld, RequestHeld, BudgetHeld
  DEF HeldInv, Held, HeldNext
<1>5. QED
  BY <1>2, <1>3, <1>4 DEF SharedInv

LEMMA SharedInvariant == Spec => []SharedInv
BY SharedInvInit, SharedInvStep, PTL DEF Spec

(***************************************************************************)
(* The variables of reception and quote keep their types, for any number   *)
(* of requests and services.                                               *)
(***************************************************************************)
THEOREM ApprovalTypeCorrect == Spec => []TypeOK
<1>1. SharedInv => TypeOK
  BY TypeParts DEF SharedInv, HistoryInv
<1>2. QED
  BY <1>1, SharedInvariant, PTL

(***************************************************************************)
(* The handlers of reception, quote and decision are environments          *)
(* TransitionTo allows for, faults included: whatever row they write back, *)
(* its status and timestamps are ones the order has had.                   *)
(***************************************************************************)
THEOREM ApprovalSharesTheRow == Spec => UsesTransitionTo
<1>1. Init => TransitionInit
  BY DEF Init, OrderInit
<1>2. SharedInv /\ [Next]_vars => [SharedNext]_transitionVars
  BY SharedStep DEF SharedInv, HistoryInv
<1>3. QED
  BY <1>1, <1>2, SharedInvariant, PTL DEF Spec, UsesTransitionTo, SharedSpec

(***************************************************************************)
(* So the timestamps of the order tell its status, every status was        *)
(* earned, and a call that answers "ok" is right, whichever handlers race. *)
(***************************************************************************)
THEOREM HistoryInApproval ==
  Spec => [](StampsMatchStatus /\ PastConnected /\ OkMeansEntered)
BY ApprovalSharesTheRow, StampsAlwaysMatch, PastAlwaysConnected,
   OkAlwaysEntered, PTL DEF UsesTransitionTo

(***************************************************************************)
(* quote_sent_at is never on an order whose quote no provider accepted,    *)
(* although every handler writes the column back from a row it read or was *)
(* given earlier.                                                          *)
(***************************************************************************)
THEOREM SentQuoteWasMailed == Spec => []QuoteSentMeansMailed
<1>1. SharedInv => QuoteSentMeansMailed
  BY DEF SharedInv, HeldInv, Held, QuoteSentMeansMailed
<1>2. QED
  BY <1>1, SharedInvariant, PTL

-----------------------------------------------------------------------------
(***************************************************************************)
(* The customers decide, and nobody else touches the order meanwhile.      *)
(***************************************************************************)
DecisionOps == {"approve", "reject", "approveAll", "rejectAll"}

OnlyDecisions == Operations \subseteq DecisionOps

DecisionPcs == {"idle", "findService", "decide", "decideAll", "evaluate",
                "transition", "saveTotal", "done"}

InTransition(c) == c.pc \in {"find", "cas", "recheck", "notify", "return"}

DecisionInv ==
  \A r \in Calls :
    /\ req[r].pc \in DecisionPcs
    /\ req[r].pc = "idle" <=> req[r].op = "none"
    /\ budget[r].pc = "off"
    /\ call[r].pc # "idle" => call[r].target \in {Approved, Canceled}
    /\ InTransition(call[r]) => req[r].pc = "transition"

Deciding == SharedInv /\ DecisionInv

BeginsDecision(r) ==
  \E op \in Operations \intersect DecisionOps :
    \E pc \in {"findService", "decideAll"} : Begin(r, op, pc)

\* With only these handlers the other steps are never enabled.
LEMMA DecisionSteps ==
  ASSUME OnlyDecisions, Deciding, NEW r \in Calls,
         \/ BeginRequest(r) \/ RequestStep(r)
         \/ BudgetError(r) \/ Abandon(r) \/ StatusReplyLost(r)
  PROVE  \/ /\ BeginsDecision(r)
            /\ UNCHANGED <<transitionVars, services, budget, quotes>>
            /\ \/ UNCHANGED local
               \/ \E s \in Services : local' = [local EXCEPT ![r].service = {s}]
         \/ TransitionToStep(r) \/ DecisionStep(r)
         \/ Abandon(r) \/ StatusReplyLost(r)
<1>1. /\ req[r].pc \in DecisionPcs /\ budget[r].pc = "off"
      /\ req[r].op \in Operations \union {"none"}
      /\ call[r].pc # "idle" => call[r].target \in {Approved, Canceled}
  BY DEF Deciding, DecisionInv, SharedInv, RestTyped, RequestRecords
<1>2. req[r].op \notin {"put", "add"}
  BY <1>1 DEF OnlyDecisions, DecisionOps
<1>3. ~ BudgetCalled(r)
  BY <1>1 DEF BudgetCalled, InNotifier, DecisionPcs, Approved, Canceled,
     WaitingApproval
<1>4. ~ BudgetStep(r) /\ ~ BudgetError(r)
  BY <1>1, <1>3
  DEF BudgetStep, BudgetError, BudgetServices, BudgetTotal, BudgetOrder,
      BudgetSent, BudgetRefused, BudgetSave
<1>5. ~ ItemStep(r)
  BY <1>1, <1>2 DEF ItemStep, ItemsCheck, Insert, Delete, Refresh, DecisionPcs
<1>6. ~ PutStep(r)
  BY <1>1, <1>2 DEF PutStep, EditRead, EditWrite, DecisionPcs
<1>7. CASE BeginRequest(r)
  <2>1. "put" \notin Operations /\ "add" \notin Operations
        /\ "remove" \notin Operations
    BY DEF OnlyDecisions, DecisionOps
  <2>2. ASSUME NEW s \in Services, NEW op, BeginDecision(r, op, s)
        PROVE  /\ BeginsDecision(r)
               /\ UNCHANGED <<transitionVars, services, budget, quotes>>
               /\ local' = [local EXCEPT ![r].service = {s}]
    BY <2>2 DEF BeginDecision, BeginsDecision, DecisionOps
  <2>3. ASSUME NEW op, BeginDecideAll(r, op)
        PROVE  /\ BeginsDecision(r)
               /\ UNCHANGED <<transitionVars, services, budget, quotes>>
               /\ UNCHANGED local
    BY <2>3 DEF BeginDecideAll, BeginsDecision, DecisionOps
  <2>4. QED
    BY <1>7, <2>1, <2>2, <2>3 DEF BeginRequest, BeginAdd, BeginRemove
<1>8. QED
  BY <1>4, <1>5, <1>6, <1>7 DEF RequestStep

\* The call of r alone changes, and stays in the transition or ends it.
LEMMA TransitionToOwn ==
  ASSUME TransitionTypeOK, NEW r \in Calls,
         TransitionToStep(r) \/ Abandon(r) \/ StatusReplyLost(r)
  PROVE  /\ \A q \in Calls \ {r} : call'[q] = call[q]
         /\ \/ call'[r] = call[r]
            \/ /\ InTransition(call[r]) /\ call'[r].target = call[r].target
               /\ call'[r].pc # "idle"
<1> USE DEF TransitionTypeOK, CallRecords, InTransition
<1>1. CASE Find(r)
  BY <1>1 DEF Find, FindSame, FindInvalid, FindValid, Answer
<1>2. CASE Cas(r) \/ CasMisses(r) \/ Recheck(r)
  BY <1>2 DEF Cas, CasMatches, CasMisses, Recheck, Answer
<1>3. CASE Notify(r) \/ Return(r)
  BY <1>3 DEF Notify, NotifySent, NotifyRefused, Return
<1>4. CASE Abandon(r)
  <2>1. Fail(r) \/ UNCHANGED transitionVars
    BY <1>4, AbandonIsFail
  <2>2. QED
    BY <2>1 DEF Fail, transitionVars
<1>5. CASE StatusReplyLost(r)
  BY <1>5 DEF StatusReplyLost, CasReplyLost, CasMatches
<1>6. QED
  BY <1>1, <1>2, <1>3, <1>4, <1>5 DEF TransitionToStep

\* What a decision, or its end, does to the records of its request.
LEMMA DecisionMoves ==
  ASSUME Deciding, NEW r \in Calls, DecisionStep(r)
  PROVE  /\ req' \in [Calls -> RequestRecords]
         /\ \A q \in Calls \ {r} : req'[q] = req[q]
         /\ req'[r].op = req[r].op
         /\ req[r].pc # "idle" /\ req'[r].pc \in DecisionPcs \ {"idle"}
         /\ UNCHANGED budget
         /\ \/ UNCHANGED call /\ ~ InTransition(call[r])
            \/ /\ Invoke(r, Approved) \/ Invoke(r, Canceled)
               /\ req'[r].pc = "transition"
<1>0. RestTyped /\ call[r].order \in Rows /\ row \in Rows
  BY DEF Deciding, SharedInv, HistoryInv, TransitionTypeOK, CallRecords
<1>1. InTransition(call[r]) => req[r].pc = "transition"
  BY DEF Deciding, DecisionInv
<1>2. ASSUME NEW pc \in DecisionPcs \ {"idle"}, GoTo(r, pc)
      PROVE  /\ req' \in [Calls -> RequestRecords]
             /\ \A q \in Calls \ {r} : req'[q] = req[q]
             /\ req'[r].op = req[r].op /\ req'[r].pc = pc
  BY <1>0, <1>2, GoToTyped DEF DecisionPcs, Pcs
<1>3. CASE \/ FindServiceDecided(r) \/ FindServicePending(r)
           \/ EvaluatePending(r) \/ Decide(r) \/ DecideAll(r)
  BY <1>1, <1>2, <1>3
  DEF FindServiceDecided, FindServicePending, EvaluatePending, Decide,
      DecideAll, DecisionPcs, transitionVars
<1>4. CASE EvaluateDecided(r)
  BY <1>2, <1>4 DEF EvaluateDecided, DecisionPcs
<1>5. CASE ApprovedTotal(r)
  <2>1. HoldsOn(r, "saveTotal", call[r].order)
    BY <1>5 DEF ApprovedTotal, HoldsOn
  <2>2. /\ req' \in [Calls -> RequestRecords]
        /\ \A q \in Calls \ {r} : req'[q] = req[q]
        /\ req'[r].op = req[r].op /\ req'[r].pc = "saveTotal"
    BY <1>0, <2>1, KeepsTyped DEF Pcs
  <2>3. QED
    BY <1>5, <2>2
    DEF ApprovedTotal, TransitionReturned, InTransition, DecisionPcs,
        transitionVars
<1>6. CASE SaveTotal(r)
  BY <1>1, <1>2, <1>6 DEF SaveTotal, WriteBack, DecisionPcs
<1>7. QED
  BY <1>3, <1>4, <1>5, <1>6 DEF DecisionStep

LEMMA DecisionInvStep ==
  ASSUME OnlyDecisions, Deciding, [Next]_vars
  PROVE  DecisionInv'
<1>0. TransitionTypeOK /\ RestTyped
  BY DEF Deciding, SharedInv, HistoryInv
<1> USE DEF DecisionInv
<1>1. CASE UNCHANGED vars
  BY <1>1 DEF vars, orderVars, Deciding
<1>2. ASSUME NEW r \in Calls, BeginsDecision(r),
             UNCHANGED <<transitionVars, services, budget, quotes>>
      PROVE  DecisionInv'
  <2>1. PICK op \in Operations \intersect DecisionOps,
             pc \in {"findService", "decideAll"} : Begin(r, op, pc)
    BY <1>2 DEF BeginsDecision
  <2>2. /\ req'[r].op = op /\ req'[r].pc = pc
        /\ \A q \in Calls \ {r} : req'[q] = req[q]
    BY <1>0, <2>1, BeginTyped DEF Pcs
  <2>3. req[r].pc = "idle" /\ ~ InTransition(call[r])
    BY <2>1 DEF Begin, Deciding
  <2>4. UNCHANGED <<call, budget>>
    BY <1>2 DEF transitionVars
  <2>5. op # "none" /\ pc \in DecisionPcs /\ pc # "idle"
    BY DEF DecisionOps, DecisionPcs
  <2>6. QED
    BY <2>2, <2>3, <2>4, <2>5 DEF Deciding
<1>3. ASSUME NEW r \in Calls, TransitionToStep(r) \/ StatusReplyLost(r)
      PROVE  DecisionInv'
  <2>1. UNCHANGED <<req, budget>>
    BY <1>3 DEF TransitionToStep, StatusReplyLost
  <2>2. QED
    BY <1>0, <1>3, <2>1, TransitionToOwn DEF Deciding, InTransition
<1>4. ASSUME NEW r \in Calls, Abandon(r)
      PROVE  DecisionInv'
  <2>1. /\ req'[r].op = req[r].op /\ req'[r].pc = "done"
        /\ \A q \in Calls \ {r} : req'[q] = req[q]
    BY <1>0, <1>4, GoToTyped DEF Abandon, Pcs
  <2>2. /\ \A q \in Calls \ {r} : budget'[q] = budget[q]
        /\ budget'[r].pc = "off"
    BY <1>0, <1>4 DEF Abandon, BudgetOff, RestTyped
  <2>3. ~ InTransition(call'[r])
    BY <1>0, <1>4 DEF Abandon, InTransition, TransitionTypeOK, CallRecords
  <2>4. /\ \A q \in Calls \ {r} : call'[q] = call[q]
        /\ call'[r].pc # "idle" => call'[r].target \in {Approved, Canceled}
    <3>1. \/ call'[r] = call[r]
          \/ InTransition(call[r]) /\ call'[r].target = call[r].target
      BY <1>0, <1>4, TransitionToOwn
    <3>2. InTransition(call[r]) => call[r].pc # "idle"
      BY DEF InTransition
    <3>3. QED
      BY <1>0, <1>4, <3>1, <3>2, TransitionToOwn DEF Deciding
  <2>5. req[r].op # "none"
    BY <1>4 DEF Abandon, Deciding
  <2>6. QED
    BY <2>1, <2>2, <2>3, <2>4, <2>5 DEF Deciding, DecisionPcs
<1>5. ASSUME NEW r \in Calls, DecisionStep(r)
      PROVE  DecisionInv'
  <2>1. ASSUME NEW to \in {Approved, Canceled}, Invoke(r, to)
        PROVE  /\ \A q \in Calls \ {r} : call'[q] = call[q]
               /\ call'[r].target = to
    BY <1>0, <2>1 DEF Invoke, TransitionTypeOK, CallRecords
  <2>2. QED
    BY <1>5, <2>1, DecisionMoves DEF Deciding
<1>6. QED
  BY <1>1, <1>2, <1>3, <1>4, <1>5, DecisionSteps DEF Next

LEMMA DecisionInvInit == Init => DecisionInv
BY DEF Init, OrderInit, TransitionInit, IdleRequest, IdleCall, BudgetOff,
       DecisionInv, DecisionPcs, InTransition

LEMMA DecidingInvariant ==
  ASSUME OnlyDecisions
  PROVE  Spec => []Deciding
<1>1. Init => Deciding
  BY SharedInvInit, DecisionInvInit DEF Deciding
<1>2. Deciding /\ [Next]_vars => Deciding'
  BY SharedInvStep, DecisionInvStep DEF Deciding
<1>3. QED
  BY <1>1, <1>2, PTL DEF Spec

(***************************************************************************)
(* TransitionTo succeeds for a decision: the order is in the status asked  *)
(* for, and stays there, as no decision leads out of APROVADO or           *)
(* CANCELADA.  What SaveTotal writes back is therefore not out of date.    *)
(***************************************************************************)
Succeeds(c) == c.pc \in {"notify", "return"} \/ (c.pc = "done" /\ c.result = "ok")

Settled == {Approved, Canceled}

SuccessInv ==
  \A r \in Calls :
    /\ Succeeds(call[r]) =>
         row.status = call[r].target /\ call[r].order.status = row.status
    /\ req[r].pc = "saveTotal" =>
         row.status \in Settled /\ req[r].wo.status = row.status

LEMMA SettledIsFinal ==
  ASSUME NEW from \in WorkOrderStatuses, NEW to \in Settled,
         IsValidTransition(from, to)
  PROVE  from \notin Settled
BY DEF IsValidTransition, AllowedTransitions, Settled, WorkOrderStatuses,
       Received, InDiagnosis, WaitingApproval, Approved, InProgress, Finished,
       Delivered, Canceled

LEMMA CallSucceeds ==
  ASSUME HistoryInv, NEW r \in Calls,
         TransitionToStep(r) \/ Abandon(r) \/ StatusReplyLost(r)
  PROVE  /\ UNCHANGED row \/ Moves(r)
         /\ Succeeds(call'[r]) =>
              \/ /\ Succeeds(call[r]) /\ call'[r].order = call[r].order
                 /\ call'[r].target = call[r].target /\ UNCHANGED row
              \/ /\ InTransition(call[r]) /\ call'[r].order = row'
                 /\ row'.status = call'[r].target
         /\ Succeeds(call[r]) /\ ~ Faults => Succeeds(call'[r])
<1> USE DEF HistoryInv, TransitionTypeOK, CallRecords, InTransition, Succeeds
<1>1. CASE Find(r)
  BY <1>1 DEF Find, FindSame, FindInvalid, FindValid, Answer
<1>2. CASE Cas(r)
  <2>1. row' = RowAfter(call[r].target) /\ row'.status = call[r].target
    BY <1>2 DEF Cas, RowAfter, Rows
  <2>2. QED
    BY <1>2, <2>1 DEF Cas, CasMatches, Moves
<1>3. CASE CasMisses(r) \/ Recheck(r)
  BY <1>3 DEF CasMisses, Recheck, Answer
<1>4. CASE Notify(r) \/ Return(r)
  BY <1>4 DEF Notify, NotifySent, NotifyRefused, Return
<1>5. CASE Abandon(r)
  <2>1. Fail(r) \/ UNCHANGED transitionVars
    BY <1>5, AbandonIsFail
  <2>2. QED
    BY <2>1 DEF Fail, transitionVars
<1>6. CASE StatusReplyLost(r)
  BY <1>6 DEF StatusReplyLost, CasReplyLost, CasMatches, Moves
<1>7. QED
  BY <1>1, <1>2, <1>3, <1>4, <1>5, <1>6 DEF TransitionToStep

LEMMA DecisionRow ==
  ASSUME Deciding, NEW r \in Calls, DecisionStep(r)
  PROVE  \/ /\ UNCHANGED row
            /\ req'[r].pc = "saveTotal" =>
                 /\ TransitionReturned(r) /\ req'[r].wo = call[r].order
                 /\ local'[r].total = ApprovedServices
                 /\ UNCHANGED <<call, services>>
         \/ /\ SaveTotal(r) /\ req[r].pc = "saveTotal" /\ req'[r].pc = "done"
            /\ row'.status = req[r].wo.status
            /\ row'.quote.total = local[r].total
            /\ UNCHANGED <<call, services, local>>
<1>0. /\ RestTyped /\ call[r].order \in Rows /\ req[r].wo \in Rows
      /\ local[r] \in LocalRecords /\ local[r].total \in SUBSET Services
  BY DEF Deciding, SharedInv, HistoryInv, TransitionTypeOK, CallRecords,
     RestTyped, RequestRecords, LocalRecords
<1>1. ASSUME NEW pc \in Pcs \ {"saveTotal"}, GoTo(r, pc), UNCHANGED row
      PROVE  UNCHANGED row /\ req'[r].pc # "saveTotal"
  BY <1>0, <1>1, GoToTyped
<1>2. CASE \/ FindServiceDecided(r) \/ FindServicePending(r)
           \/ EvaluatePending(r) \/ Decide(r) \/ DecideAll(r)
           \/ EvaluateDecided(r)
  BY <1>1, <1>2
  DEF FindServiceDecided, FindServicePending, EvaluatePending, Decide,
      DecideAll, EvaluateDecided, Invoke, Pcs, transitionVars
<1>3. CASE ApprovedTotal(r)
  <2>1. HoldsOn(r, "saveTotal", call[r].order)
    BY <1>3 DEF ApprovedTotal, HoldsOn
  <2>2. req'[r].wo = call[r].order
    BY <1>0, <2>1, KeepsTyped DEF Pcs
  <2>3. local'[r].total = ApprovedServices
    BY <1>0, <1>3 DEF ApprovedTotal, RestTyped, LocalRecords
  <2>4. QED
    BY <1>3, <2>2, <2>3 DEF ApprovedTotal, transitionVars
<1>4. CASE SaveTotal(r)
  <2>1. row' = [req[r].wo EXCEPT !.quote.total = local[r].total]
    BY <1>4 DEF SaveTotal, WriteBack
  <2>2. row'.status = req[r].wo.status /\ row'.quote.total = local[r].total
    BY <1>0, <2>1, QuoteWritten
  <2>3. req'[r].pc = "done"
    BY <1>0, <1>4, GoToTyped DEF SaveTotal, Pcs
  <2>4. QED
    BY <1>4, <2>2, <2>3 DEF SaveTotal, WriteBack
<1>5. QED
  BY <1>2, <1>3, <1>4 DEF DecisionStep

LEMMA SuccessInvStep ==
  ASSUME OnlyDecisions, Deciding, SuccessInv, [Next]_vars
  PROVE  SuccessInv'
<1>0. TransitionTypeOK /\ RestTyped /\ HistoryInv /\ DecisionInv
  BY DEF Deciding, SharedInv, HistoryInv
<1>1. CASE UNCHANGED vars
  BY <1>1 DEF vars, orderVars, SuccessInv
<1>2. ASSUME NEW r \in Calls, BeginsDecision(r),
             UNCHANGED <<transitionVars, services, budget, quotes>>
      PROVE  SuccessInv'
  <2>1. PICK op \in Operations \intersect DecisionOps,
             pc \in {"findService", "decideAll"} : Begin(r, op, pc)
    BY <1>2 DEF BeginsDecision
  <2>2. /\ req'[r].pc # "saveTotal" /\ \A q \in Calls \ {r} : req'[q] = req[q]
    BY <1>0, <2>1, BeginTyped DEF Pcs
  <2>3. UNCHANGED <<call, row>>
    BY <1>2 DEF transitionVars
  <2>4. QED
    BY <2>2, <2>3 DEF SuccessInv
<1>3. ASSUME NEW r \in Calls,
             TransitionToStep(r) \/ Abandon(r) \/ StatusReplyLost(r)
      PROVE  SuccessInv'
  <2>1. /\ \A q \in Calls \ {r} : call'[q] = call[q] /\ req'[q] = req[q]
        /\ req'[r].pc = "saveTotal" => req'[r] = req[r]
    <3>1. ASSUME Abandon(r)
          PROVE  /\ \A q \in Calls \ {r} : req'[q] = req[q]
                 /\ req'[r].pc # "saveTotal"
      BY <1>0, <3>1, GoToTyped DEF Abandon, Pcs
    <3>2. QED
      BY <1>0, <1>3, <3>1, TransitionToOwn
      DEF TransitionToStep, StatusReplyLost
  <2>2. CASE UNCHANGED row
    <3>1. Succeeds(call'[r]) =>
            row'.status = call'[r].target /\ call'[r].order.status = row'.status
      BY <1>0, <1>3, <2>2, CallSucceeds DEF SuccessInv
    <3>2. QED
      BY <2>1, <2>2, <3>1 DEF SuccessInv
  <2>3. CASE Moves(r)
    <3>1. /\ call[r].target \in Settled /\ row.status \in WorkOrderStatuses
          /\ call'[r].target = call[r].target
          /\ row'.status = call[r].target
          /\ IsValidTransition(row.status, row'.status)
      BY <1>0, <2>3, MoveFollowsTable
      DEF Settled, DecisionInv, Moves, Cas, CasReplyLost, CasMatches
    <3>2. row.status \notin Settled
      BY <3>1, SettledIsFinal
    <3>3. \A q \in Calls : ~ Succeeds(call[q]) /\ req[q].pc # "saveTotal"
      <4>1. ASSUME NEW q \in Calls, Succeeds(call[q])
            PROVE  row.status \in Settled
        BY <1>0, <4>1 DEF SuccessInv, DecisionInv, Settled, Succeeds
      <4>2. QED
        BY <3>2, <4>1 DEF SuccessInv
    <3>4. Succeeds(call'[r]) => call'[r].order.status = row'.status
      BY <1>0, <1>3, <3>3, CallSucceeds
    <3>5. QED
      BY <2>1, <3>1, <3>3, <3>4 DEF SuccessInv
  <2>4. QED
    BY <1>0, <1>3, <2>2, <2>3, CallSucceeds
<1>4. ASSUME NEW r \in Calls, DecisionStep(r)
      PROVE  SuccessInv'
  <2>1. row'.status = row.status
    BY <1>4, DecisionRow DEF SuccessInv
  <2>2. /\ \A q \in Calls \ {r} : req'[q] = req[q]
        /\ UNCHANGED call \/ Invoke(r, Approved) \/ Invoke(r, Canceled)
    BY <1>4, DecisionMoves
  <2>3. ASSUME NEW q \in Calls, Succeeds(call'[q])
        PROVE  /\ row'.status = call'[q].target
               /\ call'[q].order.status = row'.status
    <3>1. ASSUME NEW to, Invoke(r, to)
          PROVE  call'[q] = call[q]
      BY <1>0, <2>3, <3>1 DEF Invoke, TransitionTypeOK, Succeeds
    <3>2. call'[q] = call[q]
      BY <2>2, <3>1
    <3>3. QED
      BY <2>1, <2>3, <3>2 DEF SuccessInv
  <2>4. req'[r].pc = "saveTotal" =>
          row.status \in Settled /\ req'[r].wo.status = row.status
    <3>1. ASSUME TransitionReturned(r)
          PROVE  Succeeds(call[r]) /\ call[r].target \in Settled
      BY <1>0, <3>1 DEF TransitionReturned, Succeeds, DecisionInv, Settled
    <3>2. QED
      BY <1>4, <3>1, DecisionRow DEF SuccessInv
  <2>5. QED
    BY <2>1, <2>2, <2>3, <2>4 DEF SuccessInv
<1>5. QED
  BY <1>1, <1>2, <1>3, <1>4, DecisionSteps DEF Next, vars, orderVars

LEMMA SucceedingInvariant ==
  ASSUME OnlyDecisions
  PROVE  Spec => [](Deciding /\ SuccessInv)
<1>1. Init => SuccessInv
  BY DEF Init, OrderInit, TransitionInit, IdleCall, IdleRequest, SuccessInv,
         Succeeds
<1>2. Deciding /\ SuccessInv /\ [Next]_vars => SuccessInv'
  BY SuccessInvStep
<1>3. QED
  BY <1>1, <1>2, DecidingInvariant, PTL DEF Spec

\* SaveTotal writes the whole row back, but with the status it has.
LEMMA DecisionOwnedStep ==
  ASSUME OnlyDecisions, Deciding, SuccessInv, [Next]_vars
  PROVE  [OwnedNext]_transitionVars
<1>1. [SharedNext]_transitionVars
  BY SharedStep DEF Deciding, SharedInv, HistoryInv
<1>2. ASSUME NEW r \in Calls, BeginsDecision(r), UNCHANGED transitionVars
      PROVE  [OwnedNext]_transitionVars
  BY <1>2
<1>3. ASSUME NEW r \in Calls,
             TransitionToStep(r) \/ Abandon(r) \/ StatusReplyLost(r)
      PROVE  [OwnedNext]_transitionVars
  <2>1. TransitionTypeOK
    BY DEF Deciding, SharedInv, HistoryInv
  <2>2. \/ TransitionStep(r) \/ Fail(r) \/ CasReplyLost(r)
        \/ UNCHANGED transitionVars
    BY <1>3, <2>1, AbandonIsFail
    DEF TransitionToStep, TransitionStep, StatusReplyLost
  <2>3. QED
    BY <2>2 DEF OwnedNext, TransitionNext
<1>4. ASSUME NEW r \in Calls, DecisionStep(r)
      PROVE  [OwnedNext]_transitionVars
  <2>1. row'.status = row.status
    BY <1>4, DecisionRow DEF SuccessInv
  <2>2. QED
    BY <1>1, <2>1 DEF SharedNext, OwnedNext, QuietWrite
<1>5. CASE UNCHANGED vars
  BY <1>5 DEF vars, orderVars, transitionVars
<1>6. QED
  BY <1>2, <1>3, <1>4, <1>5, DecisionSteps DEF Next

LEMMA DecisionsAreOwned ==
  ASSUME OnlyDecisions
  PROVE  Spec => OwnedSpec
<1>1. Init => TransitionInit
  BY DEF Init, OrderInit
<1>2. Deciding /\ SuccessInv /\ [Next]_vars => [OwnedNext]_transitionVars
  BY DecisionOwnedStep
<1>3. QED
  BY <1>1, <1>2, SucceedingInvariant, PTL DEF Spec, OwnedSpec

(***************************************************************************)
(* While only customers decide, the status of the order follows the table, *)
(* although SaveTotal writes the whole row back: the row it holds is not   *)
(* out of date.                                                            *)
(***************************************************************************)
THEOREM DecisionsFollowTable ==
  ASSUME OnlyDecisions
  PROVE  Spec => StatusFollowsTable
BY DecisionsAreOwned, StatusAlwaysFollowsTable, PTL

(***************************************************************************)
(* The links of one order, opened by any number of customers, repeated and *)
(* abandoned anywhere, look like the lifecycle of one order: one of the    *)
(* decisions moves it, a conflict is only reported to one that was         *)
(* overtaken, and the outcome is announced at most once.                   *)
(***************************************************************************)
THEOREM DecisionsKeepLifecycle ==
  ASSUME OnlyDecisions
  PROVE  Spec => /\ ImplementsLifecycle
                 /\ [](OneMoverPerStatus /\ ConflictMeansOvertaken)
                 /\ []NoDuplicateNotice
BY DecisionsAreOwned, Implementation, AlwaysOneMover, ConflictAlwaysOvertaken,
   NeverDuplicateNotice, PTL

-----------------------------------------------------------------------------
(***************************************************************************)
(* The last decision.  An order all of whose services are decided but      *)
(* which still waits for approval has a request that will move it: one     *)
(* about to evaluate the services, or in a TransitionTo whose UPDATE is    *)
(* not out of date.                                                        *)
(***************************************************************************)
WillMove(r) ==
  \/ req[r].pc = "evaluate"
  \/ call[r].pc = "find"
  \/ call[r].pc = "cas" /\ call[r].from = row.status

Undecided ==
  Present # {} /\ PendingServices = {} /\ row.status = WaitingApproval

LastDecisionMoves == Undecided => \E r \in Calls : WillMove(r)

\* From AGUARDANDO_APROVACAO both outcomes are allowed, and none leads there.
LEMMA OutcomesAllowed ==
  ASSUME NEW to \in {Approved, Canceled}
  PROVE  IsValidTransition(WaitingApproval, to) /\ to # WaitingApproval
BY DEF IsValidTransition, AllowedTransitions, WorkOrderStatuses, Received,
       InDiagnosis, WaitingApproval, Approved, InProgress, Finished,
       Delivered, Canceled

LEMMA CallWillMove ==
  ASSUME Deciding, NEW r \in Calls, TransitionToStep(r), WillMove(r),
         row.status = WaitingApproval, row'.status = WaitingApproval
  PROVE  WillMove(r)'
<1>0. TransitionTypeOK /\ HistoryInv /\ DecisionInv /\ UNCHANGED req
  BY DEF Deciding, SharedInv, HistoryInv, TransitionToStep
<1>1. CASE req[r].pc = "evaluate"
  BY <1>0, <1>1 DEF WillMove
<1>2. CASE call[r].pc = "find"
  <2>1. /\ IsValidTransition(row.status, call[r].target)
        /\ row.status # call[r].target
    BY <1>0, <1>2, OutcomesAllowed DEF DecisionInv
  <2>2. FindValid(r)
    BY <1>2, <2>1
    DEF TransitionToStep, Find, FindSame, FindInvalid, Cas, CasMatches,
        CasMisses, Recheck, Notify, NotifySent, NotifyRefused, Return
  <2>3. call'[r].pc = "cas" /\ call'[r].from = row.status
    BY <1>0, <2>2 DEF FindValid, TransitionTypeOK, CallRecords
  <2>4. QED
    BY <2>3 DEF WillMove
<1>3. CASE call[r].pc = "cas" /\ call[r].from = row.status
  <2>1. Cas(r)
    BY <1>3
    DEF TransitionToStep, Find, FindSame, FindInvalid, FindValid, CasMisses,
        Recheck, Notify, NotifySent, NotifyRefused, Return
  <2>2. row'.status = call[r].target /\ call[r].target \in {Approved, Canceled}
    BY <1>0, <1>3, <2>1, MoveFollowsTable DEF Moves, DecisionInv
  <2>3. QED
    BY <2>2, OutcomesAllowed
<1>4. QED
  BY <1>1, <1>2, <1>3 DEF WillMove

LEMMA DecisionWillMove ==
  ASSUME ~ Faults, Deciding, NEW r \in Calls, DecisionStep(r),
         PendingServices' = {}
  PROVE  \/ WillMove(r)'
         \/ UNCHANGED services /\ ~ WillMove(r)
<1>0. TransitionTypeOK /\ RestTyped
  BY DEF Deciding, SharedInv, HistoryInv
<1>1. CASE Decide(r) \/ DecideAll(r)
  <2>1. req'[r].pc = "evaluate"
    BY <1>0, <1>1, GoToTyped DEF Decide, DecideAll, Pcs
  <2>2. QED
    BY <2>1 DEF WillMove
<1>2. CASE EvaluateDecided(r)
  <2>1. call'[r].pc = "find"
    BY <1>0, <1>2 DEF EvaluateDecided, Invoke, TransitionTypeOK, CallRecords
  <2>2. QED
    BY <2>1 DEF WillMove
<1>3. ~ (EvaluatePending(r) /\ UNCHANGED services)
  BY DEF EvaluatePending, ServicesRead, PendingServices
<1>4. CASE \/ FindServiceDecided(r) \/ FindServicePending(r)
           \/ ApprovedTotal(r) \/ SaveTotal(r)
  <2>1. req[r].pc # "evaluate" /\ UNCHANGED <<call, services>>
    BY <1>4
    DEF FindServiceDecided, FindServicePending, ApprovedTotal,
        TransitionReturned, SaveTotal, WriteBack, transitionVars
  <2>2. ~ InTransition(call[r])
    BY <2>1, DecisionMoves DEF Invoke, InTransition
  <2>3. QED
    BY <2>1, <2>2 DEF WillMove, InTransition
<1>5. QED
  BY <1>1, <1>2, <1>3, <1>4 DEF DecisionStep, EvaluatePending

LEMMA LastDecisionStep ==
  ASSUME OnlyDecisions, ~ Faults, Deciding, SuccessInv, LastDecisionMoves,
         [Next]_vars
  PROVE  LastDecisionMoves'
<1> SUFFICES ASSUME Undecided'
             PROVE  \E q \in Calls : WillMove(q)'
  BY DEF LastDecisionMoves
<1>0. TransitionTypeOK /\ RestTyped /\ HistoryInv /\ DecisionInv
  BY DEF Deciding, SharedInv, HistoryInv
<1>1. row.status = WaitingApproval /\ row'.status = WaitingApproval
  <2>1. ASSUME NEW c \in Calls, Moves(c)
        PROVE  row'.status # WaitingApproval
    <3>1. row'.status = call[c].target /\ call[c].pc # "idle"
      BY <1>0, <2>1, MoveFollowsTable DEF Moves, Cas, CasReplyLost, CasMatches
    <3>2. QED
      BY <1>0, <3>1, OutcomesAllowed DEF DecisionInv
  <2>2. QED
    BY <2>1, DecisionOwnedStep, StepKindsOwned DEF Undecided
<1>2. ASSUME UNCHANGED services
      PROVE  \E q \in Calls : WillMove(q)
  BY <1>1, <1>2
  DEF Undecided, LastDecisionMoves, Present, PendingServices
<1>3. ASSUME NEW q \in Calls, WillMove(q), req'[q] = req[q], call'[q] = call[q]
      PROVE  WillMove(q)'
  BY <1>1, <1>3 DEF WillMove
<1>4. CASE UNCHANGED vars
  BY <1>2, <1>3, <1>4 DEF vars, orderVars
<1>5. ASSUME NEW r \in Calls, BeginsDecision(r),
             UNCHANGED <<transitionVars, services, budget, quotes>>
      PROVE  \E q \in Calls : WillMove(q)'
  <2>1. PICK q \in Calls : WillMove(q)
    BY <1>2, <1>5
  <2>2. PICK op \in Operations \intersect DecisionOps,
             pc \in {"findService", "decideAll"} : Begin(r, op, pc)
    BY <1>5 DEF BeginsDecision
  <2>3. req[r].pc = "idle" /\ \A p \in Calls \ {r} : req'[p] = req[p]
    BY <1>0, <2>2, BeginTyped DEF Begin, Pcs
  <2>4. UNCHANGED call /\ row'.status = row.status
    BY <1>1, <1>5 DEF transitionVars
  <2>5. CASE q = r
    BY <2>1, <2>3, <2>4, <2>5 DEF WillMove
  <2>6. CASE q # r
    BY <1>3, <2>1, <2>3, <2>4, <2>6
  <2>7. QED
    BY <2>5, <2>6
<1>6. ASSUME NEW r \in Calls, TransitionToStep(r)
      PROVE  \E q \in Calls : WillMove(q)'
  <2>1. UNCHANGED <<req, services>>
    BY <1>6 DEF TransitionToStep
  <2>2. PICK q \in Calls : WillMove(q)
    BY <1>2, <2>1
  <2>3. q # r => call'[q] = call[q]
    BY <1>0, <1>6, TransitionToOwn
  <2>4. QED
    BY <1>1, <1>3, <1>6, <2>1, <2>2, <2>3, CallWillMove
<1>7. ASSUME NEW r \in Calls, DecisionStep(r)
      PROVE  \E q \in Calls : WillMove(q)'
  <2>1. CASE WillMove(r)'
    BY <2>1
  <2>2. CASE UNCHANGED services /\ ~ WillMove(r)
    <3>1. PICK q \in Calls : WillMove(q)
      BY <1>2, <2>2
    <3>2. q # r
      BY <2>2, <3>1
    <3>3. req'[q] = req[q] /\ call'[q] = call[q]
      BY <1>0, <1>7, <3>2, DecisionMoves DEF Invoke, TransitionTypeOK
    <3>4. QED
      BY <1>3, <3>1, <3>3
  <2>3. QED
    BY <1>7, <2>1, <2>2, DecisionWillMove DEF Undecided
<1>8. ASSUME NEW r \in Calls
      PROVE  ~ Abandon(r) /\ ~ StatusReplyLost(r)
  BY DEF Abandon, StatusReplyLost, CasReplyLost
<1>9. QED
  BY <1>4, <1>5, <1>6, <1>7, <1>8, DecisionSteps DEF Next

(***************************************************************************)
(* The last decision is never lost: when no statement fails, an order with *)
(* nothing pending leaves AGUARDANDO_APROVACAO or some request is on its   *)
(* way to move it, however many customers decide at the same moment.  With *)
(* the fairness of the runs, this is why DecidedOrderMoves holds.          *)
(***************************************************************************)
THEOREM DecisionNeverLost ==
  ASSUME OnlyDecisions, ~ Faults
  PROVE  Spec => []LastDecisionMoves
<1>1. Init => LastDecisionMoves
  BY ApprovalAssumption
  DEF Init, LastDecisionMoves, Undecided, Present, PendingServices, Decisions,
      Pending
<1>2. Deciding /\ SuccessInv /\ LastDecisionMoves /\ [Next]_vars
        => LastDecisionMoves'
  BY LastDecisionStep
<1>3. QED
  BY <1>1, <1>2, SucceedingInvariant, PTL DEF Spec

-----------------------------------------------------------------------------
(***************************************************************************)
(* The total of an order all of whose services were approved.  Once no     *)
(* service is pending the approved ones no longer change; the order is     *)
(* moved only then, and whoever moves it, or finds it moved, has still to  *)
(* save the total.                                                         *)
(***************************************************************************)
Settling(r) ==
  \/ req[r].pc = "transition" /\ Succeeds(call[r])
  \/ req[r].pc = "saveTotal"

TotalSettling ==
  /\ \A s \in Services : services[s] # "REPROVADO"
  /\ \A r \in Calls : call[r].pc # "idle" => PendingServices = {}
  /\ row.status = Approved =>
       /\ PendingServices = {}
       /\ row.quote.total = ApprovedServices \/ \E r \in Calls : Settling(r)
  /\ \A r \in Calls : req[r].pc = "saveTotal" =>
       PendingServices = {} /\ local[r].total = ApprovedServices

TotalInv == NobodyRejects => TotalSettling

LEMMA BeginSettles ==
  ASSUME OnlyDecisions, Deciding, NEW r \in Calls, BeginsDecision(r),
         UNCHANGED <<transitionVars, services, budget, quotes>>,
         \/ UNCHANGED local
         \/ \E s \in Services : local' = [local EXCEPT ![r].service = {s}]
  PROVE  /\ NobodyRejects' => NobodyRejects
         /\ TotalSettling => TotalSettling'
<1>0. RestTyped
  BY DEF Deciding, SharedInv
<1>1. PICK op \in Operations \intersect DecisionOps,
           pc \in {"findService", "decideAll"} : Begin(r, op, pc)
  BY DEF BeginsDecision
<1>2. /\ req'[r].pc = pc /\ \A q \in Calls \ {r} : req'[q] = req[q]
  BY <1>0, <1>1, BeginTyped DEF Pcs
<1>3. req[r].pc = "idle" /\ req[r].op = "none"
  BY <1>1 DEF Begin, Deciding, DecisionInv
<1>4. NobodyRejects' => NobodyRejects
  BY <1>2, <1>3 DEF NobodyRejects
<1>5. \A q \in Calls : local'[q].total = local[q].total
  BY <1>0 DEF RestTyped, LocalRecords
<1>6. UNCHANGED <<row, call, services>>
  BY DEF transitionVars
<1>7. UNCHANGED <<PendingServices, ApprovedServices>>
  BY <1>6 DEF PendingServices, ApprovedServices
<1>8. \A q \in Calls : Settling(q) => Settling(q)'
  BY <1>2, <1>3, <1>6 DEF Settling
<1>9. \A q \in Calls : req'[q].pc = "saveTotal" => req[q].pc = "saveTotal"
  BY <1>2
<1>10. TotalSettling => TotalSettling'
  BY <1>5, <1>6, <1>7, <1>8, <1>9 DEF TotalSettling
<1>11. QED
  BY <1>4, <1>10

LEMMA CallSettles ==
  ASSUME ~ Faults, Deciding, TotalSettling, NEW r \in Calls,
         TransitionToStep(r)
  PROVE  TotalSettling'
<1>0. TransitionTypeOK /\ HistoryInv /\ DecisionInv
  BY DEF Deciding, SharedInv, HistoryInv
<1>1. UNCHANGED <<req, services, local, PendingServices, ApprovedServices>>
  BY DEF TransitionToStep, PendingServices, ApprovedServices
<1>2. /\ \A q \in Calls \ {r} : call'[q] = call[q]
      /\ call'[r] = call[r] \/ InTransition(call[r])
  BY <1>0, TransitionToOwn
<1>3. InTransition(call[r]) => call[r].pc # "idle"
  BY DEF InTransition
<1>4. \A q \in Calls : Settling(q) => Settling(q)'
  BY <1>0, <1>1, <1>2, CallSucceeds DEF Settling
<1>5. \A q \in Calls : call'[q].pc # "idle" => PendingServices = {}
  BY <1>2, <1>3 DEF TotalSettling
<1>6. CASE UNCHANGED row
  BY <1>1, <1>4, <1>5, <1>6 DEF TotalSettling
<1>7. CASE Moves(r)
  <2>1. Cas(r) /\ call[r].pc = "cas"
    BY <1>7 DEF Moves, CasReplyLost, Cas, CasMatches
  <2>2. req[r].pc = "transition" /\ PendingServices = {}
    BY <1>0, <2>1 DEF DecisionInv, InTransition, TotalSettling
  <2>3. call'[r].pc = "notify"
    BY <1>0, <2>1 DEF Cas, TransitionTypeOK, CallRecords
  <2>4. Settling(r)'
    BY <1>1, <2>2, <2>3 DEF Settling, Succeeds
  <2>5. QED
    BY <1>1, <1>5, <2>2, <2>4 DEF TotalSettling
<1>8. QED
  BY <1>0, <1>6, <1>7, CallSucceeds

\* When nobody rejects, a decision changes nothing once none is pending.
LEMMA DecideSettles ==
  ASSUME OnlyDecisions, Deciding, TotalSettling, NobodyRejects, NEW r \in Calls,
         NEW S, SetDecision(r, S), S \subseteq Present, req[r].pc # "idle"
  PROVE  /\ \A s \in Services : services'[s] # "REPROVADO"
         /\ PendingServices = {} => services' = services
<1>1. req[r].op # "none" /\ req[r].op \in Operations \union {"none"}
      /\ services \in [Services -> ServiceStatuses]
  BY DEF Deciding, DecisionInv, SharedInv, RestTyped, RequestRecords
<1>2. req[r].op \in {"approve", "approveAll"}
  BY <1>1 DEF OnlyDecisions, DecisionOps, NobodyRejects
<1>3. services' = [s \in Services |->
                     IF s \in S THEN "APROVADO" ELSE services[s]]
  BY <1>2 DEF SetDecision, DecisionOf
<1>4. ASSUME PendingServices = {}, NEW s \in S
      PROVE  s \in Services /\ services[s] = "APROVADO"
  BY <1>4 DEF Present, PendingServices, Decisions, TotalSettling
<1>5. QED
  BY <1>1, <1>3, <1>4 DEF TotalSettling

LEMMA StepSettles ==
  ASSUME OnlyDecisions, ~ Faults, Deciding, TotalSettling, NobodyRejects,
         NEW r \in Calls, DecisionStep(r)
  PROVE  TotalSettling'
<1>0. TransitionTypeOK /\ RestTyped /\ DecisionInv
  BY DEF Deciding, SharedInv, HistoryInv
<1>1. /\ \A q \in Calls \ {r} : req'[q] = req[q]
      /\ req[r].pc # "idle"
      /\ UNCHANGED call \/ Invoke(r, Approved) \/ Invoke(r, Canceled)
  BY DecisionMoves
<1>2. \A q \in Calls \ {r} : local'[q] = local[q]
  BY <1>0, DecisionKinds, LocalKindTyped DEF Kinds
<1>3. CASE Decide(r) \/ DecideAll(r)
  <2>1. /\ req[r].pc \in {"decide", "decideAll"} /\ GoTo(r, "evaluate")
        /\ UNCHANGED <<transitionVars, local, budget, quotes>>
    BY <1>3 DEF Decide, DecideAll
  <2>2. req'[r].pc = "evaluate"
    BY <1>0, <2>1, GoToTyped DEF Pcs
  <2>3. PICK S \in SUBSET Present : SetDecision(r, S)
    BY <1>3 DEF Decide, DecideAll, PendingServices, Present
  <2>4. /\ \A s \in Services : services'[s] # "REPROVADO"
        /\ PendingServices = {} => services' = services
    BY <1>1, <2>3, DecideSettles
  <2>5. \A q \in Calls : /\ Settling(q) => Settling(q)'
                         /\ req'[q].pc = "saveTotal" => req[q].pc = "saveTotal"
    BY <1>1, <2>1, <2>2 DEF Settling, transitionVars
  <2>6. CASE PendingServices = {}
    <3>1. UNCHANGED <<PendingServices, ApprovedServices, services, row, call,
                      local>>
      BY <2>1, <2>4, <2>6 DEF PendingServices, ApprovedServices, transitionVars
    <3>2. QED
      BY <2>4, <2>5, <3>1 DEF TotalSettling
  <2>7. CASE PendingServices # {}
    <3>1. /\ row.status # Approved
          /\ \A q \in Calls : call[q].pc = "idle" /\ req[q].pc # "saveTotal"
      BY <2>7 DEF TotalSettling
    <3>2. UNCHANGED <<row, call>>
      BY <2>1 DEF transitionVars
    <3>3. QED
      BY <2>4, <2>5, <3>1, <3>2 DEF TotalSettling
  <2>8. QED
    BY <2>6, <2>7
<1>4. ASSUME UNCHANGED services
      PROVE  UNCHANGED <<PendingServices, ApprovedServices>>
  BY <1>4 DEF PendingServices, ApprovedServices
<1>5. CASE FindServiceDecided(r) \/ FindServicePending(r) \/ EvaluatePending(r)
  <2>1. /\ req[r].pc \in {"findService", "evaluate"}
        /\ GoTo(r, "done") \/ GoTo(r, "decide")
        /\ UNCHANGED <<transitionVars, services, local>>
    BY <1>5 DEF FindServiceDecided, FindServicePending, EvaluatePending
  <2>2. req'[r].pc \in {"done", "decide"}
    BY <1>0, <2>1, GoToTyped DEF Pcs
  <2>3. \A q \in Calls : /\ Settling(q) => Settling(q)'
                         /\ req'[q].pc = "saveTotal" => req[q].pc = "saveTotal"
    BY <1>1, <2>1, <2>2 DEF Settling, transitionVars
  <2>4. UNCHANGED <<row, call, local, services, PendingServices,
                    ApprovedServices>>
    BY <1>4, <2>1 DEF transitionVars
  <2>5. QED
    BY <2>3, <2>4 DEF TotalSettling
<1>6. CASE EvaluateDecided(r)
  <2>1. /\ req[r].pc = "evaluate" /\ GoTo(r, "transition")
        /\ UNCHANGED <<services, local>>
    BY <1>6 DEF EvaluateDecided
  <2>2. PICK to \in {Approved, Canceled} : Invoke(r, to)
    BY <1>6 DEF EvaluateDecided
  <2>3. PendingServices = {}
    BY <1>6 DEF EvaluateDecided, ServicesRead, PendingServices, Present
  <2>4. req'[r].pc = "transition"
    BY <1>0, <2>1, GoToTyped DEF Pcs
  <2>5. \A q \in Calls \ {r} : call'[q] = call[q]
    BY <1>0, <2>2 DEF Invoke, TransitionTypeOK
  <2>6. \A q \in Calls : /\ Settling(q) => Settling(q)'
                         /\ req'[q].pc = "saveTotal" => req[q].pc = "saveTotal"
    BY <1>1, <2>1, <2>4, <2>5 DEF Settling
  <2>7. UNCHANGED <<row, services, local, PendingServices, ApprovedServices>>
    BY <1>4, <2>1, <2>2 DEF Invoke
  <2>8. QED
    BY <2>3, <2>6, <2>7 DEF TotalSettling
<1>7. CASE ApprovedTotal(r)
  <2>1. /\ req[r].pc = "transition" /\ call[r].pc = "done"
        /\ UNCHANGED <<transitionVars, services>>
    BY <1>7 DEF ApprovedTotal, TransitionReturned
  <2>2. HoldsOn(r, "saveTotal", call[r].order) /\ call[r].order \in Rows
    BY <1>0, <1>7 DEF ApprovedTotal, HoldsOn, TransitionTypeOK, CallRecords
  <2>3. req'[r].pc = "saveTotal"
    BY <1>0, <2>2, KeepsTyped DEF Pcs
  <2>4. local'[r].total = ApprovedServices
    BY <1>0, <1>7 DEF ApprovedTotal, RestTyped, LocalRecords
  <2>5. PendingServices = {}
    BY <2>1 DEF TotalSettling
  <2>6. \A q \in Calls : Settling(q) => Settling(q)'
    BY <1>1, <2>1, <2>3 DEF Settling, transitionVars
  <2>7. UNCHANGED <<row, call, services, PendingServices, ApprovedServices>>
    BY <1>4, <2>1 DEF transitionVars
  <2>8. QED
    BY <1>1, <1>2, <2>4, <2>5, <2>6, <2>7 DEF TotalSettling
<1>8. CASE SaveTotal(r)
  <2>1. /\ req[r].pc = "saveTotal" /\ req'[r].pc = "done"
        /\ row'.quote.total = local[r].total
        /\ UNCHANGED <<call, services, local>>
    <3>1. req[r].wo \in Rows /\ local[r].total \in SUBSET Services
      BY <1>0 DEF RestTyped, RequestRecords, LocalRecords
    <3>2. row' = [req[r].wo EXCEPT !.quote.total = local[r].total]
      BY <1>8 DEF SaveTotal, WriteBack
    <3>3. row'.quote.total = local[r].total
      BY <3>1, <3>2, QuoteWritten
    <3>4. req'[r].pc = "done"
      BY <1>0, <1>8, GoToTyped DEF SaveTotal, Pcs
    <3>5. QED
      BY <1>8, <3>3, <3>4 DEF SaveTotal, WriteBack
  <2>2. PendingServices = {} /\ local[r].total = ApprovedServices
    BY <2>1 DEF TotalSettling
  <2>3. UNCHANGED <<PendingServices, ApprovedServices>>
    BY <1>4, <2>1
  <2>4. \A q \in Calls : req'[q].pc = "saveTotal" => req[q].pc = "saveTotal"
    BY <1>1, <2>1
  <2>5. QED
    BY <2>1, <2>2, <2>3, <2>4 DEF TotalSettling
<1>9. QED
  BY <1>3, <1>5, <1>6, <1>7, <1>8 DEF DecisionStep

LEMMA TotalInvStep ==
  ASSUME OnlyDecisions, ~ Faults, Deciding, TotalInv, [Next]_vars
  PROVE  TotalInv'
<1>0. RestTyped
  BY DEF Deciding, SharedInv
<1>1. CASE UNCHANGED vars
  BY <1>1 DEF vars, orderVars, transitionVars, TotalInv, NobodyRejects, TotalSettling, Settling,
              PendingServices, ApprovedServices
<1>2. ASSUME NEW r \in Calls, TransitionToStep(r)
      PROVE  TotalInv'
  BY <1>2, CallSettles DEF TransitionToStep, TotalInv, NobodyRejects
<1>3. ASSUME NEW r \in Calls, DecisionStep(r)
      PROVE  TotalInv'
  <2>1. NobodyRejects' => NobodyRejects
    BY <1>3, DecisionMoves DEF NobodyRejects
  <2>2. QED
    BY <1>3, <2>1, StepSettles DEF TotalInv
<1>4. ASSUME NEW r \in Calls
      PROVE  ~ Abandon(r) /\ ~ StatusReplyLost(r)
  BY DEF Abandon, StatusReplyLost, CasReplyLost
<1>5. QED
  BY <1>1, <1>2, <1>3, <1>4, DecisionSteps, BeginSettles DEF Next, TotalInv

(***************************************************************************)
(* When only customers decide, none rejects and no statement fails, the    *)
(* order that is approved is left with the total of all its approved       *)
(* services, whichever of the customers' requests saved its total last.    *)
(***************************************************************************)
THEOREM ApprovedTotalAlwaysSettles ==
  ASSUME OnlyDecisions, ~ Faults, Approved \notin InitialStatuses
  PROVE  Spec => []ApprovedTotalSettles
<1>1. Init => TotalInv
  BY DEF Init, OrderInit, TransitionInit, FirstRow, IdleCall, IdleRequest,
         TotalInv, TotalSettling, Pending
<1>2. Deciding /\ TotalInv /\ [Next]_vars => TotalInv'
  BY TotalInvStep
<1>3. Deciding /\ TotalInv => ApprovedTotalSettles
  <2> SUFFICES ASSUME TotalSettling, row.status = Approved,
                      \A r \in Calls : req[r].pc = "idle" \/ Answered(r)
               PROVE  row.quote.total = ApprovedServices
    BY DEF TotalInv, ApprovedTotalSettles
  <2>1. \A r \in Calls : ~ Settling(r)
    BY DEF Settling, Succeeds, Answered
  <2>2. QED
    BY <2>1 DEF TotalSettling
<1>4. QED
  BY <1>1, <1>2, <1>3, DecidingInvariant, PTL DEF Spec
=============================================================================
