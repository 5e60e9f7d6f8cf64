------------------------ MODULE ServiceExecutionProofs ------------------------
(***************************************************************************)
(* Theorems about ServiceExecution, for any number of requests, services   *)
(* and supplies: the handlers of this phase use the order's row as         *)
(* StatusTransition allows, the stock accounts for what they take, which   *)
(* is only for finished services, the last finish is not lost, and what a  *)
(* customer is shown meanwhile fits together.                              *)
(***************************************************************************)
EXTENDS ServiceExecution, StatusTransitionProofs, SumsProofs

-----------------------------------------------------------------------------
(***************************************************************************)
(* The steps of a request.                                                 *)
(***************************************************************************)
Pcs == {"idle", "transition", "editRead", "editWrite", "findService",
        "checkOrder", "checkStock", "markStarted", "markFinished", "deduct",
        "checkServices", "findByCode", "checkDocument", "listServices",
        "shown", "done"}

RequestRecords == [op : Operations \union {"none"}, pc : Pcs, wo : Rows]

ExecStatuses == {Pending, Running, Done}

LocalRecords == [service : SUBSET Services, found : ExecStatuses]

LEMMA TypeParts ==
  TypeOK <=> /\ TransitionTypeOK
             /\ req \in [Calls -> RequestRecords]
             /\ exec \in [Services -> ExecStatuses]
             /\ stock \in [Supplies -> Int]
             /\ local \in [Calls -> LocalRecords]
             /\ deducted \in [Services -> Nat]
BY DEF TypeOK, RequestRecords, Pcs, LocalRecords, ExecStatuses

\* Which handler a request runs shows in its place in the code.
PlaceFits(pc, op) ==
  /\ pc \in {"findService", "checkOrder"} => op \in {"start", "finalize"}
  /\ pc \in {"checkStock", "markStarted"} => op = "start"
  /\ pc \in {"markFinished", "deduct", "checkServices"} => op = "finalize"
  /\ pc \in {"findByCode", "checkDocument", "listServices", "shown"} =>
       op = "track"
  /\ pc = "editWrite" => op = "put"
  /\ pc = "idle" => op = "none"

Places == \A r \in Calls : PlaceFits(req[r].pc, req[r].op)

\* A request of a mechanic is about one service.
AboutOne ==
  \A r \in Calls :
    req[r].op \in {"start", "finalize"} =>
      \E s \in Services : local[r].service = {s}

LEMMA TheService ==
  ASSUME NEW r, NEW s \in Services, local[r].service = {s}
  PROVE  Service(r) = s
BY DEF Service

\* The record of r moves on; the others stay.
LEMMA GoToTyped ==
  ASSUME req \in [Calls -> RequestRecords], NEW r \in Calls, NEW pc \in Pcs,
         GoTo(r, pc)
  PROVE  /\ req' \in [Calls -> RequestRecords]
         /\ req'[r].pc = pc /\ req'[r].op = req[r].op /\ req'[r].wo = req[r].wo
         /\ \A q \in Calls \ {r} : req'[q] = req[q]
<1>1. req[r] \in RequestRecords
  OBVIOUS
<1>2. [req[r] EXCEPT !.pc = pc] \in RequestRecords
  BY <1>1 DEF RequestRecords
<1>3. req' = [req EXCEPT ![r] = [req[r] EXCEPT !.pc = pc]]
  BY DEF GoTo
<1>4. req'[r] = [req[r] EXCEPT !.pc = pc]
  BY <1>3
<1>5. QED
  BY <1>1, <1>2, <1>3, <1>4 DEF RequestRecords

LEMMA BeginTyped ==
  ASSUME req \in [Calls -> RequestRecords], NEW r \in Calls, NEW pc \in Pcs,
         NEW op \in Operations, Begin(r, op, pc)
  PROVE  /\ req' \in [Calls -> RequestRecords]
         /\ req'[r].pc = pc /\ req'[r].op = op
         /\ \A q \in Calls \ {r} : req'[q] = req[q]
<1>1. req[r] \in RequestRecords
  OBVIOUS
<1>2. [req[r] EXCEPT !.op = op, !.pc = pc] \in RequestRecords
  BY <1>1 DEF RequestRecords
<1>3. req' = [req EXCEPT ![r] = [req[r] EXCEPT !.op = op, !.pc = pc]]
  BY DEF Begin
<1>4. req'[r] = [req[r] EXCEPT !.op = op, !.pc = pc]
  BY <1>3
<1>5. QED
  BY <1>1, <1>2, <1>3, <1>4 DEF RequestRecords

\* A request has read the order and keeps the row.
LEMMA ReadTyped ==
  ASSUME req \in [Calls -> RequestRecords], row \in Rows, NEW r \in Calls,
         NEW pc \in Pcs, req' = [req EXCEPT ![r].pc = pc, ![r].wo = row]
  PROVE  /\ req' \in [Calls -> RequestRecords]
         /\ req'[r].pc = pc /\ req'[r].op = req[r].op /\ req'[r].wo = row
         /\ \A q \in Calls \ {r} : req'[q] = req[q]
<1>1. req[r] \in RequestRecords
  OBVIOUS
<1>2. [req[r] EXCEPT !.pc = pc, !.wo = row] \in RequestRecords
  BY <1>1 DEF RequestRecords
<1>3. req' = [req EXCEPT ![r] = [req[r] EXCEPT !.pc = pc, !.wo = row]]
  OBVIOUS
<1>4. req'[r] = [req[r] EXCEPT !.pc = pc, !.wo = row]
  BY <1>3
<1>5. QED
  BY <1>1, <1>2, <1>3, <1>4 DEF RequestRecords

LEMMA LocalServiceTyped ==
  ASSUME local \in [Calls -> LocalRecords], NEW r \in Calls,
         NEW S \in SUBSET Services, local' = [local EXCEPT ![r].service = S]
  PROVE  /\ local' \in [Calls -> LocalRecords]
         /\ local'[r].service = S
         /\ \A q \in Calls \ {r} : local'[q] = local[q]
<1>1. local[r] \in LocalRecords
  OBVIOUS
<1>2. [local[r] EXCEPT !.service = S] \in LocalRecords
  BY <1>1 DEF LocalRecords
<1>3. local' = [local EXCEPT ![r] = [local[r] EXCEPT !.service = S]]
  OBVIOUS
<1>4. local'[r] = [local[r] EXCEPT !.service = S]
  BY <1>3
<1>5. QED
  BY <1>1, <1>2, <1>3, <1>4 DEF LocalRecords

LEMMA LocalFoundTyped ==
  ASSUME local \in [Calls -> LocalRecords], NEW r \in Calls,
         NEW f \in ExecStatuses, local' = [local EXCEPT ![r].found = f]
  PROVE  /\ local' \in [Calls -> LocalRecords]
         /\ local'[r].service = local[r].service /\ local'[r].found = f
         /\ \A q \in Calls \ {r} : local'[q] = local[q]
<1>1. local[r] \in LocalRecords
  OBVIOUS
<1>2. [local[r] EXCEPT !.found = f] \in LocalRecords
  BY <1>1 DEF LocalRecords
<1>3. local' = [local EXCEPT ![r] = [local[r] EXCEPT !.found = f]]
  OBVIOUS
<1>4. local'[r] = [local[r] EXCEPT !.found = f]
  BY <1>3
<1>5. QED
  BY <1>1, <1>2, <1>3, <1>4 DEF LocalRecords

-----------------------------------------------------------------------------
(***************************************************************************)
(* Types, places and services of the requests.                             *)
(***************************************************************************)
RestTyped ==
  /\ req \in [Calls -> RequestRecords]
  /\ exec \in [Services -> ExecStatuses]
  /\ stock \in [Supplies -> Int]
  /\ local \in [Calls -> LocalRecords]
  /\ deducted \in [Services -> Nat]

RequestInv == RestTyped /\ Places /\ AboutOne

LEMMA RequestInvInit == Init => RequestInv
BY NoOrderType, ExecutionAssumption
DEF Init, OrderInit, RequestInv, RestTyped, Places, PlaceFits, AboutOne,
    IdleRequest, RequestRecords, Pcs, LocalRecords, ExecStatuses

\* A step of r that leaves its service alone.
LEMMA GoToKeeps ==
  ASSUME RequestInv, NEW r \in Calls, NEW pc \in Pcs, GoTo(r, pc),
         PlaceFits(pc, req[r].op),
         exec' \in [Services -> ExecStatuses], stock' \in [Supplies -> Int],
         deducted' \in [Services -> Nat], UNCHANGED local
  PROVE  RequestInv'
<1>1. /\ req' \in [Calls -> RequestRecords]
      /\ req'[r].pc = pc /\ req'[r].op = req[r].op
      /\ \A q \in Calls \ {r} : req'[q] = req[q]
  BY GoToTyped DEF RequestInv, RestTyped
<1>2. RestTyped'
  BY <1>1 DEF RequestInv, RestTyped
<1>3. Places'
  BY <1>1 DEF RequestInv, Places
<1>4. AboutOne'
  BY <1>1 DEF RequestInv, AboutOne
<1>5. QED
  BY <1>2, <1>3, <1>4 DEF RequestInv

LEMMA GoToAlone ==
  ASSUME RequestInv, NEW r \in Calls, NEW pc \in Pcs, GoTo(r, pc),
         PlaceFits(pc, req[r].op), UNCHANGED execVars
  PROVE  RequestInv'
BY GoToKeeps DEF RequestInv, RestTyped, execVars

LEMMA BeginKeeps ==
  ASSUME RequestInv, NEW r \in Calls, NEW pc \in Pcs, NEW op \in Operations,
         Begin(r, op, pc), PlaceFits(pc, op),
         \/ UNCHANGED local /\ op \notin {"start", "finalize"}
         \/ \E s \in Services : local' = [local EXCEPT ![r].service = {s}],
         UNCHANGED <<exec, stock, deducted>>
  PROVE  RequestInv'
<1>1. /\ req' \in [Calls -> RequestRecords]
      /\ req'[r].pc = pc /\ req'[r].op = op
      /\ \A q \in Calls \ {r} : req'[q] = req[q]
  BY BeginTyped DEF RequestInv, RestTyped
<1>2. /\ local' \in [Calls -> LocalRecords]
      /\ \A q \in Calls \ {r} : local'[q] = local[q]
      /\ op \in {"start", "finalize"} =>
           \E s \in Services : local'[r].service = {s}
  <2>1. CASE UNCHANGED local /\ op \notin {"start", "finalize"}
    BY <2>1 DEF RequestInv, RestTyped
  <2>2. ASSUME NEW s \in Services,
               local' = [local EXCEPT ![r].service = {s}]
        PROVE  /\ local' \in [Calls -> LocalRecords]
               /\ local'[r].service = {s}
               /\ \A q \in Calls \ {r} : local'[q] = local[q]
    <3>1. {s} \in SUBSET Services
      OBVIOUS
    <3>2. QED
      BY <2>2, <3>1, LocalServiceTyped DEF RequestInv, RestTyped
  <2>3. QED
    BY <2>1, <2>2
<1>3. RestTyped'
  BY <1>1, <1>2 DEF RequestInv, RestTyped
<1>4. Places'
  BY <1>1 DEF RequestInv, Places
<1>5. AboutOne'
  BY <1>1, <1>2 DEF RequestInv, AboutOne
<1>6. QED
  BY <1>3, <1>4, <1>5 DEF RequestInv

LEMMA BeginsKeep ==
  ASSUME RequestInv, NEW r \in Calls, BeginRequest(r)
  PROVE  RequestInv'
<1>1. ASSUME NEW to, "put" \in Operations, BeginPutFields(r) \/ BeginPut(r, to),
             UNCHANGED execVars
      PROVE  RequestInv'
  BY <1>1, BeginKeeps DEF BeginPutFields, BeginPut, PlaceFits, Pcs, execVars
<1>2. ASSUME NEW s \in Services, BeginStart(r, s) \/ BeginFinalize(r, s)
      PROVE  RequestInv'
  BY <1>2, BeginKeeps DEF BeginStart, BeginFinalize, Allow, PlaceFits, Pcs
<1>3. CASE BeginTrack(r)
  BY <1>3, BeginKeeps DEF BeginTrack, PlaceFits, Pcs, execVars
<1>4. QED
  BY <1>1, <1>2, <1>3 DEF BeginRequest

\* What a request of a mechanic does to its service, once it is known which.
LEMMA MarksKeep ==
  ASSUME RequestInv, NEW r \in Calls,
         MarkStarted(r) \/ MarkFinished(r) \/ Deduct(r)
  PROVE  RequestInv'
<1>1. CASE MarkStarted(r)
  <2>1. exec' \in [Services -> ExecStatuses]
    BY <1>1 DEF MarkStarted, RequestInv, RestTyped, ExecStatuses
  <2>2. GoTo(r, "done") /\ UNCHANGED <<stock, local, deducted>>
    BY <1>1 DEF MarkStarted
  <2>3. QED
    BY <2>1, <2>2, GoToKeeps DEF RequestInv, RestTyped, Pcs, PlaceFits
<1>2. CASE MarkFinished(r)
  <2>1. exec' \in [Services -> ExecStatuses]
    BY <1>2 DEF MarkFinished, RequestInv, RestTyped, ExecStatuses
  <2>2. GoTo(r, "deduct") /\ UNCHANGED <<stock, local, deducted>>
    BY <1>2 DEF MarkFinished
  <2>3. req[r].op = "finalize"
    BY <1>2 DEF MarkFinished, RequestInv, Places, PlaceFits
  <2>4. QED
    BY <2>1, <2>2, <2>3, GoToKeeps DEF RequestInv, RestTyped, Pcs, PlaceFits
<1>3. CASE Deduct(r)
  <2>1. req[r].op = "finalize"
    BY <1>3 DEF Deduct, RequestInv, Places, PlaceFits
  <2>2. PICK s \in Services : Service(r) = s
    BY <2>1, TheService DEF RequestInv, AboutOne
  <2>3. stock' = [p \in Supplies |-> stock[p] - Needs[s][p]]
    BY <1>3, <2>2 DEF Deduct
  <2>4. stock' \in [Supplies -> Int]
    BY <2>3, ExecutionAssumption DEF RequestInv, RestTyped
  <2>5. deducted' \in [Services -> Nat]
    <3>1. deducted' = [deducted EXCEPT ![s] = deducted[s] + 1]
      BY <1>3, <2>2 DEF Deduct
    <3>2. deducted[s] + 1 \in Nat
      BY DEF RequestInv, RestTyped
    <3>3. QED
      BY <3>1, <3>2 DEF RequestInv, RestTyped
  <2>6. GoTo(r, "checkServices") /\ UNCHANGED <<exec, local>>
    BY <1>3 DEF Deduct
  <2>7. QED
    BY <2>1, <2>4, <2>5, <2>6, GoToKeeps
    DEF RequestInv, RestTyped, Pcs, PlaceFits
<1>4. QED
  BY <1>1, <1>2, <1>3

LEMMA ReadKeeps ==
  ASSUME RequestInv, row \in Rows, NEW r \in Calls, NEW pc \in Pcs,
         req' = [req EXCEPT ![r].pc = pc, ![r].wo = row],
         PlaceFits(pc, req[r].op), UNCHANGED execVars
  PROVE  RequestInv'
<1>1. /\ req' \in [Calls -> RequestRecords]
      /\ req'[r].pc = pc /\ req'[r].op = req[r].op
      /\ \A q \in Calls \ {r} : req'[q] = req[q]
  BY ReadTyped DEF RequestInv, RestTyped
<1>2. RestTyped'
  BY <1>1 DEF RequestInv, RestTyped, execVars
<1>3. Places'
  BY <1>1 DEF RequestInv, Places
<1>4. AboutOne'
  BY <1>1 DEF RequestInv, AboutOne, execVars
<1>5. QED
  BY <1>2, <1>3, <1>4 DEF RequestInv

LEMMA TracksKeep ==
  ASSUME RequestInv, row \in Rows, NEW r \in Calls,
         TrackReads(r) \/ CheckDocument(r)
  PROVE  RequestInv'
<1>0. req[r].op = "track"
  BY DEF TrackReads, CheckDocument, RequestInv, Places, PlaceFits
<1>1. CASE FindByCode(r, "checkDocument")
  BY <1>0, <1>1, ReadKeeps DEF FindByCode, Pcs, PlaceFits
<1>2. CASE ListServices(r, "shown")
  <2>1. PICK S \in SUBSET Services : local' = [local EXCEPT ![r].service = S]
    BY <1>2 DEF ListServices, ServicesRead
  <2>2. /\ local' \in [Calls -> LocalRecords]
        /\ \A q \in Calls \ {r} : local'[q] = local[q]
    BY <2>1, LocalServiceTyped DEF RequestInv, RestTyped
  <2>3. /\ req' \in [Calls -> RequestRecords]
        /\ req'[r].pc = "shown" /\ req'[r].op = "track"
        /\ \A q \in Calls \ {r} : req'[q] = req[q]
    BY <1>0, <1>2, GoToTyped DEF ListServices, RequestInv, RestTyped, Pcs
  <2>4. RestTyped'
    BY <1>2, <2>2, <2>3 DEF ListServices, RequestInv, RestTyped
  <2>5. Places'
    BY <2>3 DEF RequestInv, Places, PlaceFits
  <2>6. AboutOne'
    BY <2>2, <2>3 DEF RequestInv, AboutOne
  <2>7. QED
    BY <2>4, <2>5, <2>6 DEF RequestInv
<1>3. CASE CheckDocument(r)
  BY <1>0, <1>3, GoToAlone DEF CheckDocument, Pcs, PlaceFits
<1>4. QED
  BY <1>1, <1>2, <1>3 DEF TrackReads

LEMMA FindKeeps ==
  ASSUME RequestInv, NEW r \in Calls, FindService(r)
  PROVE  RequestInv'
<1>1. req[r].op \in {"start", "finalize"}
  BY DEF FindService, RequestInv, Places, PlaceFits
<1>2. PICK s \in Services : local[r].service = {s}
  BY <1>1 DEF RequestInv, AboutOne
<1>3. local' = [local EXCEPT ![r].found = exec[s]]
  BY <1>2, TheService DEF FindService
<1>4. exec[s] \in ExecStatuses
  BY DEF RequestInv, RestTyped
<1>5. /\ local' \in [Calls -> LocalRecords]
      /\ local'[r].service = local[r].service
      /\ \A q \in Calls \ {r} : local'[q] = local[q]
  BY <1>3, <1>4, LocalFoundTyped DEF RequestInv, RestTyped
<1>6. /\ req' \in [Calls -> RequestRecords]
      /\ req'[r].pc = "checkOrder" /\ req'[r].op = req[r].op
      /\ \A q \in Calls \ {r} : req'[q] = req[q]
  BY GoToTyped DEF FindService, RequestInv, RestTyped, Pcs
<1>7. RestTyped'
  BY <1>5, <1>6 DEF FindService, RequestInv, RestTyped
<1>8. Places'
  BY <1>1, <1>6 DEF RequestInv, Places, PlaceFits
<1>9. AboutOne'
  BY <1>5, <1>6 DEF RequestInv, AboutOne
<1>10. QED
  BY <1>7, <1>8, <1>9 DEF RequestInv

\* The steps that decide where the handler goes on.
LEMMA ChecksKeep ==
  ASSUME RequestInv, NEW r \in Calls,
         \/ StartCheck(r) \/ StartStock(r) \/ FinalizeCheck(r)
         \/ ServicesLeft(r) \/ NoServiceLeft(r) \/ FinalizeReturns(r)
  PROVE  RequestInv'
<1>1. CASE StartCheck(r)
  BY <1>1, GoToAlone DEF StartCheck, Pcs, PlaceFits
<1>2. CASE StartStock(r)
  <2>1. req[r].op = "start"
    BY <1>2 DEF StartStock, RequestInv, Places, PlaceFits
  <2>2. QED
    BY <1>2, <2>1, GoToAlone DEF StartStock, Pcs, PlaceFits
<1>3. CASE FinalizeCheck(r)
  BY <1>3, GoToAlone DEF FinalizeCheck, Pcs, PlaceFits
<1>4. CASE ServicesLeft(r) \/ NoServiceLeft(r) \/ FinalizeReturns(r)
  BY <1>4, GoToAlone
  DEF ServicesLeft, NoServiceLeft, FinalizeReturns, Pcs, PlaceFits
<1>5. QED
  BY <1>1, <1>2, <1>3, <1>4

LEMMA PutKeeps ==
  ASSUME RequestInv, row \in Rows, NEW r \in Calls, PutStep(r),
         UNCHANGED execVars
  PROVE  RequestInv'
<1>1. CASE EditRead(r)
  BY <1>1, ReadKeeps DEF EditRead, Pcs, PlaceFits
<1>2. CASE EditWrite(r)
  BY <1>2, GoToAlone DEF EditWrite, Pcs, PlaceFits
<1>3. QED
  BY <1>1, <1>2 DEF PutStep

LEMMA RequestInvStep ==
  ASSUME RequestInv, row \in Rows, [Next]_vars
  PROVE  RequestInv'
<1>1. ASSUME UNCHANGED <<req, execVars>>
      PROVE  RequestInv'
  BY <1>1 DEF RequestInv, RestTyped, Places, AboutOne, execVars
<1>2. ASSUME NEW r \in Calls, RequestStep(r)
      PROVE  RequestInv'
  BY <1>1, <1>2, PutKeeps, FindKeeps, ChecksKeep, MarksKeep, TracksKeep
  DEF RequestStep
<1>3. ASSUME NEW r \in Calls, Abandon(r)
      PROVE  RequestInv'
  BY <1>3, GoToAlone DEF Abandon, Pcs, PlaceFits
<1>4. QED
  BY <1>1, <1>2, <1>3, BeginsKeep
  DEF Next, StatusReplyLost, vars, orderVars

-----------------------------------------------------------------------------
(***************************************************************************)
(* The order's row: a handler that will write the order back holds a       *)
(* status and timestamps that the row has had, as a row never forgets      *)
(* its past.                                                               *)
(***************************************************************************)
WriteBacks ==
  \A r \in Calls : req[r].pc = "editWrite" => Progress(req[r].wo) \in past

SharedInv == HistoryInv /\ RequestInv /\ WriteBacks

LEMMA WriteIsOther ==
  ASSUME SharedInv, NEW r \in Calls, EditWrite(r)
  PROVE  OtherWrite
<1>1. req[r].wo \in Rows /\ Progress(req[r].wo) \in past
  BY DEF EditWrite, SharedInv, RequestInv, RestTyped, RequestRecords, WriteBacks
<1>2. QED
  BY <1>1 DEF EditWrite, WriteBack, OtherWrite

LEMMA AbandonIsFail ==
  ASSUME SharedInv, NEW r \in Calls, Abandon(r)
  PROVE  Fail(r) \/ UNCHANGED transitionVars
<1>1. call \in [Calls -> CallRecords]
  BY DEF SharedInv, HistoryInv, TransitionTypeOK
<1>2. CASE call[r].pc \in {"idle", "done"}
  <2>1. call' = [call EXCEPT ![r] = call[r]]
    BY <1>2 DEF Abandon
  <2>2. QED
    BY <1>1, <2>1 DEF Abandon, transitionVars
<1>3. CASE call[r].pc \notin {"idle", "done"}
  <2>1. call' = [call EXCEPT ![r] = [call[r] EXCEPT !.pc = "done",
                                                    !.result = "error"]]
    BY <1>3 DEF Abandon
  <2>2. call[r].pc \in {"find", "cas", "recheck", "notify", "return"}
    BY <1>1, <1>3 DEF CallRecords
  <2>3. QED
    BY <2>1, <2>2 DEF Abandon, Fail
<1>4. QED
  BY <1>2, <1>3

\* To the row every step is one of TransitionTo, or the write of a PUT.
LEMMA StepsOnRow ==
  ASSUME SharedInv, [Next]_vars
  PROVE  [TransitionNext]_transitionVars \/ \E r \in Calls : EditWrite(r)
<1>1. ASSUME NEW r \in Calls, BeginRequest(r)
      PROVE  [TransitionNext]_transitionVars
  <2>1. ASSUME NEW to \in WorkOrderStatuses, BeginPut(r, to)
        PROVE  TransitionNext
    BY <2>1 DEF BeginPut, TransitionNext
  <2>2. QED
    BY <1>1, <2>1
    DEF BeginRequest, BeginPutFields, BeginStart, BeginFinalize, BeginTrack
<1>2. ASSUME NEW r \in Calls, RequestStep(r)
      PROVE  [TransitionNext]_transitionVars \/ EditWrite(r)
  <2>1. CASE TransitionStep(r)
    BY <2>1 DEF TransitionNext
  <2>2. CASE PutStep(r)
    BY <2>2 DEF PutStep, EditRead
  <2>3. CASE NoServiceLeft(r)
    <3>1. Finished \in WorkOrderStatuses
      BY DEF Finished, WorkOrderStatuses
    <3>2. QED
      BY <2>3, <3>1 DEF NoServiceLeft, TransitionNext
  <2>4. CASE \/ FindService(r) \/ StartCheck(r) \/ StartStock(r)
             \/ MarkStarted(r) \/ FinalizeCheck(r) \/ MarkFinished(r)
    BY <2>4 DEF FindService, StartCheck, StartStock, MarkStarted,
                FinalizeCheck, MarkFinished
  <2>5. CASE \/ Deduct(r) \/ ServicesLeft(r) \/ FinalizeReturns(r)
             \/ TrackReads(r) \/ CheckDocument(r)
    BY <2>5 DEF Deduct, ServicesLeft, FinalizeReturns, TrackReads,
                FindByCode, ListServices, CheckDocument
  <2>6. QED
    BY <1>2, <2>1, <2>2, <2>3, <2>4, <2>5 DEF RequestStep
<1>3. ASSUME NEW r \in Calls, Abandon(r)
      PROVE  [TransitionNext]_transitionVars
  BY <1>3, AbandonIsFail DEF TransitionNext
<1>4. ASSUME NEW r \in Calls, StatusReplyLost(r)
      PROVE  TransitionNext
  BY <1>4 DEF StatusReplyLost, TransitionNext
<1>5. CASE UNCHANGED vars
  BY <1>5 DEF vars, orderVars, transitionVars
<1>6. QED
  BY <1>1, <1>2, <1>3, <1>4, <1>5 DEF Next

LEMMA SharedStep ==
  ASSUME SharedInv, [Next]_vars
  PROVE  [SharedNext]_transitionVars
BY StepsOnRow, WriteIsOther DEF SharedNext

\* Only EditRead leaves a request about to write, and with the row as it is.
LEMMA WritersRead ==
  ASSUME RequestInv, row \in Rows, [Next]_vars, NEW q \in Calls,
         req'[q].pc = "editWrite"
  PROVE  \/ req[q].pc = "editWrite" /\ req'[q].wo = req[q].wo
         \/ req'[q].wo = row /\ UNCHANGED transitionVars
<1>0. req \in [Calls -> RequestRecords]
  BY DEF RequestInv, RestTyped
<1>1. ASSUME NEW r \in Calls, NEW pc \in Pcs \ {"editWrite"}, GoTo(r, pc)
      PROVE  req[q].pc = "editWrite" /\ req'[q].wo = req[q].wo
  BY <1>0, <1>1, GoToTyped
<1>2. ASSUME NEW r \in Calls, NEW pc \in Pcs \ {"editWrite"},
             NEW op \in Operations, Begin(r, op, pc)
      PROVE  req[q].pc = "editWrite" /\ req'[q].wo = req[q].wo
  BY <1>0, <1>2, BeginTyped
<1>3. ASSUME NEW r \in Calls, NEW pc \in Pcs,
             req' = [req EXCEPT ![r].pc = pc, ![r].wo = row],
             pc # "editWrite" \/ UNCHANGED transitionVars
      PROVE  \/ req[q].pc = "editWrite" /\ req'[q].wo = req[q].wo
             \/ req'[q].wo = row /\ UNCHANGED transitionVars
  BY <1>0, <1>3, ReadTyped
<1>4. ASSUME UNCHANGED req
      PROVE  req[q].pc = "editWrite" /\ req'[q].wo = req[q].wo
  BY <1>4
<1>5. ASSUME NEW r \in Calls, BeginRequest(r)
      PROVE  req[q].pc = "editWrite" /\ req'[q].wo = req[q].wo
  <2>1. ASSUME "put" \in Operations, NEW to,
               BeginPutFields(r) \/ BeginPut(r, to)
        PROVE  req[q].pc = "editWrite" /\ req'[q].wo = req[q].wo
    BY <1>2, <2>1 DEF BeginPutFields, BeginPut, Pcs
  <2>2. ASSUME NEW s \in Services, BeginStart(r, s) \/ BeginFinalize(r, s)
        PROVE  req[q].pc = "editWrite" /\ req'[q].wo = req[q].wo
    BY <1>2, <2>2 DEF BeginStart, BeginFinalize, Allow, Pcs
  <2>3. CASE BeginTrack(r)
    BY <1>2, <2>3 DEF BeginTrack, Pcs
  <2>4. QED
    BY <1>5, <2>1, <2>2, <2>3 DEF BeginRequest
<1>6. ASSUME NEW r \in Calls, RequestStep(r)
      PROVE  \/ req[q].pc = "editWrite" /\ req'[q].wo = req[q].wo
             \/ req'[q].wo = row /\ UNCHANGED transitionVars
  <2>1. CASE UNCHANGED req
    BY <1>4, <2>1
  <2>2. CASE PutStep(r)
    BY <1>1, <1>3, <2>2 DEF PutStep, EditRead, EditWrite, Pcs
  <2>3. CASE \/ FindService(r) \/ StartCheck(r) \/ StartStock(r)
             \/ MarkStarted(r) \/ FinalizeCheck(r) \/ MarkFinished(r)
    BY <1>1, <2>3 DEF FindService, StartCheck, StartStock, MarkStarted,
                      FinalizeCheck, MarkFinished, Pcs
  <2>4. CASE \/ Deduct(r) \/ ServicesLeft(r) \/ NoServiceLeft(r)
             \/ FinalizeReturns(r) \/ CheckDocument(r)
    BY <1>1, <2>4 DEF Deduct, ServicesLeft, NoServiceLeft, FinalizeReturns,
                      CheckDocument, Pcs
  <2>5. CASE TrackReads(r)
    BY <1>1, <1>3, <2>5 DEF TrackReads, FindByCode, ListServices, Pcs
  <2>6. QED
    BY <1>6, <2>1, <2>2, <2>3, <2>4, <2>5 DEF RequestStep
<1>7. ASSUME NEW r \in Calls, Abandon(r)
      PROVE  req[q].pc = "editWrite" /\ req'[q].wo = req[q].wo
  BY <1>1, <1>7 DEF Abandon, Pcs
<1>8. QED
  BY <1>4, <1>5, <1>6, <1>7 DEF Next, StatusReplyLost, vars, orderVars

LEMMA SharedInvStep ==
  SharedInv /\ [Next]_vars => SharedInv'
<1> SUFFICES ASSUME SharedInv, [Next]_vars PROVE SharedInv'
  OBVIOUS
<1>1. [SharedNext]_transitionVars
  BY SharedStep
<1>2. HistoryInv'
  BY <1>1, TypeStep, CasIsAllowedStep, PastInvStep DEF SharedInv, HistoryInv
<1>3. row \in Rows /\ Progress(row) \in past
  BY DEF SharedInv, HistoryInv, TransitionTypeOK, PastInv, PastConnected
<1>4. RequestInv'
  BY <1>3, RequestInvStep DEF SharedInv
<1>5. WriteBacks'
  <2> SUFFICES ASSUME NEW q \in Calls, req'[q].pc = "editWrite"
               PROVE  Progress(req'[q].wo) \in past'
    BY DEF WriteBacks, Progress
  <2>1. past \subseteq past'
    BY <1>1, PastGrows
  <2>2. QED
    BY <1>3, <2>1, WritersRead DEF SharedInv, WriteBacks
<1>6. QED
  BY <1>2, <1>4, <1>5 DEF SharedInv

LEMMA SharedInvariant == Spec => []SharedInv
<1>1. Init => SharedInv
  <2> SUFFICES ASSUME Init PROVE SharedInv
    OBVIOUS
  <2>1. TransitionInit
    BY DEF Init, OrderInit
  <2>2. HistoryInv
    BY <2>1, TypeInit, CasIsAllowedInit, PastInvInit DEF HistoryInv
  <2>3. WriteBacks
    BY DEF Init, OrderInit, IdleRequest, WriteBacks
  <2>4. QED
    BY <2>2, <2>3, RequestInvInit DEF SharedInv
<1>2. QED
  BY <1>1, SharedInvStep, PTL DEF Spec

(***************************************************************************)
(* The variables of this phase keep their types, for any number of         *)
(* requests, services and supplies.                                        *)
(***************************************************************************)
THEOREM ExecutionTypeCorrect == Spec => []TypeOK
<1>1. SharedInv => TypeOK
  BY TypeParts DEF SharedInv, HistoryInv, RequestInv, RestTyped
<1>2. QED
  BY <1>1, SharedInvariant, PTL

(***************************************************************************)
(* The handlers of this phase are environments TransitionTo allows for,    *)
(* faults included: the automatic finish, the PUT of the staff and what    *)
(* requests abandon are calls of it or stale full-row writes.              *)
(***************************************************************************)
THEOREM SharesTheRow == Spec => UsesTransitionTo
<1>1. Init => TransitionInit
  BY DEF Init, OrderInit
<1>2. SharedInv /\ [Next]_vars => [SharedNext]_transitionVars
  BY SharedStep
<1>3. QED
  BY <1>1, <1>2, SharedInvariant, PTL DEF Spec, UsesTransitionTo, SharedSpec

(***************************************************************************)
(* So what TransitionTo keeps among other handlers holds of the order in   *)
(* execution: the timestamps tell the status, and every status was earned. *)
(***************************************************************************)
THEOREM HistoryInExecution ==
  Spec => [](StampsMatchStatus /\ PastConnected /\ OkMeansEntered)
BY SharesTheRow, StampsAlwaysMatch, PastAlwaysConnected, OkAlwaysEntered, PTL
DEF UsesTransitionTo

-----------------------------------------------------------------------------
(***************************************************************************)
(* Supplies are taken after the finish.  A request decides from a service  *)
(* read earlier; it may rely on that because the status of a service only  *)
(* advances, and only approved services ever leave Pending.                *)
(***************************************************************************)
ReliesOn(r, s) ==
  /\ req[r].pc \in {"checkStock", "markStarted"} => s \in ApprovedServices
  /\ req[r].op = "finalize" /\ req[r].pc = "checkOrder" =>
       (local[r].found = Running => exec[s] # Pending)
  /\ req[r].pc = "markFinished" => exec[s] # Pending
  /\ req[r].pc = "deduct" => exec[s] = Done

ExecInv ==
  /\ \A s \in Services : deducted[s] > 0 => exec[s] = Done
  /\ \A s \in Services : exec[s] # Pending => s \in ApprovedServices
  /\ \A r \in Calls : \A s \in Services :
       local[r].service = {s} => ReliesOn(r, s)

LEMMA ExecInvInit == Init => ExecInv
BY ExecutionAssumption
DEF Init, OrderInit, IdleRequest, ExecInv, ReliesOn, Pending, Running, Done

\* A step of r that marks no service and takes no supplies.
LEMMA NothingMarked ==
  ASSUME ExecInv, NEW r \in Calls, UNCHANGED <<exec, deducted>>,
         \A q \in Calls \ {r} : req'[q] = req[q] /\ local'[q] = local[q],
         \A s \in Services : local'[r].service = {s} => ReliesOn(r, s)'
  PROVE  ExecInv'
BY DEF ExecInv, ReliesOn

\* ... and goes to a place from which nothing is relied on.
LEMMA GoToHarmless ==
  ASSUME RequestInv, ExecInv, NEW r \in Calls,
         NEW pc \in Pcs \ {"checkOrder", "checkStock", "markStarted",
                            "markFinished", "deduct"},
         GoTo(r, pc), UNCHANGED <<exec, deducted>>,
         \A q \in Calls \ {r} : local'[q] = local[q]
  PROVE  ExecInv'
<1>1. /\ req'[r].pc = pc
      /\ \A q \in Calls \ {r} : req'[q] = req[q]
  BY GoToTyped DEF RequestInv, RestTyped
<1>2. QED
  BY <1>1, NothingMarked DEF ReliesOn

LEMMA BeginHarmless ==
  ASSUME RequestInv, ExecInv, NEW r \in Calls, NEW op \in Operations,
         NEW pc \in Pcs \ {"checkOrder", "checkStock", "markStarted",
                            "markFinished", "deduct"},
         Begin(r, op, pc), UNCHANGED <<exec, deducted>>,
         \A q \in Calls \ {r} : local'[q] = local[q]
  PROVE  ExecInv'
<1>1. /\ req'[r].pc = pc
      /\ \A q \in Calls \ {r} : req'[q] = req[q]
  BY BeginTyped DEF RequestInv, RestTyped
<1>2. QED
  BY <1>1, NothingMarked DEF ReliesOn

LEMMA ReadHarmless ==
  ASSUME RequestInv, ExecInv, row \in Rows, NEW r \in Calls,
         NEW pc \in {"editWrite", "checkDocument"},
         req' = [req EXCEPT ![r].pc = pc, ![r].wo = row], UNCHANGED execVars
  PROVE  ExecInv'
<1>1. /\ req'[r].pc = pc
      /\ \A q \in Calls \ {r} : req'[q] = req[q]
  BY ReadTyped DEF RequestInv, RestTyped, Pcs
<1>2. QED
  BY <1>1, NothingMarked DEF ReliesOn, execVars

LEMMA BeginsHarmless ==
  ASSUME RequestInv, ExecInv, NEW r \in Calls, BeginRequest(r)
  PROVE  ExecInv'
<1>1. ASSUME "put" \in Operations, NEW to,
             BeginPutFields(r) \/ BeginPut(r, to), UNCHANGED execVars
      PROVE  ExecInv'
  BY <1>1, BeginHarmless DEF BeginPutFields, BeginPut, Pcs, execVars
<1>2. ASSUME NEW s \in Services, BeginStart(r, s) \/ BeginFinalize(r, s)
      PROVE  ExecInv'
  <2>1. \A q \in Calls \ {r} : local'[q] = local[q]
    <3>1. {s} \in SUBSET Services
      OBVIOUS
    <3>2. QED
      BY <1>2, <3>1, LocalServiceTyped
      DEF BeginStart, BeginFinalize, RequestInv, RestTyped
  <2>2. QED
    BY <1>2, <2>1, BeginHarmless DEF BeginStart, BeginFinalize, Allow, Pcs
<1>3. CASE BeginTrack(r)
  BY <1>3, BeginHarmless DEF BeginTrack, Pcs, execVars
<1>4. QED
  BY <1>1, <1>2, <1>3 DEF BeginRequest

\* FindService and the checks after it: what is read decides where to go.
LEMMA FindRelies ==
  ASSUME RequestInv, ExecInv, NEW r \in Calls, FindService(r)
  PROVE  ExecInv'
<1>1. req[r].op \in {"start", "finalize"}
  BY DEF FindService, RequestInv, Places, PlaceFits
<1>2. PICK s \in Services : local[r].service = {s}
  BY <1>1 DEF RequestInv, AboutOne
<1>3. local' = [local EXCEPT ![r].found = exec[s]]
  BY <1>2, TheService DEF FindService
<1>4. exec[s] \in ExecStatuses
  BY DEF RequestInv, RestTyped
<1>5. /\ local'[r].service = {s} /\ local'[r].found = exec[s]
      /\ \A q \in Calls \ {r} : local'[q] = local[q]
  BY <1>2, <1>3, <1>4, LocalFoundTyped DEF RequestInv, RestTyped
<1>6. /\ req'[r].pc = "checkOrder"
      /\ \A q \in Calls \ {r} : req'[q] = req[q]
  BY GoToTyped DEF FindService, RequestInv, RestTyped, Pcs
<1>7. UNCHANGED <<exec, deducted>>
  BY DEF FindService
<1>8. \A t \in Services : local'[r].service = {t} => ReliesOn(r, t)'
  BY <1>5, <1>6, <1>7 DEF ReliesOn, Running, Pending
<1>9. QED
  BY <1>5, <1>6, <1>7, <1>8, NothingMarked

LEMMA ChecksRely ==
  ASSUME RequestInv, ExecInv, NEW r \in Calls,
         StartCheck(r) \/ StartStock(r) \/ FinalizeCheck(r)
  PROVE  ExecInv'
<1>1. UNCHANGED <<exec, local, deducted>>
  BY DEF StartCheck, StartStock, FinalizeCheck, execVars
<1>2. req \in [Calls -> RequestRecords]
  BY DEF RequestInv, RestTyped
<1>3. req[r].op \in {"start", "finalize"}
  BY DEF StartCheck, StartStock, FinalizeCheck, RequestInv, Places, PlaceFits
<1>4. PICK s \in Services : local[r].service = {s}
  BY <1>3 DEF RequestInv, AboutOne
<1>5. Service(r) = s
  BY <1>4, TheService
<1>6. ReliesOn(r, s)
  BY <1>4 DEF ExecInv
<1>7. CASE StartCheck(r)
  <2> DEFINE to == IF /\ row.status = InProgress /\ s \in ApprovedServices
                      /\ local[r].found = Pending
                   THEN "checkStock" ELSE "done"
  <2>1. GoTo(r, to) /\ to \in Pcs
    BY <1>5, <1>7 DEF StartCheck, Pcs
  <2> HIDE DEF to
  <2>2. /\ req'[r].pc = to
        /\ \A q \in Calls \ {r} : req'[q] = req[q]
    BY <1>2, <2>1, GoToTyped
  <2>3. ReliesOn(r, s)'
    BY <1>1, <2>2 DEF ReliesOn, to
  <2>4. QED
    BY <1>1, <1>4, <2>2, <2>3, NothingMarked
<1>8. CASE StartStock(r)
  <2> DEFINE to == IF HasShortage(s) THEN "done" ELSE "markStarted"
  <2>1. GoTo(r, to) /\ to \in Pcs
    BY <1>5, <1>8 DEF StartStock, Pcs
  <2> HIDE DEF to
  <2>2. /\ req'[r].pc = to
        /\ \A q \in Calls \ {r} : req'[q] = req[q]
    BY <1>2, <2>1, GoToTyped
  <2>3. s \in ApprovedServices
    BY <1>6, <1>8 DEF StartStock, ReliesOn
  <2>4. ReliesOn(r, s)'
    BY <1>1, <2>2, <2>3 DEF ReliesOn, to
  <2>5. QED
    BY <1>1, <1>4, <2>2, <2>4, NothingMarked
<1>9. CASE FinalizeCheck(r)
  <2> DEFINE to == IF row.status = InProgress /\ local[r].found = Running
                   THEN "markFinished" ELSE "done"
  <2>1. GoTo(r, to) /\ to \in Pcs
    BY <1>9 DEF FinalizeCheck, Pcs
  <2> HIDE DEF to
  <2>2. /\ req'[r].pc = to
        /\ \A q \in Calls \ {r} : req'[q] = req[q]
    BY <1>2, <2>1, GoToTyped
  <2>3. ReliesOn(r, s)'
    BY <1>1, <1>6, <1>9, <2>2 DEF ReliesOn, FinalizeCheck, to
  <2>4. QED
    BY <1>1, <1>4, <2>2, <2>3, NothingMarked
<1>10. QED
  BY <1>7, <1>8, <1>9

\* What other requests rely on survives an advance of one service.
LEMMA AdvanceKeeps ==
  ASSUME RequestInv, ExecInv, NEW r \in Calls, NEW s \in Services,
         NEW e \in {Running, Done}, exec' = [exec EXCEPT ![s] = e],
         exec[s] = Done => e = Done, s \in ApprovedServices,
         UNCHANGED <<local, deducted>>, local[r].service = {s},
         \A q \in Calls \ {r} : req'[q] = req[q],
         ReliesOn(r, s)'
  PROVE  ExecInv'
<1>1. /\ exec'[s] = e /\ e # Pending
      /\ \A t \in Services \ {s} : exec'[t] = exec[t]
  BY DEF RequestInv, RestTyped, Pending, Running, Done
<1>2. \A t \in Services : exec[t] = Done => exec'[t] = Done
  BY <1>1
<1>3. \A t \in Services : exec[t] # Pending => exec'[t] # Pending
  BY <1>1
<1>4. \A t \in Services : deducted'[t] > 0 => exec'[t] = Done
  BY <1>2 DEF ExecInv
<1>5. \A t \in Services : exec'[t] # Pending => t \in ApprovedServices
  BY <1>1 DEF ExecInv
<1>6. ASSUME NEW q \in Calls \ {r}, NEW t \in Services, local'[q].service = {t}
      PROVE  ReliesOn(q, t)'
  BY <1>2, <1>3, <1>6 DEF ExecInv, ReliesOn
<1>7. QED
  BY <1>4, <1>5, <1>6 DEF ExecInv

LEMMA MarksRely ==
  ASSUME RequestInv, ExecInv, NEW r \in Calls,
         MarkStarted(r) \/ MarkFinished(r) \/ Deduct(r)
  PROVE  ExecInv'
<1>1. req \in [Calls -> RequestRecords] /\ exec \in [Services -> ExecStatuses]
      /\ deducted \in [Services -> Nat]
  BY DEF RequestInv, RestTyped
<1>2. req[r].op \in {"start", "finalize"}
  BY DEF MarkStarted, MarkFinished, Deduct, RequestInv, Places, PlaceFits
<1>3. PICK s \in Services : local[r].service = {s}
  BY <1>2 DEF RequestInv, AboutOne
<1>4. Service(r) = s /\ ReliesOn(r, s)
  BY <1>3, TheService DEF ExecInv
<1>5. exec[s] \in ExecStatuses
  BY <1>1
<1>6. CASE MarkStarted(r)
  <2>1. /\ req'[r].pc = "done"
        /\ \A q \in Calls \ {r} : req'[q] = req[q]
    BY <1>1, <1>6, GoToTyped DEF MarkStarted, Pcs
  <2>2. PICK e \in {Running, Done} :
          /\ exec' = [exec EXCEPT ![s] = e]
          /\ exec[s] = Done => e = Done
    BY <1>4, <1>5, <1>6 DEF MarkStarted, ExecStatuses, Pending, Running, Done
  <2>3. s \in ApprovedServices
    BY <1>4, <1>6 DEF MarkStarted, ReliesOn
  <2>4. ReliesOn(r, s)'
    BY <2>1 DEF ReliesOn
  <2>5. UNCHANGED <<local, deducted>>
    BY <1>6 DEF MarkStarted
  <2>6. QED
    BY <1>3, <2>1, <2>2, <2>3, <2>4, <2>5, AdvanceKeeps
<1>7. CASE MarkFinished(r)
  <2>1. /\ req'[r].pc = "deduct"
        /\ \A q \in Calls \ {r} : req'[q] = req[q]
    BY <1>1, <1>7, GoToTyped DEF MarkFinished, Pcs
  <2>2. exec[s] # Pending
    BY <1>4, <1>7 DEF MarkFinished, ReliesOn
  <2>3. exec' = [exec EXCEPT ![s] = Done]
    BY <1>4, <1>5, <1>7, <2>2
    DEF MarkFinished, ExecStatuses, Pending, Running, Done
  <2>4. s \in ApprovedServices
    BY <2>2 DEF ExecInv
  <2>5. exec'[s] = Done
    BY <1>1, <2>3
  <2>6. ReliesOn(r, s)'
    BY <2>1, <2>5 DEF ReliesOn
  <2>7. UNCHANGED <<local, deducted>>
    BY <1>7 DEF MarkFinished
  <2>8. QED
    BY <1>3, <2>1, <2>3, <2>4, <2>6, <2>7, AdvanceKeeps
<1>8. CASE Deduct(r)
  <2>1. /\ req'[r].pc = "checkServices"
        /\ \A q \in Calls \ {r} : req'[q] = req[q]
    BY <1>1, <1>8, GoToTyped DEF Deduct, Pcs
  <2>2. exec[s] = Done
    BY <1>4, <1>8 DEF Deduct, ReliesOn
  <2>3. \A t \in Services \ {s} : deducted'[t] = deducted[t]
    BY <1>1, <1>4, <1>8 DEF Deduct
  <2>4. UNCHANGED <<exec, local>>
    BY <1>8 DEF Deduct
  <2>5. \A t \in Services : deducted'[t] > 0 => exec'[t] = Done
    BY <2>2, <2>3, <2>4 DEF ExecInv
  <2>6. \A q \in Calls : \A t \in Services :
          local'[q].service = {t} => ReliesOn(q, t)'
    BY <2>1, <2>4 DEF ExecInv, ReliesOn
  <2>7. QED
    BY <2>4, <2>5, <2>6 DEF ExecInv
<1>9. QED
  BY <1>6, <1>7, <1>8

LEMMA ExecInvStep ==
  ASSUME RequestInv, ExecInv, row \in Rows, [Next]_vars
  PROVE  ExecInv'
<1>1. ASSUME UNCHANGED <<req, execVars>>
      PROVE  ExecInv'
  BY <1>1 DEF ExecInv, ReliesOn, execVars
<1>2. ASSUME NEW r \in Calls, RequestStep(r)
      PROVE  ExecInv'
  <2>1. CASE PutStep(r) /\ UNCHANGED execVars
    BY <2>1, ReadHarmless, GoToHarmless
    DEF PutStep, EditRead, EditWrite, Pcs, execVars
  <2>2. CASE ServicesLeft(r) \/ NoServiceLeft(r) \/ FinalizeReturns(r)
    BY <2>2, GoToHarmless
    DEF ServicesLeft, NoServiceLeft, FinalizeReturns, Pcs, execVars
  <2>3. CASE CheckDocument(r)
    BY <2>3, GoToHarmless DEF CheckDocument, Pcs, execVars
  <2>4. CASE FindByCode(r, "checkDocument")
    BY <2>4, ReadHarmless DEF FindByCode
  <2>5. CASE ListServices(r, "shown")
    <3>1. PICK S \in SUBSET Services : local' = [local EXCEPT ![r].service = S]
      BY <2>5 DEF ListServices, ServicesRead
    <3>2. \A q \in Calls \ {r} : local'[q] = local[q]
      BY <3>1, LocalServiceTyped DEF RequestInv, RestTyped
    <3>3. QED
      BY <2>5, <3>2, GoToHarmless DEF ListServices, Pcs
  <2>6. QED
    BY <1>1, <1>2, <2>1, <2>2, <2>3, <2>4, <2>5, FindRelies, ChecksRely,
       MarksRely
    DEF RequestStep, TrackReads
<1>3. ASSUME NEW r \in Calls, Abandon(r)
      PROVE  ExecInv'
  BY <1>3, GoToHarmless DEF Abandon, Pcs, execVars
<1>4. QED
  BY <1>1, <1>2, <1>3, BeginsHarmless
  DEF Next, StatusReplyLost, vars, orderVars

(***************************************************************************)
(* Supplies are only taken for an approved service that is finished,       *)
(* whatever requests race and wherever one is abandoned.                   *)
(***************************************************************************)
THEOREM SuppliesOnlyForFinished == Spec => []DeductedIsFinished
<1>1. SharedInv /\ ExecInv /\ [Next]_vars => ExecInv'
  BY ExecInvStep DEF SharedInv, HistoryInv, TransitionTypeOK
<1>2. ExecInv => DeductedIsFinished
  BY DEF ExecInv, DeductedIsFinished, Done, Pending
<1>3. QED
  BY <1>1, <1>2, ExecInvInit, SharedInvariant, PTL DEF Spec

-----------------------------------------------------------------------------
(***************************************************************************)
(* While nothing fails the supplies of a finished service are taken: the   *)
(* request that finished it goes on to take them, and no other step ends   *)
(* it before it has.                                                       *)
(***************************************************************************)
OnlyMine(r) ==
  \A q \in Calls \ {r} : req'[q] = req[q] /\ local'[q] = local[q]

LEMMA StepsAreOwn ==
  ASSUME RequestInv, NEW r \in Calls, RequestStep(r) \/ BeginRequest(r)
  PROVE  OnlyMine(r)
<1>1. req \in [Calls -> RequestRecords] /\ local \in [Calls -> LocalRecords]
  BY DEF RequestInv, RestTyped
<1>2. CASE BeginRequest(r)
  <2>1. ASSUME NEW s \in Services, BeginStart(r, s) \/ BeginFinalize(r, s)
        PROVE  OnlyMine(r)
    BY <1>1, <2>1 DEF BeginStart, BeginFinalize, Begin, OnlyMine
  <2>2. QED
    BY <1>1, <1>2, <2>1
    DEF BeginRequest, BeginPutFields, BeginPut, BeginTrack, Begin, OnlyMine,
        execVars
<1>3. CASE PutStep(r) /\ UNCHANGED execVars
  BY <1>1, <1>3 DEF PutStep, EditRead, EditWrite, GoTo, OnlyMine, execVars
<1>4. CASE FindService(r) \/ TrackReads(r)
  BY <1>1, <1>4
  DEF FindService, TrackReads, FindByCode, ListServices, GoTo, OnlyMine,
      execVars
<1>5. CASE RequestStep(r)
  BY <1>1, <1>3, <1>4, <1>5
  DEF RequestStep, StartCheck, StartStock, MarkStarted, FinalizeCheck,
      MarkFinished, Deduct, ServicesLeft, NoServiceLeft, FinalizeReturns,
      CheckDocument, GoTo, OnlyMine, execVars
<1>6. QED
  BY <1>2, <1>5

\* A request about to take supplies does nothing else.
LEMMA DeductsNext ==
  ASSUME RequestInv, NEW r \in Calls, RequestStep(r) \/ BeginRequest(r),
         req[r].pc = "deduct"
  PROVE  Deduct(r) \/ UNCHANGED <<req, execVars>>
<1>1. req[r].op = "finalize"
  BY DEF RequestInv, Places, PlaceFits
<1>2. ~BeginRequest(r)
  BY DEF BeginRequest, BeginPutFields, BeginPut, BeginTrack, BeginStart,
         BeginFinalize, Begin
<1>3. QED
  BY <1>1, <1>2
  DEF RequestStep, PutStep, EditRead, EditWrite, TransitionReturned,
      FindService, StartCheck, StartStock, MarkStarted, FinalizeCheck,
      MarkFinished, ServicesLeft, NoServiceLeft, FinalizeReturns, TrackReads,
      FindByCode, ListServices, CheckDocument

\* Only MarkFinished finishes a service, only Deduct counts.
LEMMA MarksAndCounts ==
  ASSUME RequestInv, NEW r \in Calls, RequestStep(r) \/ BeginRequest(r)
  PROVE  MarkFinished(r) \/ MarkStarted(r) \/ Deduct(r)
           \/ UNCHANGED <<exec, deducted>>
<1>1. CASE BeginRequest(r)
  BY <1>1 DEF BeginRequest, BeginStart, BeginFinalize, BeginTrack, execVars
<1>2. CASE RequestStep(r)
  BY <1>2
  DEF RequestStep, FindService, StartCheck, StartStock, FinalizeCheck,
      ServicesLeft, NoServiceLeft, FinalizeReturns, TrackReads, FindByCode,
      ListServices, CheckDocument, execVars
<1>3. QED
  BY <1>1, <1>2

LEMMA FinishedStep ==
  ASSUME RequestInv, FinishedIsDeducted, NEW r \in Calls,
         RequestStep(r) \/ BeginRequest(r)
  PROVE  FinishedIsDeducted'
<1>1. /\ req \in [Calls -> RequestRecords] /\ exec \in [Services -> ExecStatuses]
      /\ deducted \in [Services -> Nat]
  BY DEF RequestInv, RestTyped
<1>2. OnlyMine(r)
  BY StepsAreOwn
<1>3. CASE Deduct(r)
  <2>1. PICK s \in Services : local[r].service = {s}
    BY <1>3 DEF Deduct, RequestInv, Places, PlaceFits, AboutOne
  <2>2. Service(r) = s
    BY <2>1, TheService
  <2>3. /\ deducted'[s] > 0
        /\ \A t \in Services \ {s} : deducted'[t] = deducted[t]
    BY <1>1, <1>3, <2>2 DEF Deduct
  <2>4. exec' = exec /\ local' = local
    BY <1>3 DEF Deduct
  <2>5. ASSUME NEW t \in Services, exec'[t] = Done, ~(deducted'[t] > 0)
        PROVE  \E q \in Calls : req'[q].pc = "deduct" /\ local'[q].service = {t}
    <3>1. t # s /\ ~(deducted[t] > 0)
      BY <1>1, <2>3, <2>5
    <3>2. PICK q \in Calls : req[q].pc = "deduct" /\ local[q].service = {t}
      BY <2>4, <2>5, <3>1 DEF FinishedIsDeducted
    <3>3. q # r
      BY <2>1, <3>1, <3>2
    <3>4. QED
      BY <1>2, <3>2, <3>3 DEF OnlyMine
  <2>6. QED
    BY <2>5 DEF FinishedIsDeducted
<1>4. CASE ~Deduct(r)
  <2>1. deducted' = deducted
    BY <1>4, MarksAndCounts DEF MarkFinished, MarkStarted
  <2>2. ASSUME NEW q \in Calls, req[q].pc = "deduct"
        PROVE  req'[q].pc = "deduct" /\ local'[q].service = local[q].service
    <3>1. CASE q = r
      BY <1>4, <2>2, <3>1, DeductsNext DEF execVars
    <3>2. CASE q # r
      BY <1>2, <2>2, <3>2 DEF OnlyMine
    <3>3. QED
      BY <3>1, <3>2
  <2>3. CASE MarkFinished(r)
    <3>1. PICK s \in Services : local[r].service = {s}
      BY <2>3 DEF MarkFinished, RequestInv, Places, PlaceFits, AboutOne
    <3>2. Service(r) = s
      BY <3>1, TheService
    <3>3. \A t \in Services \ {s} : exec'[t] = exec[t]
      BY <1>1, <2>3, <3>2 DEF MarkFinished
    <3>4. req'[r].pc = "deduct" /\ local' = local
      BY <1>1, <2>3, GoToTyped DEF MarkFinished, Pcs
    <3>5. QED
      BY <2>1, <2>2, <3>1, <3>3, <3>4 DEF FinishedIsDeducted
  <2>4. CASE MarkStarted(r) \/ UNCHANGED <<exec, deducted>>
    <3>1. \A t \in Services : exec'[t] = Done => exec[t] = Done
      BY <1>1, <2>4 DEF MarkStarted, Running, Done, Pending
    <3>2. QED
      BY <2>1, <2>2, <3>1 DEF FinishedIsDeducted
  <2>5. QED
    BY <1>4, <2>3, <2>4, MarksAndCounts
<1>5. QED
  BY <1>3, <1>4

(***************************************************************************)
(* While nothing fails the supplies of a finished service have been taken, *)
(* or the request that finished it is about to take them.                  *)
(***************************************************************************)
THEOREM FinishedHasDeducted ==
  ASSUME Faults = FALSE
  PROVE  Spec => []FinishedIsDeducted
<1>1. Init => FinishedIsDeducted
  BY DEF Init, FinishedIsDeducted, Running, Pending, Done
<1>2. SharedInv /\ FinishedIsDeducted /\ [Next]_vars => FinishedIsDeducted'
  <2> SUFFICES ASSUME SharedInv, FinishedIsDeducted, [Next]_vars
               PROVE  FinishedIsDeducted'
    OBVIOUS
  <2>1. RequestInv
    BY DEF SharedInv
  <2>2. ASSUME UNCHANGED <<req, execVars>>
        PROVE  FinishedIsDeducted'
    BY <2>2 DEF FinishedIsDeducted, execVars
  <2>3. ASSUME NEW r \in Calls, Abandon(r) \/ StatusReplyLost(r)
        PROVE  FinishedIsDeducted'
    BY <2>3 DEF Abandon, StatusReplyLost, CasReplyLost
  <2>4. QED
    BY <2>1, <2>2, <2>3, FinishedStep DEF Next, vars, orderVars
<1>3. QED
  BY <1>1, <1>2, SharedInvariant, PTL DEF Spec

-----------------------------------------------------------------------------
(***************************************************************************)
(* The stock of every supply is what there was at first less what was      *)
(* taken, by service and as often as the supplies of the service were.     *)
(***************************************************************************)
TakenFor(p) == [s \in Services |-> deducted[s] * Needs[s][p]]

LEMMA Accounts ==
  StockAccounts <=>
    \A p \in Supplies : stock[p] = InitialStock[p] - SumFunction(TakenFor(p))
BY DEF StockAccounts, TakenFor

LEMMA TakenTyped ==
  ASSUME deducted \in [Services -> Nat], NEW p \in Supplies
  PROVE  TakenFor(p) \in [Services -> Int]
<1>1. Needs \in [Services -> [Supplies -> Nat]]
  BY ExecutionAssumption
<1>2. \A s \in Services : deducted[s] * Needs[s][p] \in Int
  BY <1>1
<1>3. QED
  BY <1>2 DEF TakenFor

LEMMA AccountsInit == Init => StockAccounts
<1> SUFFICES ASSUME Init, NEW p \in Supplies
             PROVE  stock[p] = InitialStock[p] - SumFunction(TakenFor(p))
  BY Accounts
<1>1. /\ Needs \in [Services -> [Supplies -> Nat]]
      /\ InitialStock \in [Supplies -> Nat] /\ IsFiniteSet(Services)
  BY ExecutionAssumption
<1>2. deducted \in [Services -> Nat] /\ \A s \in Services : deducted[s] = 0
  BY DEF Init
<1>3. TakenFor(p) = [s \in Services |-> 0]
  <2>1. \A s \in Services : deducted[s] * Needs[s][p] = 0
    BY <1>1, <1>2
  <2>2. QED
    BY <2>1 DEF TakenFor
<1>4. SumFunction([s \in Services |-> 0]) = 0
  BY <1>1, SumOfZeros
<1>5. SumFunction(TakenFor(p)) = 0
  BY <1>3, <1>4
<1>6. stock[p] = InitialStock[p] /\ stock[p] \in Int
  BY <1>1 DEF Init
<1>7. QED
  BY <1>5, <1>6

LEMMA DeductAccounts ==
  ASSUME RequestInv, StockAccounts, NEW r \in Calls, Deduct(r)
  PROVE  StockAccounts'
<1>1. /\ Needs \in [Services -> [Supplies -> Nat]]
      /\ InitialStock \in [Supplies -> Nat] /\ IsFiniteSet(Services)
  BY ExecutionAssumption
<1>2. deducted \in [Services -> Nat] /\ stock \in [Supplies -> Int]
  BY DEF RequestInv, RestTyped
<1>3. PICK s \in Services : local[r].service = {s}
  BY DEF Deduct, RequestInv, Places, PlaceFits, AboutOne
<1>4. Service(r) = s
  BY <1>3, TheService
<1>5. deducted' = [deducted EXCEPT ![s] = @ + 1]
  BY <1>4 DEF Deduct
<1>6. deducted' \in [Services -> Nat]
  BY <1>2, <1>5
<1>7. ASSUME NEW p \in Supplies
      PROVE  stock'[p] = InitialStock[p] - SumFunction(TakenFor(p)')
  <2> DEFINE d == Needs[s][p]
             old == TakenFor(p)
             new == TakenFor(p)'
  <2>1. d \in Nat
    BY <1>1
  <2>2. stock'[p] = stock[p] - d
    BY <1>4 DEF Deduct
  <2>3. old \in [Services -> Int]
    BY <1>2, TakenTyped
  <2>4. new = [t \in Services |-> deducted'[t] * Needs[t][p]]
    BY DEF TakenFor
  <2>5. \A t \in Services : deducted'[t] * Needs[t][p] \in Int
    BY <1>1, <1>6
  <2>6. new \in [Services -> Int]
    BY <2>4, <2>5
  <2>7. new[s] = old[s] + d
    <3>1. deducted'[s] = deducted[s] + 1 /\ deducted[s] \in Nat
      BY <1>2, <1>5
    <3>2. (deducted[s] + 1) * d = deducted[s] * d + d
      BY <2>1, <3>1
    <3>3. QED
      BY <2>4, <3>1, <3>2 DEF TakenFor
  <2>8. \A t \in Services : t # s => new[t] = old[t]
    BY <1>2, <1>5, <2>4 DEF TakenFor
  <2>9. SumFunction(old) \in Int
    BY <1>1, <2>3, SumType
  <2> HIDE DEF old, new, d
  <2>10. SumFunction(new) = SumFunction(old) + d
    BY <1>1, <2>1, <2>3, <2>6, <2>7, <2>8, SumAdds
  <2>11. stock[p] = InitialStock[p] - SumFunction(old)
    BY Accounts DEF old
  <2>12. InitialStock[p] \in Int
    BY <1>1
  <2>13. QED
    BY <2>1, <2>2, <2>9, <2>10, <2>11, <2>12 DEF new
<1>8. QED
  BY <1>7 DEF StockAccounts, TakenFor

\* Nothing but Deduct takes from the stock.
LEMMA OnlyDeductTakes ==
  ASSUME NEW r \in Calls, RequestStep(r) \/ BeginRequest(r)
  PROVE  Deduct(r) \/ UNCHANGED <<stock, deducted>>
<1>1. CASE BeginRequest(r)
  BY <1>1 DEF BeginRequest, BeginStart, BeginFinalize, BeginTrack, execVars
<1>2. CASE RequestStep(r)
  BY <1>2
  DEF RequestStep, FindService, StartCheck, StartStock, MarkStarted,
      FinalizeCheck, MarkFinished, ServicesLeft, NoServiceLeft,
      FinalizeReturns, TrackReads, FindByCode, ListServices, CheckDocument,
      execVars
<1>3. QED
  BY <1>1, <1>2

(***************************************************************************)
(* Every unit that left the stock left it for a service of the order that  *)
(* was taken the stated number of times, for any number of services,       *)
(* supplies and requests: racing finalizations lose no decrement, and a    *)
(* request that is refused or breaks off takes nothing else.               *)
(***************************************************************************)
THEOREM StockIsAccountedFor == Spec => []StockAccounts
<1>1. SharedInv /\ StockAccounts /\ [Next]_vars => StockAccounts'
  <2> SUFFICES ASSUME RequestInv, StockAccounts, [Next]_vars
               PROVE  StockAccounts'
    BY DEF SharedInv
  <2>1. ASSUME UNCHANGED <<stock, deducted>>
        PROVE  StockAccounts'
    BY <2>1 DEF StockAccounts
  <2>2. ASSUME NEW r \in Calls, Abandon(r) \/ StatusReplyLost(r)
        PROVE  UNCHANGED <<stock, deducted>>
    BY <2>2 DEF Abandon, StatusReplyLost, execVars
  <2>3. QED
    BY <2>1, <2>2, OnlyDeductTakes, DeductAccounts
    DEF Next, vars, execVars
<1>2. QED
  BY <1>1, AccountsInit, SharedInvariant, PTL DEF Spec

-----------------------------------------------------------------------------
(***************************************************************************)
(* Supplies taken twice.  A service has its supplies taken by finalizers,  *)
(* each of which takes them once.  What no handler sees to is that there   *)
(* is one finalizer; when nobody asks twice the supplies are taken once.   *)
(***************************************************************************)
BeforeTaking == {"findService", "checkOrder", "markFinished", "deduct"}

Finalizes(r, s) == req[r].op = "finalize" /\ local[r].service = {s}

OnceInv ==
  /\ \A q, r \in Calls : \A s \in Services :
       Finalizes(q, s) /\ Finalizes(r, s) => q = r
  /\ \A s \in Services : deducted[s] <= 1
  /\ \A s \in Services : deducted[s] > 0 =>
       \E r \in Calls : Finalizes(r, s) /\ req[r].pc \notin BeforeTaking

LEMMA FinalizerGoesOn ==
  ASSUME RequestInv, NEW r \in Calls, RequestStep(r)
  PROVE  /\ req'[r].op = req[r].op
         /\ req[r].op = "finalize" => local'[r].service = local[r].service
         /\ req[r].op = "finalize" /\ req[r].pc \notin BeforeTaking =>
              req'[r].pc \notin BeforeTaking
<1>1. /\ req \in [Calls -> RequestRecords] /\ local \in [Calls -> LocalRecords]
      /\ PlaceFits(req[r].pc, req[r].op)
  BY DEF RequestInv, RestTyped, Places
<1>2. CASE UNCHANGED <<req, execVars>>
  BY <1>2 DEF execVars
<1>3. ASSUME NEW pc \in Pcs, GoTo(r, pc), UNCHANGED local,
             pc \notin BeforeTaking \/ req[r].pc \in BeforeTaking
      PROVE  /\ req'[r].op = req[r].op /\ local'[r].service = local[r].service
             /\ req[r].pc \notin BeforeTaking => req'[r].pc \notin BeforeTaking
  BY <1>1, <1>3, GoToTyped
<1>4. CASE PutStep(r) /\ UNCHANGED execVars
  <2>1. CASE EditRead(r)
    BY <1>1, <1>4, <2>1 DEF EditRead, RequestRecords, execVars
  <2>2. CASE EditWrite(r)
    BY <1>3, <1>4, <2>2 DEF EditWrite, Pcs, BeforeTaking, execVars
  <2>3. QED
    BY <1>4, <2>1, <2>2 DEF PutStep
<1>5. CASE FindService(r)
  <2>1. local'[r].service = local[r].service
    BY <1>1, <1>5 DEF FindService, LocalRecords
  <2>2. req'[r].op = req[r].op /\ req[r].pc \in BeforeTaking
    BY <1>1, <1>5, GoToTyped DEF FindService, Pcs, BeforeTaking
  <2>3. QED
    BY <2>1, <2>2
<1>6. CASE TrackReads(r)
  <2>1. req[r].op = "track"
    BY <1>1, <1>6 DEF TrackReads, PlaceFits
  <2>2. req'[r].op = req[r].op
    BY <1>1, <1>6
    DEF TrackReads, FindByCode, ListServices, GoTo, RequestRecords
  <2>3. QED
    BY <2>1, <2>2
<1>7. CASE StartCheck(r) \/ StartStock(r) \/ MarkStarted(r)
  BY <1>1, <1>7, <1>3
  DEF StartCheck, StartStock, MarkStarted, Pcs, BeforeTaking, execVars
<1>8. CASE FinalizeCheck(r) \/ MarkFinished(r) \/ Deduct(r)
  BY <1>3, <1>8
  DEF FinalizeCheck, MarkFinished, Deduct, Pcs, BeforeTaking, execVars
<1>9. CASE ServicesLeft(r) \/ NoServiceLeft(r) \/ FinalizeReturns(r)
             \/ CheckDocument(r)
  BY <1>3, <1>9
  DEF ServicesLeft, NoServiceLeft, FinalizeReturns, CheckDocument, Pcs,
      BeforeTaking, execVars
<1>10. QED
  BY <1>2, <1>4, <1>5, <1>6, <1>7, <1>8, <1>9 DEF RequestStep

LEMMA TakenOnce ==
  ASSUME RequestInv, OnceInv, NEW r \in Calls, Deduct(r)
  PROVE  OnceInv'
<1>1. /\ req \in [Calls -> RequestRecords] /\ deducted \in [Services -> Nat]
      /\ req[r].op = "finalize" /\ req[r].pc = "deduct"
  BY DEF RequestInv, RestTyped, Places, PlaceFits, Deduct
<1>2. PICK s \in Services : local[r].service = {s}
  BY <1>1 DEF RequestInv, AboutOne
<1>3. Service(r) = s
  BY <1>2, TheService
<1>4. /\ req'[r].pc = "checkServices" /\ req'[r].op = "finalize"
      /\ \A q \in Calls \ {r} : req'[q] = req[q]
      /\ local' = local
  BY <1>1, GoToTyped DEF Deduct, Pcs
<1>5. \A q \in Calls : \A t \in Services : Finalizes(q, t)' <=> Finalizes(q, t)
  BY <1>1, <1>4 DEF Finalizes
<1>6. deducted[s] = 0
  <2>1. ~ (deducted[s] > 0)
    BY <1>1, <1>2 DEF OnceInv, Finalizes, BeforeTaking
  <2>2. QED
    BY <1>1, <2>1
<1>7. deducted' = [deducted EXCEPT ![s] = @ + 1]
  BY <1>3 DEF Deduct
<1>8. deducted'[s] = 1 /\ \A t \in Services \ {s} : deducted'[t] = deducted[t]
  BY <1>1, <1>6, <1>7
<1>9. \A t \in Services : deducted'[t] <= 1
  BY <1>8 DEF OnceInv
<1>10. ASSUME NEW t \in Services, deducted'[t] > 0
       PROVE  \E q \in Calls :
                Finalizes(q, t)' /\ req'[q].pc \notin BeforeTaking
  <2>1. CASE t = s
    BY <1>1, <1>2, <1>4, <1>5, <2>1 DEF Finalizes, BeforeTaking
  <2>2. CASE t # s
    <3>1. PICK q \in Calls : Finalizes(q, t) /\ req[q].pc \notin BeforeTaking
      BY <1>8, <1>10, <2>2 DEF OnceInv
    <3>2. q # r
      BY <1>1, <3>1 DEF BeforeTaking
    <3>3. QED
      BY <1>4, <1>5, <3>1, <3>2
  <2>3. QED
    BY <2>1, <2>2
<1>11. QED
  BY <1>5, <1>9, <1>10 DEF OnceInv

\* A step of a request that takes nothing.
LEMMA OthersTakeNothing ==
  ASSUME OnceInv, UNCHANGED deducted,
         \A q \in Calls : \A s \in Services : Finalizes(q, s)' <=> Finalizes(q, s),
         \A q \in Calls : req[q].op = "finalize" /\ req[q].pc \notin BeforeTaking
                            => req'[q].pc \notin BeforeTaking
  PROVE  OnceInv'
<1>1. ASSUME NEW s \in Services, deducted'[s] > 0
      PROVE  \E q \in Calls : Finalizes(q, s)' /\ req'[q].pc \notin BeforeTaking
  <2>1. PICK q \in Calls : Finalizes(q, s) /\ req[q].pc \notin BeforeTaking
    BY <1>1 DEF OnceInv
  <2>2. QED
    BY <2>1 DEF Finalizes
<1>2. QED
  BY <1>1 DEF OnceInv

LEMMA StepTakesOnce ==
  ASSUME RequestInv, OnceInv, NEW r \in Calls, RequestStep(r)
  PROVE  OnceInv'
<1>1. CASE Deduct(r)
  BY <1>1, TakenOnce
<1>2. CASE ~Deduct(r)
  <2>1. UNCHANGED deducted
    BY <1>2, OnlyDeductTakes
  <2>2. OnlyMine(r)
    BY StepsAreOwn
  <2>3. /\ req'[r].op = req[r].op
        /\ req[r].op = "finalize" => local'[r].service = local[r].service
        /\ req[r].op = "finalize" /\ req[r].pc \notin BeforeTaking =>
             req'[r].pc \notin BeforeTaking
    BY FinalizerGoesOn
  <2>4. \A q \in Calls : \A s \in Services : Finalizes(q, s)' <=> Finalizes(q, s)
    BY <2>2, <2>3 DEF OnlyMine, Finalizes
  <2>5. \A q \in Calls : req[q].op = "finalize" /\ req[q].pc \notin BeforeTaking
                           => req'[q].pc \notin BeforeTaking
    BY <2>2, <2>3 DEF OnlyMine
  <2>6. QED
    BY <2>1, <2>4, <2>5, OthersTakeNothing
<1>3. QED
  BY <1>1, <1>2

\* Nobody begins what another request does or has done.
LEMMA BeginsOnce ==
  ASSUME Resubmits = FALSE, RequestInv, OnceInv, NEW r \in Calls, BeginRequest(r)
  PROVE  OnceInv'
<1>1. /\ req \in [Calls -> RequestRecords] /\ local \in [Calls -> LocalRecords]
      /\ deducted' = deducted /\ req[r].pc = "idle"
  BY DEF RequestInv, RestTyped, BeginRequest, BeginPutFields, BeginPut,
         BeginStart, BeginFinalize, BeginTrack, Begin, execVars
<1>2. OnlyMine(r)
  BY StepsAreOwn
<1>3. req[r].op # "finalize"
  BY <1>1 DEF RequestInv, Places, PlaceFits
<1>4. ASSUME NEW s \in Services, BeginFinalize(r, s)
      PROVE  OnceInv'
  <2>1. /\ \A q \in Calls : ~Finalizes(q, s)
        /\ req'[r].op = "finalize" /\ local'[r].service = {s}
    BY <1>1, <1>4
    DEF BeginFinalize, Allow, Begin, Finalizes, RequestRecords, LocalRecords
  <2>2. \A q \in Calls \ {r} : \A t \in Services :
          Finalizes(q, t)' <=> Finalizes(q, t)
    BY <1>2 DEF OnlyMine, Finalizes
  <2>3. \A t \in Services : Finalizes(r, t)' <=> t = s
    BY <2>1 DEF Finalizes
  <2>4. \A p, q \in Calls : \A t \in Services :
          Finalizes(p, t)' /\ Finalizes(q, t)' => p = q
    BY <2>1, <2>2, <2>3 DEF OnceInv
  <2>5. ASSUME NEW t \in Services, deducted'[t] > 0
        PROVE  \E q \in Calls : Finalizes(q, t)' /\ req'[q].pc \notin BeforeTaking
    <3>1. PICK q \in Calls : Finalizes(q, t) /\ req[q].pc \notin BeforeTaking
      BY <1>1, <2>5 DEF OnceInv
    <3>2. q # r
      BY <1>3, <3>1 DEF Finalizes
    <3>3. QED
      BY <1>2, <2>2, <3>1, <3>2 DEF OnlyMine
  <2>6. QED
    BY <1>1, <2>4, <2>5 DEF OnceInv
<1>5. CASE ~ \E s \in Services : BeginFinalize(r, s)
  <2>1. req'[r].op # "finalize"
    BY <1>1, <1>5
    DEF BeginRequest, BeginPutFields, BeginPut, BeginStart, BeginTrack, Begin,
        RequestRecords
  <2>2. \A q \in Calls : \A s \in Services : Finalizes(q, s)' <=> Finalizes(q, s)
    BY <1>2, <1>3, <2>1 DEF OnlyMine, Finalizes
  <2>3. \A q \in Calls : req[q].op = "finalize" /\ req[q].pc \notin BeforeTaking
                           => req'[q].pc \notin BeforeTaking
    BY <1>2, <1>3 DEF OnlyMine
  <2>4. QED
    BY <1>1, <2>2, <2>3, OthersTakeNothing
<1>6. QED
  BY <1>4, <1>5

(***************************************************************************)
(* The supplies of a service are taken at most once when no two requests   *)
(* ask for the same thing, wherever one breaks off: the double deduction   *)
(* takes a resubmitted FinalizeService, and nothing else leads to it.      *)
(***************************************************************************)
THEOREM OnceUnlessResubmitted ==
  ASSUME Resubmits = FALSE
  PROVE  Spec => []DeductedOnce
<1>1. Init => OnceInv
  BY DEF Init, OrderInit, IdleRequest, OnceInv, Finalizes
<1>2. SharedInv /\ OnceInv /\ [Next]_vars => OnceInv'
  <2> SUFFICES ASSUME RequestInv, OnceInv, [Next]_vars
               PROVE  OnceInv'
    BY DEF SharedInv
  <2>1. ASSUME UNCHANGED <<req, execVars>>
        PROVE  OnceInv'
    BY <2>1 DEF OnceInv, Finalizes, execVars
  <2>2. ASSUME NEW r \in Calls, Abandon(r)
        PROVE  OnceInv'
    <3>1. req \in [Calls -> RequestRecords]
      BY DEF RequestInv, RestTyped
    <3>2. /\ req'[r].pc = "done" /\ req'[r].op = req[r].op
          /\ \A q \in Calls \ {r} : req'[q] = req[q]
          /\ UNCHANGED <<local, deducted>>
      BY <2>2, <3>1, GoToTyped DEF Abandon, Pcs, execVars
    <3>3. \A q \in Calls : \A s \in Services : Finalizes(q, s)' <=> Finalizes(q, s)
      BY <3>2 DEF Finalizes
    <3>4. \A q \in Calls : req[q].op = "finalize" /\ req[q].pc \notin BeforeTaking
                             => req'[q].pc \notin BeforeTaking
      BY <3>2 DEF BeforeTaking
    <3>5. QED
      BY <3>2, <3>3, <3>4, OthersTakeNothing
  <2>3. QED
    BY <2>1, <2>2, StepTakesOnce, BeginsOnce
    DEF Next, StatusReplyLost, vars, orderVars
<1>3. OnceInv => DeductedOnce
  BY DEF OnceInv, DeductedOnce
<1>4. QED
  BY <1>1, <1>2, <1>3, SharedInvariant, PTL DEF Spec

-----------------------------------------------------------------------------
(***************************************************************************)
(* The public status.  While FinalizeService alone finishes orders, a      *)
(* request calls TransitionTo, the order is FINALIZADA and a customer is   *)
(* being shown so only after every approved service was finished; and a    *)
(* finished service stays finished until the services are read.            *)
(***************************************************************************)
ApprovedDone == \A s \in ApprovedServices : exec[s] = Done

Shows(r) ==
  /\ call[r].pc # "idle" => ApprovedDone
  /\ req[r].pc \in {"checkDocument", "listServices"}
       /\ req[r].wo.status = Finished => ApprovedDone
  /\ req[r].pc = "shown" /\ req[r].wo.status = Finished =>
       ApprovedServices \subseteq local[r].service

ShownInv ==
  /\ row.status = Finished => ApprovedDone
  /\ \A r \in Calls : Shows(r)

LEMMA DoneStays ==
  ASSUME RequestInv, NEW r \in Calls, RequestStep(r) \/ BeginRequest(r)
  PROVE  ApprovedDone => ApprovedDone'
<1>1. exec \in [Services -> ExecStatuses] /\ ApprovedServices \subseteq Services
  BY ExecutionAssumption DEF RequestInv, RestTyped
<1>2. \A s \in Services : exec[s] = Done => exec'[s] = Done
  BY <1>1, MarksAndCounts DEF MarkFinished, MarkStarted, Deduct, Done, Pending,
     Running
<1>3. QED
  BY <1>1, <1>2 DEF ApprovedDone

\* What a step does to the calls and the row when there is no PUT.
LEMMA CallsAndRow ==
  ASSUME "put" \notin Operations, RequestInv, TransitionTypeOK,
         NEW r \in Calls, RequestStep(r) \/ BeginRequest(r)
  PROVE  /\ \A q \in Calls \ {r} : call'[q] = call[q]
         /\ call[r].pc = "idle" /\ call'[r].pc # "idle" => NoServiceLeft(r)
         /\ UNCHANGED row \/ Moves(r)
         /\ req'[r].pc # "editWrite"
<1>1. /\ req[r].op # "put" /\ req[r].pc # "editWrite"
      /\ req \in [Calls -> RequestRecords]
  BY DEF RequestInv, RestTyped, RequestRecords, Places, PlaceFits
<1>2. ~ PutStep(r)
  BY <1>1 DEF PutStep, EditRead, EditWrite
<1>3. CASE BeginRequest(r)
  <2>1. ASSUME NEW s \in Services, BeginStart(r, s) \/ BeginFinalize(r, s)
        PROVE  UNCHANGED transitionVars /\ req'[r].pc # "editWrite"
    BY <1>1, <2>1, BeginTyped DEF BeginStart, BeginFinalize, Allow, Pcs
  <2>2. ASSUME BeginTrack(r)
        PROVE  UNCHANGED transitionVars /\ req'[r].pc # "editWrite"
    BY <1>1, <2>2, BeginTyped DEF BeginTrack, Pcs
  <2>3. QED
    BY <1>3, <2>1, <2>2 DEF BeginRequest, transitionVars
<1>4. CASE TransitionStep(r) /\ UNCHANGED <<req, execVars>>
  <2>1. call[r].pc # "idle"
    BY <1>4
    DEF TransitionStep, Find, FindSame, FindInvalid, FindValid, Cas,
        CasMatches, CasMisses, Recheck, Notify, NotifySent, NotifyRefused,
        Return
  <2>2. \A q \in Calls \ {r} : call'[q] = call[q]
    BY <1>4
    DEF TransitionTypeOK, TransitionStep, Find, FindSame, FindInvalid,
        FindValid, Cas, CasMisses, Recheck, Notify, NotifySent,
        NotifyRefused, Return, Answer
  <2>3. UNCHANGED row \/ Moves(r)
    BY <1>4
    DEF TransitionStep, Find, FindSame, FindInvalid, FindValid, CasMisses,
        Recheck, Notify, NotifySent, NotifyRefused, Return, Moves
  <2>4. QED
    BY <1>1, <1>4, <2>1, <2>2, <2>3
<1>5. CASE NoServiceLeft(r)
  <2>1. /\ \A q \in Calls \ {r} : call'[q] = call[q]
        /\ UNCHANGED row
    BY <1>5 DEF NoServiceLeft, Invoke, TransitionTypeOK
  <2>2. req'[r].pc # "editWrite"
    BY <1>1, <1>5, GoToTyped DEF NoServiceLeft, Pcs
  <2>3. QED
    BY <1>5, <2>1, <2>2
<1>6. ASSUME NEW pc \in Pcs \ {"editWrite"}, GoTo(r, pc)
      PROVE  req'[r].pc # "editWrite"
  BY <1>1, <1>6, GoToTyped
<1>7. CASE \/ FindService(r) \/ StartCheck(r) \/ StartStock(r)
           \/ MarkStarted(r) \/ FinalizeCheck(r) \/ MarkFinished(r)
  BY <1>6, <1>7
  DEF FindService, StartCheck, StartStock, MarkStarted, FinalizeCheck,
      MarkFinished, Pcs, transitionVars
<1>8. CASE \/ Deduct(r) \/ ServicesLeft(r) \/ FinalizeReturns(r)
           \/ CheckDocument(r)
  BY <1>6, <1>8
  DEF Deduct, ServicesLeft, FinalizeReturns, CheckDocument, Pcs,
      transitionVars
<1>9. CASE TrackReads(r)
  BY <1>1, <1>6, <1>9, ReadTyped
  DEF TrackReads, FindByCode, ListServices, Pcs, transitionVars,
      TransitionTypeOK
<1>10. QED
  BY <1>2, <1>3, <1>4, <1>5, <1>7, <1>8, <1>9 DEF RequestStep

\* A customer comes to see an order only by the two reads.
LEMMA Looks ==
  ASSUME RequestInv, row \in Rows, "put" \notin Operations, NEW r \in Calls,
         RequestStep(r) \/ BeginRequest(r),
         req'[r].pc \in {"checkDocument", "listServices", "shown"}
  PROVE  \/ UNCHANGED <<req, local>>
         \/ req'[r].pc # "shown" /\ req'[r].wo = row
         \/ /\ req'[r].pc = "listServices" /\ req[r].pc = "checkDocument"
            /\ req'[r].wo = req[r].wo
         \/ /\ ListServices(r, "shown") /\ req[r].pc = "listServices"
            /\ req'[r].wo = req[r].wo
<1>1. req \in [Calls -> RequestRecords]
  BY DEF RequestInv, RestTyped
<1>2. ASSUME NEW pc \in Pcs \ {"checkDocument", "listServices", "shown"},
             GoTo(r, pc)
      PROVE  FALSE
  BY <1>1, <1>2, GoToTyped
<1>3. ASSUME NEW pc \in {"findService", "findByCode"},
             NEW op \in Operations, Begin(r, op, pc)
      PROVE  FALSE
  BY <1>1, <1>3, BeginTyped DEF Pcs
<1>4. CASE BeginRequest(r)
  BY <1>3, <1>4
  DEF BeginRequest, BeginStart, BeginFinalize, BeginTrack, Allow
<1>5. CASE PutStep(r)
  <2>1. req[r].op # "put"
    BY <1>1 DEF RequestRecords
  <2>2. QED
    BY <1>2, <1>5, <2>1 DEF PutStep, EditRead, EditWrite, Pcs
<1>6. CASE \/ FindService(r) \/ StartCheck(r) \/ StartStock(r)
           \/ MarkStarted(r) \/ FinalizeCheck(r) \/ MarkFinished(r)
  BY <1>2, <1>6
  DEF FindService, StartCheck, StartStock, MarkStarted, FinalizeCheck,
      MarkFinished, Pcs
<1>7. CASE \/ Deduct(r) \/ ServicesLeft(r) \/ NoServiceLeft(r)
           \/ FinalizeReturns(r)
  BY <1>2, <1>7
  DEF Deduct, ServicesLeft, NoServiceLeft, FinalizeReturns, Pcs
<1>8. CASE CheckDocument(r)
  <2>1. PICK pc \in {"listServices", "done"} : GoTo(r, pc)
    BY <1>8 DEF CheckDocument
  <2>2. req'[r].pc = pc /\ req'[r].wo = req[r].wo
    BY <1>1, <2>1, GoToTyped DEF Pcs
  <2>3. QED
    BY <1>8, <2>2 DEF CheckDocument
<1>9. CASE FindByCode(r, "checkDocument")
  <2>1. req'[r].pc = "checkDocument" /\ req'[r].wo = row
    BY <1>1, <1>9, ReadTyped DEF FindByCode, Pcs
  <2>2. QED
    BY <2>1
<1>10. CASE req[r].pc = "listServices" /\ ListServices(r, "shown")
  BY <1>1, <1>10, GoToTyped DEF ListServices, Pcs
<1>11. QED
  BY <1>4, <1>5, <1>6, <1>7, <1>8, <1>9, <1>10
  DEF RequestStep, TrackReads, execVars

LEMMA ShownInvStep ==
  ASSUME ~ Faults, "put" \notin Operations, SharedInv, ShownInv, [Next]_vars
  PROVE  ShownInv'
<1>0. /\ TransitionTypeOK /\ RequestInv /\ row \in Rows
      /\ local \in [Calls -> LocalRecords]
  BY DEF SharedInv, HistoryInv, TransitionTypeOK, RequestInv, RestTyped
<1>1. CASE UNCHANGED vars
  BY <1>1 DEF vars, orderVars, execVars, ShownInv, Shows, ApprovedDone
<1>2. ASSUME NEW r \in Calls, RequestStep(r) \/ BeginRequest(r)
      PROVE  ShownInv'
  <2>1. ApprovedDone => ApprovedDone'
    BY <1>0, <1>2, DoneStays
  <2>2. /\ \A q \in Calls \ {r} : call'[q] = call[q]
        /\ call[r].pc = "idle" /\ call'[r].pc # "idle" => NoServiceLeft(r)
        /\ UNCHANGED row \/ Moves(r)
        /\ req'[r].pc # "editWrite"
    BY <1>0, <1>2, CallsAndRow
  <2>3. /\ NoServiceLeft(r) => ApprovedDone
        /\ Moves(r) => ApprovedDone
    <3>1. ASSUME NoServiceLeft(r) PROVE ApprovedDone
      BY <3>1, ExecutionAssumption
      DEF NoServiceLeft, ServicesRead, AllFinished, ApprovedDone
    <3>2. ASSUME Moves(r) PROVE call[r].pc # "idle"
      BY <3>2 DEF Moves, Cas, CasReplyLost, CasMatches
    <3>3. QED
      BY <3>1, <3>2 DEF ShownInv, Shows
  <2>4. row'.status = Finished => ApprovedDone'
    BY <2>1, <2>2, <2>3 DEF ShownInv
  <2>5. ASSUME NEW q \in Calls \ {r}
        PROVE  Shows(q)'
    BY <1>0, <1>2, <2>1, <2>2, StepsAreOwn DEF OnlyMine, ShownInv, Shows
  <2>6. call'[r].pc # "idle" => ApprovedDone'
    BY <2>1, <2>2, <2>3 DEF ShownInv, Shows
  <2>7. ASSUME req'[r].pc \in {"checkDocument", "listServices"},
               req'[r].wo.status = Finished
        PROVE  ApprovedDone'
    BY <1>0, <1>2, <2>1, <2>7, Looks DEF ShownInv, Shows
  <2>8. ASSUME req'[r].pc = "shown", req'[r].wo.status = Finished
        PROVE  ApprovedServices \subseteq local'[r].service
    <3>1. CASE UNCHANGED <<req, local>>
      BY <2>8, <3>1 DEF ShownInv, Shows
    <3>2. CASE /\ ListServices(r, "shown") /\ req[r].pc = "listServices"
               /\ req'[r].wo = req[r].wo
      <4>1. ApprovedDone
        BY <2>8, <3>2 DEF ShownInv, Shows
      <4>2. local' = [local EXCEPT ![r].service = {s \in Services :
                                                     exec[s] = Done}]
        BY <3>2 DEF ListServices, ServicesRead
      <4>3. local'[r].service = {s \in Services : exec[s] = Done}
        BY <1>0, <4>2 DEF LocalRecords
      <4>4. QED
        BY <4>1, <4>3, ExecutionAssumption DEF ApprovedDone
    <3>3. QED
      BY <1>0, <1>2, <2>8, <3>1, <3>2, Looks
  <2>9. Shows(r)'
    BY <2>2, <2>6, <2>7, <2>8 DEF Shows
  <2>10. QED
    BY <2>4, <2>5, <2>9 DEF ShownInv
<1>3. ASSUME NEW r \in Calls PROVE ~ Abandon(r) /\ ~ StatusReplyLost(r)
  BY DEF Abandon, StatusReplyLost, CasReplyLost
<1>4. QED
  BY <1>1, <1>2, <1>3 DEF Next

(***************************************************************************)
(* A customer is never shown a finished order together with an approved    *)
(* service that is not, as long as FinalizeService alone finishes orders   *)
(* and no read breaks off.                                                 *)
(***************************************************************************)
THEOREM FinishedIsShownFinished ==
  ASSUME ~ Faults, "put" \notin Operations, Finished \notin InitialStatuses
  PROVE  Spec => []ShownFinishedIsFinished
<1>1. Init => ShownInv
  BY DEF Init, OrderInit, TransitionInit, FirstRow, IdleCall, IdleRequest,
         ShownInv, Shows
<1>2. SharedInv /\ ShownInv /\ [Next]_vars => ShownInv'
  BY ShownInvStep
<1>3. ShownInv => ShownFinishedIsFinished
  BY DEF ShownInv, Shows, ShownFinishedIsFinished
<1>4. QED
  BY <1>1, <1>2, <1>3, SharedInvariant, PTL DEF Spec

-----------------------------------------------------------------------------
(***************************************************************************)
(* The staff edits nothing.                                                *)
(***************************************************************************)
\* Then no request writes the row but through TransitionTo.
LEMMA MechanicsAreCalls ==
  ASSUME "put" \notin Operations
  PROVE  Spec => TransitionSpec
<1>1. Init => TransitionInit
  BY DEF Init, OrderInit
<1>2. ASSUME SharedInv, NEW r \in Calls
      PROVE  ~ EditWrite(r)
  <2>1. req[r].op \in Operations \union {"none"}
    BY <1>2 DEF SharedInv, RequestInv, RestTyped, RequestRecords
  <2>2. req[r].pc # "editWrite"
    BY <1>2, <2>1 DEF SharedInv, RequestInv, Places, PlaceFits
  <2>3. QED
    BY <2>2 DEF EditWrite
<1>3. SharedInv /\ [Next]_vars => [TransitionNext]_transitionVars
  BY <1>2, StepsOnRow
<1>4. QED
  BY <1>1, <1>3, SharedInvariant, PTL DEF Spec, TransitionSpec

(***************************************************************************)
(* While the staff edits no order, what mechanics start, finish and repeat *)
(* looks to the customer like the lifecycle of one order: the mechanics    *)
(* who finish the last services together make it FINALIZADA once, and it   *)
(* is announced at most once, faults and lost replies included.            *)
(***************************************************************************)
THEOREM ExecutionKeepsLifecycle ==
  ASSUME "put" \notin Operations
  PROVE  Spec => /\ ImplementsLifecycle /\ StatusFollowsTable
                 /\ [](OneMoverPerStatus /\ NoDuplicateNotice)
BY MechanicsAreCalls, AloneKeepsAll, PTL

-----------------------------------------------------------------------------
(***************************************************************************)
(* The last finish.  An order all of whose approved services are finished  *)
(* but which is still in execution has a request that will finish it: one  *)
(* between its own finish and the look at the services, or in a            *)
(* TransitionTo whose UPDATE is not out of date.                           *)
(***************************************************************************)
WillFinish(r) ==
  \/ req[r].pc \in {"deduct", "checkServices"}
  \/ call[r].pc = "find"
  \/ call[r].pc = "cas" /\ call[r].from = row.status

FinishDue == AllApprovedDone /\ row.status = InProgress

LastFinishMoves ==
  /\ \A r \in Calls : call[r].pc # "idle" => call[r].target = Finished
  /\ FinishDue => \E r \in Calls : WillFinish(r)

LEMMA FinishAllowed ==
  IsValidTransition(InProgress, Finished) /\ Finished # InProgress
BY DEF IsValidTransition, AllowedTransitions, WorkOrderStatuses, Received,
       InDiagnosis, WaitingApproval, Approved, InProgress, Finished,
       Delivered, Canceled

LEMMA CallWillFinish ==
  ASSUME HistoryInv, LastFinishMoves, NEW r \in Calls, TransitionStep(r),
         UNCHANGED req, WillFinish(r),
         row.status = InProgress, row'.status = InProgress
  PROVE  WillFinish(r)'
<1>0. TransitionTypeOK
  BY DEF HistoryInv
<1>1. CASE req[r].pc \in {"deduct", "checkServices"}
  BY <1>1 DEF WillFinish
<1>2. CASE call[r].pc = "find"
  <2>1. /\ IsValidTransition(row.status, call[r].target)
        /\ row.status # call[r].target
    BY <1>2, FinishAllowed DEF LastFinishMoves
  <2>2. FindValid(r)
    BY <1>2, <2>1
    DEF TransitionStep, Find, FindSame, FindInvalid, Cas, CasMatches,
        CasMisses, Recheck, Notify, NotifySent, NotifyRefused, Return
  <2>3. call'[r].pc = "cas" /\ call'[r].from = row.status
    BY <1>0, <2>2 DEF FindValid, TransitionTypeOK, CallRecords
  <2>4. QED
    BY <2>3 DEF WillFinish
<1>3. CASE call[r].pc = "cas" /\ call[r].from = row.status
  <2>1. Cas(r)
    BY <1>3
    DEF TransitionStep, Find, FindSame, FindInvalid, FindValid, CasMisses,
        Recheck, Notify, NotifySent, NotifyRefused, Return
  <2>2. row'.status = call[r].target /\ call[r].target = Finished
    BY <1>3, <2>1, MoveFollowsTable DEF Moves, LastFinishMoves
  <2>3. QED
    BY <2>2, FinishAllowed
<1>4. QED
  BY <1>1, <1>2, <1>3 DEF WillFinish

\* Without faults the services are read completely: all finished, the order
\* is moved.
LEMMA RequestWillFinish ==
  ASSUME "put" \notin Operations, ~ Faults, SharedInv, LastFinishMoves,
         NEW r \in Calls, RequestStep(r) \/ BeginRequest(r), FinishDue',
         row.status = InProgress, row'.status = InProgress
  PROVE  \/ WillFinish(r)'
         \/ AllApprovedDone /\ ~ WillFinish(r)
<1>0. /\ TransitionTypeOK /\ RequestInv /\ HistoryInv
      /\ req \in [Calls -> RequestRecords]
      /\ exec \in [Services -> ExecStatuses]
      /\ ApprovedServices \subseteq Services
  BY ExecutionAssumption DEF SharedInv, HistoryInv, RequestInv, RestTyped
<1>1. CASE MarkFinished(r)
  <2>1. req'[r].pc = "deduct"
    BY <1>0, <1>1, GoToTyped DEF MarkFinished, Pcs
  <2>2. QED
    BY <2>1 DEF WillFinish
<1>2. CASE Deduct(r)
  <2>1. req'[r].pc = "checkServices"
    BY <1>0, <1>2, GoToTyped DEF Deduct, Pcs
  <2>2. QED
    BY <2>1 DEF WillFinish
<1>3. CASE NoServiceLeft(r)
  <2>1. call'[r].pc = "find"
    BY <1>0, <1>3 DEF NoServiceLeft, Invoke, TransitionTypeOK, CallRecords
  <2>2. QED
    BY <2>1 DEF WillFinish
<1>4. ASSUME ~ MarkFinished(r)
      PROVE  AllApprovedDone
  <2>1. \A s \in Services : exec'[s] = Done => exec[s] = Done
    BY <1>0, <1>4, MarksAndCounts
    DEF MarkStarted, Deduct, Done, Running, Pending
  <2>2. QED
    BY <1>0, <2>1 DEF FinishDue, AllApprovedDone
<1>5. CASE ServicesLeft(r)
  <2>1. exec' = exec
    BY <1>5 DEF ServicesLeft, execVars
  <2>2. QED
    BY <1>5, <2>1
    DEF ServicesLeft, ServicesRead, AllFinished, FinishDue, AllApprovedDone
<1>6. CASE TransitionStep(r) /\ UNCHANGED <<req, execVars>>
  <2>1. AllApprovedDone
    BY <1>6 DEF FinishDue, AllApprovedDone, execVars
  <2>2. QED
    BY <1>0, <1>6, <2>1, CallWillFinish
<1>7. ASSUME UNCHANGED <<call, row>>,
             req[r].pc \notin {"deduct", "checkServices"}, ~ MarkFinished(r)
      PROVE  \/ WillFinish(r)'
             \/ AllApprovedDone /\ ~ WillFinish(r)
  BY <1>4, <1>7 DEF WillFinish
<1>8. CASE BeginRequest(r)
  BY <1>7, <1>8
  DEF BeginRequest, BeginStart, BeginFinalize, BeginTrack, Begin,
      MarkFinished, transitionVars
<1>9. CASE PutStep(r)
  BY <1>0, <1>9
  DEF PutStep, EditRead, EditWrite, RequestRecords, RequestInv, Places,
      PlaceFits
<1>10. CASE \/ FindService(r) \/ StartCheck(r) \/ StartStock(r)
            \/ MarkStarted(r) \/ FinalizeCheck(r) \/ FinalizeReturns(r)
            \/ TrackReads(r) \/ CheckDocument(r)
  BY <1>7, <1>10
  DEF FindService, StartCheck, StartStock, MarkStarted, FinalizeCheck,
      FinalizeReturns, TransitionReturned, TrackReads, FindByCode,
      ListServices, CheckDocument, MarkFinished, transitionVars
<1>11. QED
  BY <1>1, <1>2, <1>3, <1>5, <1>6, <1>8, <1>9, <1>10 DEF RequestStep

LEMMA TargetsStay ==
  ASSUME "put" \notin Operations, RequestInv, TransitionTypeOK,
         NEW r \in Calls, RequestStep(r) \/ BeginRequest(r),
         call[r].pc # "idle"
  PROVE  call'[r].target = call[r].target
<1>1. CASE TransitionStep(r)
  BY <1>1
  DEF TransitionTypeOK, CallRecords, TransitionStep, Find, FindSame,
      FindInvalid, FindValid, Cas, CasMisses, Recheck, Notify, NotifySent,
      NotifyRefused, Return, Answer
<1>2. ~ NoServiceLeft(r)
  BY DEF NoServiceLeft, Invoke
<1>3. CASE BeginRequest(r)
  BY <1>3
  DEF BeginRequest, BeginStart, BeginFinalize, BeginTrack, transitionVars
<1>4. QED
  BY <1>1, <1>2, <1>3
  DEF RequestStep, PutStep, EditRead, EditWrite, WriteBack, FindService,
      StartCheck, StartStock, MarkStarted, FinalizeCheck, MarkFinished,
      Deduct, ServicesLeft, FinalizeReturns, TrackReads, FindByCode,
      ListServices, CheckDocument, transitionVars

LEMMA LastFinishStep ==
  ASSUME "put" \notin Operations, ~ Faults, SharedInv, LastFinishMoves,
         [Next]_vars
  PROVE  LastFinishMoves'
<1>0. TransitionTypeOK /\ RequestInv /\ HistoryInv
  BY DEF SharedInv, HistoryInv
<1>1. CASE UNCHANGED vars
  BY <1>1
  DEF vars, orderVars, execVars, LastFinishMoves, FinishDue, AllApprovedDone,
      WillFinish
<1>2. ASSUME NEW r \in Calls, RequestStep(r) \/ BeginRequest(r)
      PROVE  LastFinishMoves'
  <2>1. /\ \A q \in Calls \ {r} : call'[q] = call[q]
        /\ call[r].pc = "idle" /\ call'[r].pc # "idle" => NoServiceLeft(r)
        /\ UNCHANGED row \/ Moves(r)
    BY <1>0, <1>2, CallsAndRow
  <2>2. call'[r].pc # "idle" => call'[r].target = Finished
    <3>1. CASE NoServiceLeft(r)
      BY <1>0, <3>1
      DEF NoServiceLeft, Invoke, TransitionTypeOK, CallRecords
    <3>2. CASE call[r].pc # "idle"
      <4>1. call'[r].target = call[r].target
        BY <1>0, <1>2, <3>2, TargetsStay
      <4>2. QED
        BY <3>2, <4>1 DEF LastFinishMoves
    <3>3. QED
      BY <2>1, <3>1, <3>2
  <2>3. ASSUME FinishDue'
        PROVE  \E q \in Calls : WillFinish(q)'
    <3>1. row'.status = InProgress /\ row.status = InProgress
      <4>1. ASSUME Moves(r)
            PROVE  row'.status = Finished
        BY <1>0, <4>1, MoveFollowsTable
        DEF Moves, Cas, CasReplyLost, CasMatches, LastFinishMoves
      <4>2. QED
        BY <2>1, <2>3, <4>1, FinishAllowed DEF FinishDue
    <3>2. CASE WillFinish(r)'
      BY <3>2
    <3>3. CASE AllApprovedDone /\ ~ WillFinish(r)
      <4>1. PICK q \in Calls : WillFinish(q) /\ q # r
        BY <3>1, <3>3 DEF LastFinishMoves, FinishDue
      <4>2. req'[q] = req[q]
        BY <1>0, <1>2, <4>1, StepsAreOwn DEF OnlyMine
      <4>3. WillFinish(q)'
        BY <2>1, <3>1, <4>1, <4>2 DEF WillFinish
      <4>4. QED
        BY <4>3
    <3>4. QED
      BY <1>2, <2>3, <3>1, <3>2, <3>3, RequestWillFinish
  <2>4. QED
    BY <2>1, <2>2, <2>3 DEF LastFinishMoves
<1>3. ASSUME NEW r \in Calls
      PROVE  ~ Abandon(r) /\ ~ StatusReplyLost(r)
  BY DEF Abandon, StatusReplyLost, CasReplyLost
<1>4. QED
  BY <1>1, <1>2, <1>3 DEF Next

(***************************************************************************)
(* The last finish is never lost: when no statement fails and the staff    *)
(* edits nothing, an order whose approved services are all finished leaves *)
(* EM_EXECUCAO or some request is on its way to move it, however many      *)
(* mechanics finish at the same moment.  With the fairness of the runs,    *)
(* this is why FinishedServicesFinishOrder holds.                          *)
(***************************************************************************)
THEOREM FinishNeverLost ==
  ASSUME "put" \notin Operations, ~ Faults
  PROVE  Spec => []LastFinishMoves
<1>1. Init => LastFinishMoves
  <2> SUFFICES ASSUME Init
               PROVE  LastFinishMoves
    OBVIOUS
  <2>1. \A r \in Calls : call[r].pc = "idle"
    BY DEF Init, OrderInit, TransitionInit, IdleCall
  <2>2. \A s \in ApprovedServices : exec[s] # Done
    BY ExecutionAssumption DEF Init, Done, Running, Pending
  <2>3. QED
    BY <2>1, <2>2 DEF LastFinishMoves, FinishDue, AllApprovedDone
<1>2. SharedInv /\ LastFinishMoves /\ [Next]_vars => LastFinishMoves'
  BY LastFinishStep
<1>3. QED
  BY <1>1, <1>2, SharedInvariant, PTL DEF Spec
===============================================================================
