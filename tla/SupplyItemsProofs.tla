--------------------------- MODULE SupplyItemsProofs ---------------------------
(***************************************************************************)
(* Theorems about SupplyItems, for any number of services, supplies and    *)
(* requests and batches of any length, with and without faults.            *)
(***************************************************************************)
EXTENDS SupplyItems, FiniteSetTheorems, TLAPS

-----------------------------------------------------------------------------
(***************************************************************************)
(* A request, its transaction and what it has added.                       *)
(***************************************************************************)
Pcs == {"idle", "find", "ensure", "read", "insert", "commit", "delete",
        "strip", "refresh", "unrefreshed", "done", "broken"}

\* The places of a request that has made its change, or given up.
Over == {"refresh", "unrefreshed", "done", "broken"}

RequestRecords ==
  [op : {"none", "add", "remove service", "remove supply"}, pc : Pcs,
   service : Services, batch : Seq(Supplies), rows : Seq(Links),
   target : SUBSET (Requests \X Supplies), answer : Statuses]

BatchOf(x) == {x.batch[i] : i \in DOMAIN x.batch}

\* The rows that a request has prepared are those of its batch, in order.
RowsFit(r, x) ==
  /\ Len(x.rows) <= Len(x.batch)
  /\ \A i \in 1..Len(x.rows) :
       x.rows[i] = [by |-> r, service |-> x.service, supply |-> x.batch[i]]

\* The transaction P of request r in state x has inserted the first of them.
TransactionFits(x, P) ==
  /\ x.pc = "insert" => /\ IsFiniteSet(P) /\ Cardinality(P) < Len(x.rows)
                        /\ P = {x.rows[i] : i \in 1..Cardinality(P)}
  /\ x.pc = "commit" => P = {x.rows[i] : i \in 1..Len(x.rows)}
  /\ x.pc \notin {"insert", "commit"} => P = {}

PlaceFits(x) ==
  /\ x.op = "none" <=> x.pc = "idle"
  /\ x.op = "add" => x.batch # <<>>
  /\ x.pc \in {"idle", "find", "ensure"} => x.rows = <<>>
  /\ x.pc \in {"read", "insert", "commit"} => x.op = "add"
  /\ x.pc = "read" => Len(x.rows) < Len(x.batch)
  /\ x.pc \in {"insert", "commit"} => Len(x.rows) = Len(x.batch)
  /\ x.pc = "strip" => x.op = "remove service"
  /\ x.pc = "delete" => x.op \in {"remove service", "remove supply"}

\* The supplies C were committed, if any, by a request that is over.
OutcomeFits(x, C) ==
  /\ C # {} => x.op = "add" /\ x.pc \in Over /\ C = BatchOf(x)
  /\ x.op = "add" /\ x.pc = "done" => (x.answer = Ok <=> C # {})
  /\ x.op = "add" /\ x.pc \in {"refresh", "unrefreshed"} => C # {}

Fits(r, x, P, C) ==
  RowsFit(r, x) /\ TransactionFits(x, P) /\ PlaceFits(x) /\ OutcomeFits(x, C)

RequestTypes ==
  /\ req \in [Requests -> RequestRecords]
  /\ pending \in [Requests -> SUBSET Links]
  /\ committed \in [Requests -> SUBSET Supplies]

RequestsInv ==
  /\ RequestTypes
  /\ \A r \in Requests : Fits(r, req[r], pending[r], committed[r])

LEMMA ErrorTypes ==
  /\ \A e : MapErrorResponse(e) \in Statuses /\ MapErrorResponse(e) # Ok
  /\ MapErrorResponse("no rows") = NotFound
  /\ MapErrorResponse("foreign key") = Conflict
  /\ Ok \in Statuses
BY DEF MapErrorResponse, DbErrResponse, Statuses, Ok, BadRequest, NotFound,
       Conflict, Unprocessable, InternalError

LEMMA RequestsInit == Init => RequestsInv
<1> SUFFICES ASSUME Init PROVE RequestsInv
  OBVIOUS
<1>1. AnyService \in Services
  BY SupplyAssumption DEF AnyService
<1>2. IdleRequest \in RequestRecords
  <2>1. <<>> \in Seq(Supplies) /\ <<>> \in Seq(Links)
    OBVIOUS
  <2>2. {} \in SUBSET (Requests \X Supplies)
    OBVIOUS
  <2>3. Ok \in Statuses
    BY ErrorTypes
  <2>4. QED
    BY <1>1, <2>1, <2>2, <2>3 DEF IdleRequest, RequestRecords, Pcs
<1>3. RequestTypes
  BY <1>2 DEF Init, RequestTypes
<1>4. ASSUME NEW r \in Requests
      PROVE  Fits(r, IdleRequest, {}, {})
  BY DEF Fits, RowsFit, TransactionFits, PlaceFits, OutcomeFits, Over, IdleRequest
<1>5. QED
  BY <1>3, <1>4 DEF Init, RequestsInv

\* A step of one request leaves the others alone.
LEMMA OneRequest ==
  ASSUME RequestsInv, RequestTypes', NEW r \in Requests,
         \A q \in Requests \ {r} : /\ req'[q] = req[q]
                                   /\ pending'[q] = pending[q]
                                   /\ committed'[q] = committed[q],
         Fits(r, req'[r], pending'[r], committed'[r])
  PROVE  RequestsInv'
BY DEF RequestsInv

LEMMA GotoTyped ==
  ASSUME RequestTypes, NEW r \in Requests, NEW pc \in Pcs, Goto(r, pc)
  PROVE  /\ req' \in [Requests -> RequestRecords]
         /\ req'[r] = [req[r] EXCEPT !.pc = pc]
         /\ \A q \in Requests \ {r} : req'[q] = req[q]
<1>1. req[r] \in RequestRecords
  BY DEF RequestTypes
<1>2. [req[r] EXCEPT !.pc = pc] \in RequestRecords
  BY <1>1 DEF RequestRecords
<1>3. req' = [req EXCEPT ![r] = [req[r] EXCEPT !.pc = pc]]
  BY DEF Goto
<1>4. QED
  BY <1>2, <1>3 DEF RequestTypes

LEMMA AnswerTyped ==
  ASSUME RequestTypes, NEW r \in Requests, NEW status \in Statuses,
         Answer(r, status)
  PROVE  /\ req' \in [Requests -> RequestRecords]
         /\ req'[r] = [req[r] EXCEPT !.pc = "done", !.answer = status]
         /\ \A q \in Requests \ {r} : req'[q] = req[q]
<1>1. req[r] \in RequestRecords
  BY DEF RequestTypes
<1>2. [req[r] EXCEPT !.pc = "done", !.answer = status] \in RequestRecords
  BY <1>1 DEF RequestRecords, Pcs
<1>3. req' = [req EXCEPT ![r] = [req[r] EXCEPT !.pc = "done", !.answer = status]]
  BY DEF Answer
<1>4. QED
  BY <1>2, <1>3 DEF RequestTypes

\* The transaction of r is rolled back, or never was.
LEMMA RollbackTyped ==
  ASSUME RequestTypes, NEW r \in Requests,
         Rollback(r) \/ (pending[r] = {} /\ UNCHANGED pending)
  PROVE  /\ pending' \in [Requests -> SUBSET Links]
         /\ pending'[r] = {}
         /\ \A q \in Requests \ {r} : pending'[q] = pending[q]
BY DEF RequestTypes, Rollback

(***************************************************************************)
(* A request ends without having added anything.                           *)
(***************************************************************************)
LEMMA RefusedKeeps ==
  ASSUME RequestsInv, NEW r \in Requests, NEW status \in Statuses,
         Answer(r, status), req[r].op # "none",
         req[r].op = "add" => status # Ok, committed[r] = {},
         Rollback(r) \/ (pending[r] = {} /\ UNCHANGED pending),
         UNCHANGED committed
  PROVE  RequestsInv'
<1> DEFINE x == req[r]
<1>1. /\ req' \in [Requests -> RequestRecords]
      /\ req'[r] = [x EXCEPT !.pc = "done", !.answer = status]
      /\ \A q \in Requests \ {r} : req'[q] = req[q]
  BY AnswerTyped DEF RequestsInv
<1>2. /\ pending' \in [Requests -> SUBSET Links]
      /\ pending'[r] = {}
      /\ \A q \in Requests \ {r} : pending'[q] = pending[q]
  BY RollbackTyped DEF RequestsInv
<1>3. RequestTypes'
  BY <1>1, <1>2 DEF RequestsInv, RequestTypes
<1>4. x \in RequestRecords /\ RowsFit(r, x) /\ PlaceFits(x)
  BY DEF RequestsInv, RequestTypes, Fits
<1>5. Fits(r, [x EXCEPT !.pc = "done", !.answer = status], {}, {})
  BY <1>4
  DEF Fits, RowsFit, TransactionFits, PlaceFits, OutcomeFits, RequestRecords
<1>6. QED
  BY <1>1, <1>2, <1>3, <1>5, OneRequest

LEMMA BrokenKeeps ==
  ASSUME RequestsInv, NEW r \in Requests, Goto(r, "broken"),
         req[r].op # "none",
         Rollback(r) \/ (pending[r] = {} /\ UNCHANGED pending),
         UNCHANGED committed
  PROVE  RequestsInv'
<1> DEFINE x == req[r]
<1>1. /\ req' \in [Requests -> RequestRecords]
      /\ req'[r] = [x EXCEPT !.pc = "broken"]
      /\ \A q \in Requests \ {r} : req'[q] = req[q]
  BY GotoTyped DEF RequestsInv, Pcs
<1>2. /\ pending' \in [Requests -> SUBSET Links]
      /\ pending'[r] = {}
      /\ \A q \in Requests \ {r} : pending'[q] = pending[q]
  BY RollbackTyped DEF RequestsInv
<1>3. RequestTypes'
  BY <1>1, <1>2 DEF RequestsInv, RequestTypes
<1>4. /\ x \in RequestRecords /\ RowsFit(r, x) /\ PlaceFits(x)
      /\ OutcomeFits(x, committed[r])
  BY DEF RequestsInv, RequestTypes, Fits
<1>5. Fits(r, [x EXCEPT !.pc = "broken"], {}, committed[r])
  <2> DEFINE y == [x EXCEPT !.pc = "broken"]
  <2>1. /\ y.pc = "broken" /\ y.op = x.op /\ y.rows = x.rows
        /\ y.batch = x.batch /\ y.service = x.service
    BY <1>4 DEF RequestRecords
  <2> HIDE DEF y
  <2>2. RowsFit(r, y) /\ TransactionFits(y, {}) /\ PlaceFits(y)
    BY <1>4, <2>1 DEF RowsFit, TransactionFits, PlaceFits
  <2>3. OutcomeFits(y, committed[r])
    BY <1>4, <2>1 DEF OutcomeFits, BatchOf, Over
  <2>4. QED
    BY <2>2, <2>3 DEF Fits, y
<1>6. QED
  BY <1>1, <1>2, <1>3, <1>5, OneRequest

\* What holds of a request that is not over.
LEMMA Underway ==
  ASSUME RequestsInv, NEW r \in Requests, req[r].pc \notin Over
  PROVE  /\ req[r] \in RequestRecords
         /\ Fits(r, req[r], pending[r], {})
         /\ committed[r] = {}
         /\ req[r].pc \notin {"insert", "commit"} => pending[r] = {}
         /\ req[r].pc # "idle" => req[r].op # "none"
BY DEF RequestsInv, RequestTypes, Fits, OutcomeFits, TransactionFits, PlaceFits, Over

\* A request that only moves on outside its transaction.
LEMMA GotoKeeps ==
  ASSUME RequestsInv, NEW r \in Requests, NEW pc \in Pcs, Goto(r, pc),
         req[r].pc \notin Over \union {"insert", "commit"},
         pc \notin {"unrefreshed", "done", "broken", "insert", "commit"},
         pc = "refresh" => req[r].op # "add",
         PlaceFits([req[r] EXCEPT !.pc = pc]),
         UNCHANGED <<pending, committed>>
  PROVE  RequestsInv'
<1> DEFINE x == req[r]
<1>1. /\ req' \in [Requests -> RequestRecords]
      /\ req'[r] = [x EXCEPT !.pc = pc]
      /\ \A q \in Requests \ {r} : req'[q] = req[q]
  BY GotoTyped DEF RequestsInv
<1>2. RequestTypes'
  BY <1>1 DEF RequestsInv, RequestTypes
<1>3. x \in RequestRecords /\ RowsFit(r, x) /\ pending[r] = {}
      /\ committed[r] = {}
  BY Underway DEF Fits
<1>4. Fits(r, [x EXCEPT !.pc = pc], {}, {})
  BY <1>3 DEF Fits, RowsFit, TransactionFits, OutcomeFits, RequestRecords, Over
<1>5. QED
  BY <1>1, <1>2, <1>3, <1>4, OneRequest

-----------------------------------------------------------------------------
(***************************************************************************)
(* The steps of the handlers.                                              *)
(***************************************************************************)
LEMMA BeginKeeps ==
  ASSUME RequestsInv, links \subseteq Links, NEW r \in Requests, Begin(r)
  PROVE  RequestsInv'
<1> DEFINE x == req[r]
<1>1. /\ x \in RequestRecords /\ Fits(r, x, pending[r], {}) /\ x.pc = "idle"
      /\ pending[r] = {} /\ committed[r] = {} /\ UNCHANGED <<pending, committed>>
  BY Underway DEF Begin, tables, history, Over
<1>2. x.rows = <<>>
  BY <1>1 DEF Fits, PlaceFits
<1>3. ASSUME NEW y \in RequestRecords, req' = [req EXCEPT ![r] = y],
             y.pc = "find", y.op # "none", y.rows = <<>>,
             y.op = "add" => y.batch # <<>>
      PROVE  RequestsInv'
  <2>1. /\ req' \in [Requests -> RequestRecords] /\ req'[r] = y
        /\ \A q \in Requests \ {r} : req'[q] = req[q]
    BY <1>3 DEF RequestsInv, RequestTypes
  <2>2. RequestTypes'
    BY <1>1, <2>1 DEF RequestsInv, RequestTypes
  <2>3. y.batch \in Seq(Supplies)
    BY DEF RequestRecords
  <2>4. RowsFit(r, y)
    BY <1>3, <2>3 DEF RowsFit
  <2>5. Fits(r, y, {}, {})
    BY <1>3, <2>4 DEF Fits, TransactionFits, PlaceFits, OutcomeFits, Over
  <2>6. QED
    BY <1>1, <2>1, <2>2, <2>5, OneRequest
<1>4. ASSUME NEW w \in Services, NEW b \in Batches,
             req' = [req EXCEPT ![r].op = "add", ![r].pc = "find",
                                ![r].service = w, ![r].batch = b]
      PROVE  RequestsInv'
  <2> DEFINE y == [x EXCEPT !.op = "add", !.pc = "find", !.service = w,
                            !.batch = b]
  <2>1. b \in Seq(Supplies) /\ b # <<>>
    BY SupplyAssumption
  <2>2. y \in RequestRecords
    BY <1>1, <2>1 DEF RequestRecords, Pcs
  <2>3. req' = [req EXCEPT ![r] = y]
    BY <1>4
  <2>4. y.pc = "find" /\ y.op = "add" /\ y.rows = <<>> /\ y.batch = b
    BY <1>1, <1>2 DEF RequestRecords
  <2> HIDE DEF y
  <2>5. QED
    BY <1>3, <2>1, <2>2, <2>3, <2>4
<1>5. ASSUME NEW w \in Services,
             req' = [req EXCEPT ![r].op = "remove service", ![r].pc = "find",
                                ![r].service = w]
      PROVE  RequestsInv'
  <2> DEFINE y == [x EXCEPT !.op = "remove service", !.pc = "find",
                            !.service = w]
  <2>1. y \in RequestRecords
    BY <1>1 DEF RequestRecords, Pcs
  <2>2. req' = [req EXCEPT ![r] = y]
    BY <1>5
  <2>3. y.pc = "find" /\ y.op = "remove service" /\ y.rows = <<>>
    BY <1>1, <1>2 DEF RequestRecords
  <2> HIDE DEF y
  <2>4. QED
    BY <1>3, <2>1, <2>2, <2>3
<1>6. ASSUME NEW w \in Services, NEW l \in links,
             req' = [req EXCEPT ![r].op = "remove supply", ![r].pc = "find",
                                ![r].service = w,
                                ![r].target = {<<l.by, l.supply>>}]
      PROVE  RequestsInv'
  <2> DEFINE y == [x EXCEPT !.op = "remove supply", !.pc = "find",
                            !.service = w, !.target = {<<l.by, l.supply>>}]
  <2>1. {<<l.by, l.supply>>} \in SUBSET (Requests \X Supplies)
    <3>1. l.by \in Requests /\ l.supply \in Supplies
      BY DEF Links
    <3>2. QED
      BY <3>1
  <2>2. y \in RequestRecords
    BY <1>1, <2>1 DEF RequestRecords, Pcs
  <2>3. req' = [req EXCEPT ![r] = y]
    BY <1>6
  <2>4. y.pc = "find" /\ y.op = "remove supply" /\ y.rows = <<>>
    BY <1>1, <1>2 DEF RequestRecords
  <2> HIDE DEF y
  <2>5. QED
    BY <1>3, <2>2, <2>3, <2>4
<1>7. QED
  BY <1>4, <1>5, <1>6 DEF Begin

LEMMA ChecksKeep ==
  ASSUME RequestsInv, NEW r \in Requests,
         FindService(r) \/ EnsureItemsCanChange(r)
  PROVE  RequestsInv'
<1> DEFINE x == req[r]
<1>1. x.pc \in {"find", "ensure"} /\ UNCHANGED <<pending, committed>>
  BY DEF FindService, EnsureItemsCanChange, tables, history
<1>2. /\ x \in RequestRecords /\ PlaceFits(x) /\ x.op # "none"
      /\ pending[r] = {} /\ committed[r] = {}
  BY <1>1, Underway DEF Fits, Over
<1>3. ASSUME NEW e, Answer(r, MapErrorResponse(e))
      PROVE  RequestsInv'
  BY <1>1, <1>2, <1>3, ErrorTypes, RefusedKeeps
<1>4. CASE FindService(r)
  <2>1. ASSUME Goto(r, "ensure") PROVE RequestsInv'
    <3>1. PlaceFits([x EXCEPT !.pc = "ensure"])
      BY <1>1, <1>2 DEF PlaceFits, RequestRecords
    <3>2. QED
      BY <1>1, <2>1, <3>1, GotoKeeps DEF Pcs, Over
  <2>2. QED
    BY <1>3, <1>4, <2>1 DEF FindService
<1>5. CASE EnsureItemsCanChange(r)
  <2>1. ASSUME Goto(r, FirstStatement(x.op)) PROVE RequestsInv'
    <3> DEFINE pc == FirstStatement(x.op)
    <3>1. \/ x.op = "add" /\ pc = "read"
          \/ x.op = "remove supply" /\ pc = "delete"
          \/ x.op = "remove service" /\ pc = "strip"
      <4>1. x.op \in {"add", "remove supply", "remove service"}
        BY <1>2 DEF RequestRecords
      <4>2. CASE x.op = "add"
        BY <4>2 DEF FirstStatement
      <4>3. CASE x.op = "remove supply"
        BY <4>3 DEF FirstStatement
      <4>4. CASE x.op = "remove service"
        BY <4>4 DEF FirstStatement
      <4>5. QED
        BY <4>1, <4>2, <4>3, <4>4
    <3>2. x.op = "add" => Len(x.rows) < Len(x.batch)
      <4>1. x.batch \in Seq(Supplies) /\ x.rows = <<>>
        BY <1>1, <1>2 DEF RequestRecords, PlaceFits
      <4>2. x.op = "add" => x.batch # <<>>
        BY <1>2 DEF PlaceFits
      <4>3. QED
        BY <4>1, <4>2
    <3>3. PlaceFits([x EXCEPT !.pc = pc])
      BY <1>1, <1>2, <3>1, <3>2 DEF PlaceFits, RequestRecords
    <3>4. pc \in Pcs \ (Over \union {"insert", "commit"})
      BY <3>1 DEF Pcs, Over
    <3> HIDE DEF pc
    <3>5. Goto(r, pc)
      BY <2>1 DEF pc
    <3>6. QED
      BY <1>1, <3>3, <3>4, <3>5, GotoKeeps DEF Over
  <2>2. QED
    BY <1>3, <1>5, <2>1 DEF EnsureItemsCanChange
<1>6. QED
  BY <1>4, <1>5

LEMMA FindSupplyKeeps ==
  ASSUME RequestsInv, supplies \subseteq Supplies, NEW r \in Requests,
         FindSupply(r)
  PROVE  RequestsInv'
<1> DEFINE x == req[r]
           n == Len(x.rows)
           s == x.batch[n + 1]
           new == [by |-> r, service |-> x.service, supply |-> s]
<1>1. x.op = "add" /\ x.pc = "read" /\ UNCHANGED <<pending, committed>>
  BY DEF FindSupply, At, tables, history
<1>2. /\ x \in RequestRecords /\ PlaceFits(x) /\ RowsFit(r, x)
      /\ pending[r] = {} /\ committed[r] = {}
  BY <1>1, Underway DEF Fits, Over
<1>3. /\ x.rows \in Seq(Links) /\ x.batch \in Seq(Supplies)
      /\ n \in Nat /\ Len(x.batch) \in Nat /\ n < Len(x.batch)
  <2>1. x.rows \in Seq(Links) /\ x.batch \in Seq(Supplies)
    BY <1>2 DEF RequestRecords
  <2>2. n < Len(x.batch)
    BY <1>1, <1>2 DEF PlaceFits
  <2>3. QED
    BY <2>1, <2>2
<1>4. CASE s \notin supplies
  <2>1. Answer(r, MapErrorResponse("no rows"))
    BY <1>4 DEF FindSupply
  <2>2. QED
    BY <1>1, <1>2, <2>1, ErrorTypes, RefusedKeeps
<1>5. CASE s \in supplies
  <2> DEFINE pc == IF n + 1 = Len(x.batch) THEN "insert" ELSE "read"
             y == [x EXCEPT !.rows = Append(x.rows, new), !.pc = pc]
  <2>1. new \in Links
    <3>1. s \in Supplies
      BY <1>5
    <3>2. x.service \in Services
      BY <1>2 DEF RequestRecords
    <3>3. QED
      BY <3>1, <3>2 DEF Links
  <2> HIDE DEF new
  <2>2. /\ Append(x.rows, new) \in Seq(Links)
        /\ Len(Append(x.rows, new)) = n + 1
        /\ \A i \in 1..n : Append(x.rows, new)[i] = x.rows[i]
        /\ Append(x.rows, new)[n + 1] = new
    BY <1>3, <2>1
  <2>3. y \in RequestRecords
    BY <1>2, <2>2 DEF RequestRecords, Pcs
  <2>4. req' = [req EXCEPT ![r] = y]
    BY <1>5 DEF FindSupply, new
  <2>5. /\ y.rows = Append(x.rows, new) /\ y.pc = pc
        /\ y.batch = x.batch /\ y.service = x.service /\ y.op = "add"
    BY <1>1, <1>2 DEF RequestRecords
  <2> HIDE DEF y
  <2>6. RowsFit(r, y)
    <3>1. Len(y.rows) <= Len(y.batch)
      BY <1>3, <2>2, <2>5
    <3>2. ASSUME NEW i \in 1..(n + 1)
          PROVE  y.rows[i] = [by |-> r, service |-> y.service,
                              supply |-> y.batch[i]]
      <4>1. CASE i \in 1..n
        BY <1>2, <2>2, <2>5, <4>1 DEF RowsFit
      <4>2. CASE i = n + 1
        BY <2>2, <2>5, <4>2 DEF new
      <4>3. QED
        BY <1>3, <4>1, <4>2
    <3>3. QED
      BY <2>2, <2>5, <3>1, <3>2 DEF RowsFit
  <2>7. PlaceFits(y)
    <3>1. x.batch # <<>>
      BY <1>1, <1>2 DEF PlaceFits
    <3>2. CASE n + 1 = Len(x.batch)
      <4>1. y.pc = "insert" /\ Len(y.rows) = Len(y.batch)
        BY <2>2, <2>5, <3>2
      <4>2. QED
        BY <2>5, <3>1, <4>1 DEF PlaceFits
    <3>3. CASE n + 1 # Len(x.batch)
      <4>1. y.pc = "read" /\ Len(y.rows) = n + 1 /\ y.batch = x.batch
        BY <2>2, <2>5, <3>3
      <4>2. n + 1 < Len(x.batch)
        BY <1>3, <3>3
      <4>3. QED
        BY <2>5, <3>1, <4>1, <4>2 DEF PlaceFits
    <3>4. QED
      BY <3>2, <3>3
  <2>8. TransactionFits(y, {})
    <3>1. y.pc = "insert" => /\ IsFiniteSet({}) /\ Cardinality({}) = 0
                             /\ Cardinality({}) < Len(y.rows)
                             /\ {} = {y.rows[i] : i \in 1..Cardinality({})}
      BY <1>3, <2>2, <2>5, FS_EmptySet
    <3>2. y.pc # "commit"
      BY <2>5
    <3>3. QED
      BY <3>1, <3>2 DEF TransactionFits
  <2>9. Fits(r, y, {}, {})
    BY <2>5, <2>6, <2>7, <2>8 DEF Fits, OutcomeFits, Over
  <2>10. /\ req' \in [Requests -> RequestRecords] /\ req'[r] = y
         /\ \A q \in Requests \ {r} : req'[q] = req[q]
    BY <2>3, <2>4 DEF RequestsInv, RequestTypes
  <2>11. RequestTypes'
    BY <1>1, <2>10 DEF RequestsInv, RequestTypes
  <2>12. QED
    BY <1>1, <1>2, <2>9, <2>10, <2>11, OneRequest
<1>6. QED
  BY <1>4, <1>5

LEMMA InsertRowKeeps ==
  ASSUME RequestsInv, NEW r \in Requests, InsertRow(r)
  PROVE  RequestsInv'
<1> DEFINE x == req[r]
           P == pending[r]
           k == Cardinality(P)
           row == x.rows[k + 1]
<1>1. x.op = "add" /\ x.pc = "insert" /\ UNCHANGED committed
  BY DEF InsertRow, At, history
<1>2. /\ x \in RequestRecords /\ PlaceFits(x) /\ RowsFit(r, x)
      /\ TransactionFits(x, P) /\ committed[r] = {}
  BY <1>1, Underway DEF Fits, Over
<1>3. /\ x.rows \in Seq(Links) /\ IsFiniteSet(P) /\ k < Len(x.rows)
      /\ P = {x.rows[i] : i \in 1..k} /\ P \subseteq Links
  BY <1>1, <1>2 DEF RequestRecords, TransactionFits, RequestsInv, RequestTypes
<1>4. k \in Nat /\ Len(x.rows) \in Nat
  BY <1>3, FS_CardinalityType
<1>5. CASE InsertRefusal(r) # {}
  <2>1. PICK e \in InsertRefusal(r) : Answer(r, MapErrorResponse(e))
    BY <1>5 DEF InsertRow
  <2>2. Rollback(r)
    BY <1>5 DEF InsertRow
  <2>3. QED
    <3>1. MapErrorResponse(e) \in Statuses /\ MapErrorResponse(e) # Ok
      BY ErrorTypes
    <3>2. req[r].op # "none"
      BY <1>1
    <3>3. QED
      BY <1>1, <1>2, <2>1, <2>2, <3>1, <3>2, RefusedKeeps
<1>6. CASE InsertRefusal(r) = {}
  <2> DEFINE pc == IF k + 1 = Len(x.rows) THEN "commit" ELSE "insert"
             y == [x EXCEPT !.pc = pc]
             Q == P \union {row}
  <2>1. Goto(r, pc) /\ pending' = [pending EXCEPT ![r] = Q]
    BY <1>6 DEF InsertRow, NextRow
  <2>2. row \in Links
    BY <1>3, <1>4
  <2>3. row \notin P
    <3>1. \A l \in P : ~SameKey(l, row)
      BY <1>6 DEF InsertRefusal, NextRow
    <3>2. SameKey(row, row)
      BY DEF SameKey
    <3>3. QED
      BY <3>1, <3>2
  <2>4. IsFiniteSet(Q) /\ Cardinality(Q) = k + 1
    BY <1>3, <2>3, FS_AddElement
  <2>5. Q = {x.rows[i] : i \in 1..(k + 1)}
    <3>1. 1..(k + 1) = 1..k \union {k + 1}
      BY <1>4
    <3>2. QED
      BY <1>3, <3>1
  <2>6. /\ req' \in [Requests -> RequestRecords] /\ req'[r] = y
        /\ \A q \in Requests \ {r} : req'[q] = req[q]
    BY <2>1, GotoTyped DEF RequestsInv, Pcs
  <2>7. /\ pending' \in [Requests -> SUBSET Links] /\ pending'[r] = Q
        /\ \A q \in Requests \ {r} : pending'[q] = pending[q]
    BY <1>3, <2>1, <2>2 DEF RequestsInv, RequestTypes
  <2>8. RequestTypes'
    BY <1>1, <2>6, <2>7 DEF RequestsInv, RequestTypes
  <2>9. /\ y.pc = pc /\ y.rows = x.rows /\ y.batch = x.batch
        /\ y.service = x.service /\ y.op = "add"
    BY <1>1, <1>2 DEF RequestRecords
  <2> HIDE DEF y, Q
  <2>10. RowsFit(r, y)
    BY <1>2, <2>9 DEF RowsFit
  <2>11. PlaceFits(y) /\ y.pc \in {"insert", "commit"}
    BY <1>1, <1>2, <2>9 DEF PlaceFits
  <2>12. TransactionFits(y, Q)
    <3>1. CASE k + 1 = Len(x.rows)
      BY <2>5, <2>9, <3>1 DEF TransactionFits
    <3>2. CASE k + 1 # Len(x.rows)
      <4>1. k + 1 < Len(x.rows) /\ y.pc = "insert"
        BY <1>3, <1>4, <2>9, <3>2
      <4>2. QED
        BY <2>4, <2>5, <2>9, <4>1 DEF TransactionFits
    <3>3. QED
      BY <3>1, <3>2
  <2>13. Fits(r, y, Q, {})
    BY <2>10, <2>11, <2>12 DEF Fits, OutcomeFits, Over
  <2>14. QED
    BY <1>1, <1>2, <2>6, <2>7, <2>8, <2>13, OneRequest
<1>7. QED
  BY <1>5, <1>6

LEMMA CommitKeeps ==
  ASSUME RequestsInv, NEW r \in Requests, Commit(r)
  PROVE  RequestsInv'
<1> DEFINE x == req[r]
           P == pending[r]
           C == {l.supply : l \in P}
<1>1. x.op = "add" /\ x.pc = "commit" /\ Rollback(r)
      /\ committed' = [committed EXCEPT ![r] = C]
  BY DEF Commit, At
<1>2. /\ x \in RequestRecords /\ PlaceFits(x) /\ RowsFit(r, x)
      /\ TransactionFits(x, P)
  BY <1>1, Underway DEF Fits, Over
<1>3. /\ x.rows \in Seq(Links) /\ x.batch \in Seq(Supplies)
      /\ P = {x.rows[i] : i \in 1..Len(x.rows)} /\ P \subseteq Links
      /\ Len(x.rows) = Len(x.batch) /\ x.batch # <<>>
  BY <1>1, <1>2
  DEF RequestRecords, TransactionFits, PlaceFits, RequestsInv, RequestTypes
<1>4. C = BatchOf(x)
  <2>1. DOMAIN x.batch = 1..Len(x.rows)
    BY <1>3
  <2>2. ASSUME NEW i \in 1..Len(x.rows)
        PROVE  x.rows[i].supply = x.batch[i]
    <3>1. x.rows[i] = [by |-> r, service |-> x.service, supply |-> x.batch[i]]
      BY <1>2 DEF RowsFit
    <3>2. QED
      BY <3>1
  <2>3. C = {x.rows[i].supply : i \in 1..Len(x.rows)}
    BY <1>3
  <2>4. QED
    BY <2>1, <2>2, <2>3 DEF BatchOf
<1>5. C # {} /\ C \in SUBSET Supplies
  <2>1. 1 \in DOMAIN x.batch
    BY <1>3
  <2>2. C \in SUBSET Supplies
    BY <1>3 DEF Links
  <2>3. QED
    BY <1>4, <2>1, <2>2 DEF BatchOf
<1>6. /\ pending' \in [Requests -> SUBSET Links] /\ pending'[r] = {}
      /\ \A q \in Requests \ {r} : pending'[q] = pending[q]
  BY <1>1 DEF Rollback, RequestsInv, RequestTypes
<1>7. /\ committed' \in [Requests -> SUBSET Supplies] /\ committed'[r] = C
      /\ \A q \in Requests \ {r} : committed'[q] = committed[q]
  BY <1>1, <1>5 DEF RequestsInv, RequestTypes
<1>8. ASSUME NEW y \in RequestRecords, req'[r] = y,
             req' \in [Requests -> RequestRecords],
             \A q \in Requests \ {r} : req'[q] = req[q],
             y.op = "add", y.rows = x.rows, y.batch = x.batch,
             y.service = x.service,
             y.pc \in {"refresh", "broken"}
      PROVE  RequestsInv'
  <2>1. RequestTypes'
    BY <1>6, <1>7, <1>8 DEF RequestsInv, RequestTypes
  <2>2. RowsFit(r, y) /\ BatchOf(y) = BatchOf(x)
    BY <1>2, <1>8 DEF RowsFit, BatchOf
  <2>3. TransactionFits(y, {}) /\ PlaceFits(y)
    BY <1>3, <1>8 DEF TransactionFits, PlaceFits
  <2>4. OutcomeFits(y, C)
    BY <1>4, <1>5, <1>8, <2>2 DEF OutcomeFits, Over
  <2>5. Fits(r, req'[r], pending'[r], committed'[r])
    BY <1>6, <1>7, <1>8, <2>2, <2>3, <2>4 DEF Fits
  <2>6. QED
    BY <1>6, <1>7, <1>8, <2>1, <2>5, OneRequest
<1>9. ASSUME NEW pc \in {"refresh", "broken"}, Goto(r, pc)
      PROVE  RequestsInv'
  <2> DEFINE y == [x EXCEPT !.pc = pc]
  <2>1. /\ req' \in [Requests -> RequestRecords] /\ req'[r] = y
        /\ \A q \in Requests \ {r} : req'[q] = req[q]
    BY <1>9, GotoTyped DEF RequestsInv, Pcs
  <2>2. /\ y.pc = pc /\ y.op = "add" /\ y.rows = x.rows
        /\ y.batch = x.batch /\ y.service = x.service
    BY <1>1, <1>2 DEF RequestRecords
  <2>3. y \in RequestRecords
    BY <2>1
  <2> HIDE DEF y
  <2>4. QED
    BY <1>8, <2>1, <2>2, <2>3
<1>10. QED
  BY <1>9 DEF Commit, Written

\* A batch that is given up.
LEMMA AbortKeeps ==
  ASSUME RequestsInv, NEW r \in Requests,
         RowDoesNotFit(r) \/ DeadlockVictim(r)
  PROVE  RequestsInv'
<1>1. req[r].op = "add" /\ req[r].pc = "insert" /\ UNCHANGED committed
  BY DEF RowDoesNotFit, DeadlockVictim, WaitsFor, At, history
<1>2. committed[r] = {} /\ req[r].op # "none"
  BY <1>1, Underway DEF Over
<1>3. PICK e : Rollback(r) /\ Answer(r, MapErrorResponse(e))
  BY DEF RowDoesNotFit, DeadlockVictim
<1>4. MapErrorResponse(e) \in Statuses /\ MapErrorResponse(e) # Ok
  BY ErrorTypes
<1>5. QED
  BY <1>1, <1>2, <1>3, <1>4, RefusedKeeps

\* The refresh of the quote, whose failure undoes nothing.
LEMMA RefreshKeeps ==
  ASSUME RequestsInv, NEW r \in Requests, Refresh(r)
  PROVE  RequestsInv'
<1> DEFINE x == req[r]
<1>1. x.pc = "refresh" /\ UNCHANGED <<pending, committed>>
  BY DEF Refresh, tables, history
<1>2. /\ x \in RequestRecords /\ RowsFit(r, x) /\ PlaceFits(x)
      /\ OutcomeFits(x, committed[r]) /\ pending[r] = {}
  BY <1>1 DEF RequestsInv, RequestTypes, Fits, TransactionFits
<1>3. ASSUME NEW pc, NEW status \in Statuses,
             req' = [req EXCEPT ![r].pc = pc, ![r].answer = status],
             \/ pc = "done" /\ status = Ok
             \/ pc = "unrefreshed"
      PROVE  RequestsInv'
  <2> DEFINE y == [x EXCEPT !.pc = pc, !.answer = status]
  <2>1. y \in RequestRecords
    BY <1>2, <1>3 DEF RequestRecords, Pcs
  <2>2. req' = [req EXCEPT ![r] = y]
    BY <1>3
  <2>3. /\ req' \in [Requests -> RequestRecords] /\ req'[r] = y
        /\ \A q \in Requests \ {r} : req'[q] = req[q]
    BY <2>1, <2>2 DEF RequestsInv, RequestTypes
  <2>4. /\ y.pc = pc /\ y.answer = status /\ y.op = x.op /\ y.rows = x.rows
        /\ y.batch = x.batch /\ y.service = x.service
    BY <1>2 DEF RequestRecords
  <2> HIDE DEF y
  <2>5. RequestTypes'
    BY <1>1, <2>3 DEF RequestsInv, RequestTypes
  <2>6. RowsFit(r, y) /\ TransactionFits(y, {}) /\ PlaceFits(y)
    BY <1>1, <1>2, <1>3, <2>4 DEF RowsFit, TransactionFits, PlaceFits
  <2>7. OutcomeFits(y, committed[r])
    BY <1>1, <1>2, <1>3, <2>4 DEF OutcomeFits, BatchOf, Over
  <2>8. QED
    BY <1>1, <1>2, <2>3, <2>5, <2>6, <2>7, OneRequest DEF Fits
<1>4. CASE Answer(r, Ok)
  BY <1>3, <1>4, ErrorTypes DEF Answer
<1>5. CASE ~Answer(r, Ok)
  BY <1>3, <1>5, ErrorTypes DEF Refresh
<1>6. QED
  BY <1>4, <1>5

LEMMA BreakKeeps ==
  ASSUME RequestsInv, NEW r \in Requests, Break(r)
  PROVE  RequestsInv'
<1>1. /\ req[r].pc # "idle" /\ UNCHANGED committed
      /\ Goto(r, "broken") /\ Rollback(r)
  BY DEF Break, history
<1>2. req[r].op # "none"
  BY <1>1 DEF RequestsInv, Fits, PlaceFits
<1>3. QED
  BY <1>1, <1>2, BrokenKeeps

\* The removals go on, are refused or break down.
LEMMA RemovalsKeep ==
  ASSUME RequestsInv, NEW r \in Requests,
         RemoveSupply(r) \/ DeleteSupplies(r) \/ DeleteByID(r)
  PROVE  RequestsInv'
<1>1. /\ req[r].op \in {"remove service", "remove supply"}
      /\ req[r].pc \in {"delete", "strip"} /\ UNCHANGED <<pending, committed>>
  BY DEF RemoveSupply, DeleteSupplies, DeleteByID, At, history
<1>2. /\ req[r] \in RequestRecords /\ PlaceFits(req[r])
      /\ pending[r] = {} /\ committed[r] = {}
      /\ req[r].op # "none" /\ req[r].op # "add"
  BY <1>1, Underway DEF Fits, Over
<1>3. ASSUME NEW e, Answer(r, MapErrorResponse(e))
      PROVE  RequestsInv'
  BY <1>1, <1>2, <1>3, ErrorTypes, RefusedKeeps
<1>4. ASSUME NEW pc, Written(r, pc), \/ pc = "refresh"
                                     \/ pc = "delete" /\ DeleteSupplies(r)
      PROVE  RequestsInv'
  <2>1. CASE Goto(r, "broken")
    BY <1>1, <1>2, <2>1, BrokenKeeps
  <2>2. CASE Goto(r, pc)
    <3>1. pc = "delete" => req[r].op = "remove service"
      BY <1>4 DEF DeleteSupplies, At
    <3>2. PlaceFits([req[r] EXCEPT !.pc = pc])
      BY <1>1, <1>2, <1>4, <3>1 DEF PlaceFits, RequestRecords
    <3>3. QED
      BY <1>1, <1>2, <1>4, <2>2, <3>2, GotoKeeps DEF Pcs, Over
  <2>3. QED
    BY <1>4, <2>1, <2>2 DEF Written
<1>5. CASE RemoveSupply(r)
  BY <1>3, <1>4, <1>5 DEF RemoveSupply
<1>6. CASE DeleteSupplies(r)
  BY <1>4, <1>6 DEF DeleteSupplies
<1>7. CASE DeleteByID(r)
  BY <1>3, <1>4, <1>7 DEF DeleteByID
<1>8. QED
  BY <1>5, <1>6, <1>7

-----------------------------------------------------------------------------
(***************************************************************************)
(* The tables.  A row waits for the open transactions that hold its key,   *)
(* so that keys are unique over the rows not yet committed as well.        *)
(***************************************************************************)
Rows == links \union UNION {pending[r] : r \in Requests}

KeysUnique == \A k, l \in Rows : SameKey(k, l) => k = l

TablesInv ==
  /\ services \subseteq Services /\ supplies \subseteq Supplies
  /\ itemsOpen \in BOOLEAN
  /\ links \subseteq Links
  /\ LinksResolve
  /\ KeysUnique

(***************************************************************************)
(* A request that deleted the supplies of a service only has to delete the *)
(* service.                                                                *)
(***************************************************************************)
StrippedInv ==
  \A r \in stripped :
    /\ r \in Requests /\ req[r].op = "remove service"
    /\ \/ req[r].service \notin services
       \/ req[r].pc \in {"delete", "broken"}
       \/ req[r].pc = "done" /\ req[r].answer = Conflict

SupplyInv == RequestsInv /\ TablesInv /\ StrippedInv

LEMMA SupplyInit == Init => SupplyInv
<1> SUFFICES ASSUME Init PROVE SupplyInv
  OBVIOUS
<1>1. Rows = {}
  BY DEF Init, Rows
<1>2. TablesInv
  BY <1>1 DEF Init, TablesInv, LinksResolve, KeysUnique, Rows
<1>3. StrippedInv
  BY DEF Init, StrippedInv
<1>4. QED
  BY <1>2, <1>3, RequestsInit DEF SupplyInv

LEMMA RequestsNext == SupplyInv /\ [Next]_vars => RequestsInv'
<1> SUFFICES ASSUME SupplyInv, [Next]_vars PROVE RequestsInv'
  OBVIOUS
<1>1. RequestsInv /\ links \subseteq Links /\ supplies \subseteq Supplies
  BY DEF SupplyInv, TablesInv
<1>2. ASSUME UNCHANGED <<pending, req, committed>>
      PROVE  RequestsInv'
  BY <1>1, <1>2 DEF RequestsInv, RequestTypes
<1>3. ASSUME NEW r \in Requests, Step(r)
      PROVE  RequestsInv'
  BY <1>1, <1>3, BeginKeeps, ChecksKeep, FindSupplyKeeps, InsertRowKeeps,
     CommitKeeps, AbortKeeps, BreakKeeps, RemovalsKeep, RefreshKeeps DEF Step
<1>4. CASE DeleteSupply \/ OrderMoves
  BY <1>2, <1>4 DEF DeleteSupply, OrderMoves, history
<1>5. CASE UNCHANGED vars
  BY <1>2, <1>5 DEF vars, tables, history
<1>6. QED
  BY <1>3, <1>4, <1>5 DEF Next

\* No row comes, and the rows that may be referred to stay.
LEMMA RowsShrink ==
  ASSUME TablesInv, Rows' \subseteq Rows, links' \subseteq Links,
         UNCHANGED <<services, supplies>>, itemsOpen' \in BOOLEAN
  PROVE  TablesInv'
BY DEF TablesInv, LinksResolve, KeysUnique, SameKey, Rows

\* A transaction that is rolled back has nothing left.
LEMMA RollbackShrinks ==
  ASSUME RequestTypes, TablesInv, NEW r \in Requests, Rollback(r),
         UNCHANGED <<services, supplies, itemsOpen, links>>
  PROVE  TablesInv'
<1>1. \A q \in Requests : pending'[q] \subseteq pending[q]
  BY DEF RequestTypes, Rollback
<1>2. Rows' \subseteq Rows
  BY <1>1 DEF Rows
<1>3. QED
  BY <1>2, RowsShrink DEF TablesInv

LEMMA InsertRowTables ==
  ASSUME RequestTypes, TablesInv, NEW r \in Requests, InsertRow(r)
  PROVE  TablesInv'
<1> DEFINE row == NextRow(r)
<1>1. At(r, "add", "insert") /\ UNCHANGED <<services, supplies, itemsOpen, links>>
  BY DEF InsertRow
<1>2. CASE InsertRefusal(r) # {}
  <2>1. Rollback(r)
    BY <1>2 DEF InsertRow
  <2>2. QED
    BY <1>1, <2>1, RollbackShrinks
<1>3. CASE InsertRefusal(r) = {}
  <2>1. /\ row.service \in services /\ row.supply \in supplies
        /\ \A l \in links \union pending[r] : ~SameKey(l, row)
    BY <1>3 DEF InsertRefusal
  <2>2. \A q \in Requests \ {r} : \A l \in pending[q] : ~SameKey(l, row)
    BY <1>1 DEF InsertRow, WaitsFor
  <2>3. \A l \in Rows : ~SameKey(l, row)
    BY <2>1, <2>2 DEF Rows
  <2>4. pending' = [pending EXCEPT ![r] = @ \union {row}]
    BY <1>3 DEF InsertRow
  <2>5. \A q \in Requests : pending'[q] \subseteq pending[q] \union {row}
    BY <2>4 DEF RequestTypes
  <2>6. Rows' \subseteq Rows \union {row}
    BY <1>1, <2>5 DEF Rows
  <2> HIDE DEF row
  <2>7. LinksResolve'
    <3>1. \A l \in Rows : l.service \in services /\ l.supply \in supplies
      BY DEF TablesInv, LinksResolve, Rows
    <3>2. \A l \in Rows' : l.service \in services /\ l.supply \in supplies
      BY <2>1, <2>6, <3>1
    <3>3. QED
      BY <1>1, <3>2 DEF LinksResolve, Rows
  <2>8. KeysUnique'
    <3>1. \A k, l \in Rows \union {row} : SameKey(k, l) => k = l
      BY <2>3 DEF TablesInv, KeysUnique, SameKey
    <3>2. QED
      BY <2>6, <3>1 DEF KeysUnique, SameKey
  <2>9. QED
    BY <1>1, <2>7, <2>8 DEF TablesInv
<1>4. QED
  BY <1>2, <1>3

LEMMA CommitTables ==
  ASSUME RequestTypes, TablesInv, NEW r \in Requests, Commit(r)
  PROVE  TablesInv'
<1>1. /\ links' = links \union pending[r] /\ Rollback(r)
      /\ UNCHANGED <<services, supplies, itemsOpen>>
  BY DEF Commit
<1>2. \A q \in Requests : pending'[q] \subseteq pending[q]
  BY <1>1 DEF RequestTypes, Rollback
<1>3. Rows' \subseteq Rows
  BY <1>1, <1>2 DEF Rows
<1>4. links' \subseteq Links
  BY <1>1 DEF RequestTypes, TablesInv
<1>5. QED
  BY <1>1, <1>3, <1>4, RowsShrink DEF TablesInv

LEMMA DeleteByIDTables ==
  ASSUME RequestTypes, TablesInv, NEW r \in Requests, DeleteByID(r)
  PROVE  TablesInv'
<1> DEFINE w == req[r].service
<1>1. UNCHANGED <<supplies, itemsOpen, links, pending>>
  BY DEF DeleteByID
<1>2. Rows' = Rows
  BY <1>1 DEF Rows
<1>3. CASE UNCHANGED services
  BY <1>1, <1>2, <1>3, RowsShrink DEF TablesInv
<1>4. CASE services' # services
  <2>1. /\ services' = services \ {w} /\ ~ServiceLocked(w)
        /\ \A l \in links : l.service # w
    BY <1>4 DEF DeleteByID
  <2>2. \A l \in Rows : l.service # w
    BY <2>1 DEF ServiceLocked, Rows
  <2>3. LinksResolve'
    BY <1>1, <1>2, <2>1, <2>2 DEF TablesInv, LinksResolve, Rows
  <2>4. QED
    BY <1>1, <1>2, <2>1, <2>3 DEF TablesInv, KeysUnique, SameKey
<1>5. QED
  BY <1>3, <1>4

LEMMA DeleteSupplyTables ==
  ASSUME TablesInv, DeleteSupply
  PROVE  TablesInv'
<1>1. UNCHANGED <<services, itemsOpen, links, pending>>
  BY DEF DeleteSupply
<1>2. PICK s \in supplies : /\ ~SupplyLocked(s) /\ supplies' = supplies \ {s}
                            /\ \A l \in links : l.supply # s
  BY DEF DeleteSupply
<1>3. Rows' = Rows /\ \A l \in Rows : l.supply # s
  BY <1>1, <1>2 DEF SupplyLocked, Rows
<1>4. LinksResolve'
  BY <1>1, <1>2, <1>3 DEF TablesInv, LinksResolve, Rows
<1>5. QED
  BY <1>1, <1>2, <1>3, <1>4 DEF TablesInv, KeysUnique, SameKey

LEMMA TablesNext == SupplyInv /\ [Next]_vars => TablesInv'
<1> SUFFICES ASSUME SupplyInv, [Next]_vars PROVE TablesInv'
  OBVIOUS
<1>1. RequestTypes /\ TablesInv
  BY DEF SupplyInv, RequestsInv
<1>2. ASSUME links' \subseteq links, UNCHANGED <<services, supplies, pending>>,
             itemsOpen' \in BOOLEAN
      PROVE  TablesInv'
  <2>1. Rows' \subseteq Rows
    BY <1>2 DEF Rows
  <2>2. QED
    BY <1>1, <1>2, <2>1, RowsShrink DEF TablesInv
<1>3. itemsOpen \in BOOLEAN
  BY <1>1 DEF TablesInv
<1>4. ASSUME NEW r \in Requests, Step(r)
      PROVE  TablesInv'
  <2>1. CASE \/ Begin(r) \/ FindService(r) \/ EnsureItemsCanChange(r)
             \/ FindSupply(r) \/ Refresh(r)
    BY <1>2, <1>3, <2>1
    DEF Begin, FindService, EnsureItemsCanChange, FindSupply, Refresh, tables
  <2>2. CASE InsertRow(r) \/ Commit(r) \/ DeleteByID(r)
    BY <1>1, <2>2, InsertRowTables, CommitTables, DeleteByIDTables
  <2>3. CASE RowDoesNotFit(r) \/ DeadlockVictim(r) \/ Break(r)
    BY <1>1, <2>3, RollbackShrinks DEF RowDoesNotFit, DeadlockVictim, Break
  <2>4. CASE RemoveSupply(r) \/ DeleteSupplies(r)
    BY <1>2, <1>3, <2>4 DEF RemoveSupply, DeleteSupplies
  <2>5. QED
    BY <1>4, <2>1, <2>2, <2>3, <2>4 DEF Step
<1>5. CASE DeleteSupply
  BY <1>1, <1>5, DeleteSupplyTables
<1>6. CASE OrderMoves
  BY <1>2, <1>6 DEF OrderMoves
<1>7. CASE UNCHANGED vars
  BY <1>2, <1>3, <1>7 DEF vars, tables
<1>8. QED
  BY <1>4, <1>5, <1>6, <1>7 DEF Next

-----------------------------------------------------------------------------
(***************************************************************************)
(* A step of a request changes no other, and a request that has begun      *)
(* keeps its operation and its service.                                    *)
(***************************************************************************)
KeepsGoing(r) ==
  /\ \A q \in Requests \ {r} : req'[q] = req[q]
  /\ req[r].pc # "idle" => /\ req'[r].op = req[r].op
                           /\ req'[r].service = req[r].service

LEMMA AnswerGoing ==
  ASSUME RequestTypes, NEW r \in Requests, NEW status, Answer(r, status)
  PROVE  KeepsGoing(r) /\ req'[r].pc = "done" /\ req'[r].answer = status
<1>1. req[r] \in RequestRecords
  BY DEF RequestTypes
<1>2. req' = [req EXCEPT ![r] = [req[r] EXCEPT !.pc = "done", !.answer = status]]
  BY DEF Answer
<1>3. /\ req'[r] = [req[r] EXCEPT !.pc = "done", !.answer = status]
      /\ \A q \in Requests \ {r} : req'[q] = req[q]
  BY <1>2 DEF RequestTypes
<1>4. QED
  BY <1>1, <1>3 DEF KeepsGoing, RequestRecords

LEMMA GotoGoing ==
  ASSUME RequestTypes, NEW r \in Requests, NEW pc, Goto(r, pc)
  PROVE  KeepsGoing(r) /\ req'[r].pc = pc
<1>1. req[r] \in RequestRecords
  BY DEF RequestTypes
<1>2. req' = [req EXCEPT ![r] = [req[r] EXCEPT !.pc = pc]]
  BY DEF Goto
<1>3. /\ req'[r] = [req[r] EXCEPT !.pc = pc]
      /\ \A q \in Requests \ {r} : req'[q] = req[q]
  BY <1>2 DEF RequestTypes
<1>4. QED
  BY <1>1, <1>3 DEF KeepsGoing, RequestRecords

LEMMA BeginGoing ==
  ASSUME RequestTypes, NEW r \in Requests, Begin(r)
  PROVE  KeepsGoing(r)
<1>1. req[r].pc = "idle"
  BY DEF Begin
<1>2. \A q \in Requests \ {r} : req'[q] = req[q]
  BY DEF Begin, RequestTypes
<1>3. QED
  BY <1>1, <1>2 DEF KeepsGoing

LEMMA FindSupplyGoing ==
  ASSUME RequestTypes, NEW r \in Requests, FindSupply(r)
  PROVE  KeepsGoing(r)
<1>1. req[r] \in RequestRecords
  BY DEF RequestTypes
<1>2. CASE Answer(r, MapErrorResponse("no rows"))
  BY <1>2, AnswerGoing
<1>3. ASSUME NEW rows, NEW pc,
             req' = [req EXCEPT ![r].rows = rows, ![r].pc = pc]
      PROVE  KeepsGoing(r)
  <2>1. req' = [req EXCEPT ![r] = [req[r] EXCEPT !.rows = rows, !.pc = pc]]
    BY <1>3
  <2>2. /\ req'[r] = [req[r] EXCEPT !.rows = rows, !.pc = pc]
        /\ \A q \in Requests \ {r} : req'[q] = req[q]
    BY <2>1 DEF RequestTypes
  <2>3. QED
    BY <1>1, <2>2 DEF KeepsGoing, RequestRecords
<1>4. QED
  BY <1>2, <1>3 DEF FindSupply

LEMMA WrittenGoing ==
  ASSUME RequestTypes, NEW r \in Requests, NEW pc, Written(r, pc)
  PROVE  KeepsGoing(r) /\ req'[r].pc \in {pc, "broken"}
BY GotoGoing DEF Written

LEMMA RefreshGoing ==
  ASSUME RequestTypes, NEW r \in Requests, Refresh(r)
  PROVE  KeepsGoing(r)
<1>1. req[r] \in RequestRecords
  BY DEF RequestTypes
<1>2. ASSUME NEW pc, NEW status,
             req' = [req EXCEPT ![r].pc = pc, ![r].answer = status]
      PROVE  KeepsGoing(r)
  <2>1. req' = [req EXCEPT ![r] = [req[r] EXCEPT !.pc = pc, !.answer = status]]
    BY <1>2
  <2>2. /\ req'[r] = [req[r] EXCEPT !.pc = pc, !.answer = status]
        /\ \A q \in Requests \ {r} : req'[q] = req[q]
    BY <2>1 DEF RequestTypes
  <2>3. QED
    BY <1>1, <2>2 DEF KeepsGoing, RequestRecords
<1>3. QED
  BY <1>2 DEF Refresh, Answer

LEMMA StepGoing ==
  ASSUME RequestTypes, NEW r \in Requests, Step(r)
  PROVE  KeepsGoing(r) /\ services' \subseteq services
<1>1. CASE Begin(r)
  BY <1>1, BeginGoing DEF Begin, tables
<1>2. CASE FindService(r)
  BY <1>2, AnswerGoing, GotoGoing DEF FindService, tables
<1>3. CASE EnsureItemsCanChange(r)
  BY <1>3, AnswerGoing, GotoGoing DEF EnsureItemsCanChange, tables
<1>4. CASE FindSupply(r)
  BY <1>4, FindSupplyGoing DEF FindSupply, tables
<1>5. CASE InsertRow(r)
  BY <1>5, AnswerGoing, GotoGoing DEF InsertRow
<1>6. CASE Commit(r)
  BY <1>6, WrittenGoing DEF Commit
<1>7. CASE RowDoesNotFit(r) \/ DeadlockVictim(r)
  BY <1>7, AnswerGoing DEF RowDoesNotFit, DeadlockVictim
<1>8. CASE RemoveSupply(r)
  BY <1>8, AnswerGoing, WrittenGoing DEF RemoveSupply
<1>9. CASE DeleteSupplies(r)
  BY <1>9, WrittenGoing DEF DeleteSupplies
<1>10. CASE DeleteByID(r)
  BY <1>10, AnswerGoing, WrittenGoing DEF DeleteByID
<1>11. CASE Refresh(r)
  BY <1>11, RefreshGoing DEF Refresh, tables
<1>12. CASE Break(r)
  BY <1>12, GotoGoing DEF Break
<1>13. QED
  BY <1>1, <1>2, <1>3, <1>4, <1>5, <1>6, <1>7, <1>8, <1>9, <1>10, <1>11, <1>12
  DEF Step

(***************************************************************************)
(* A request that has deleted the supplies of a service ends by removing   *)
(* the service, by a conflict or by breaking down.                         *)
(***************************************************************************)
Settled(r) ==
  /\ req[r].op = "remove service"
  /\ \/ req[r].service \notin services
     \/ req[r].pc \in {"delete", "broken"}
     \/ req[r].pc = "done" /\ req[r].answer = Conflict

LEMMA SettledStays ==
  ASSUME RequestsInv, NEW r \in Requests, Settled(r), Step(r)
  PROVE  Settled(r)'
<1> DEFINE x == req[r]
<1>1. x.op = "remove service" /\ x.pc # "idle"
  BY DEF Settled, RequestsInv, Fits, PlaceFits
<1>2. /\ req'[r].op = x.op /\ req'[r].service = x.service
      /\ services' \subseteq services
  BY <1>1, StepGoing DEF KeepsGoing, RequestsInv
<1>3. CASE x.service \notin services
  BY <1>1, <1>2, <1>3 DEF Settled
<1>4. CASE x.service \in services
  <2>1. x.pc \in {"delete", "broken", "done"}
    BY <1>4 DEF Settled
  <2>2. DeleteByID(r) \/ Break(r)
    BY <1>1, <2>1
    DEF Step, Begin, FindService, EnsureItemsCanChange, FindSupply, InsertRow,
        RowDoesNotFit, Commit, DeadlockVictim, WaitsFor, RemoveSupply,
        DeleteSupplies, Refresh, At
  <2>3. CASE Break(r)
    BY <1>1, <1>2, <2>3, GotoGoing DEF Break, Settled, RequestsInv
  <2>4. CASE DeleteByID(r)
    <3>1. \/ Answer(r, MapErrorResponse("foreign key"))
          \/ services' = services \ {x.service}
      BY <1>4, <2>4 DEF DeleteByID
    <3>2. CASE Answer(r, MapErrorResponse("foreign key"))
      BY <1>1, <1>2, <3>2, ErrorTypes, AnswerGoing DEF Settled, RequestsInv
    <3>3. CASE services' = services \ {x.service}
      BY <1>1, <1>2, <3>3 DEF Settled
    <3>4. QED
      BY <3>1, <3>2, <3>3
  <2>5. QED
    BY <2>2, <2>3, <2>4
<1>5. QED
  BY <1>3, <1>4

LEMMA StrippedNext == SupplyInv /\ [Next]_vars => StrippedInv'
<1> SUFFICES ASSUME SupplyInv, [Next]_vars PROVE StrippedInv'
  OBVIOUS
<1>1. RequestsInv /\ RequestTypes /\ \A q \in stripped : q \in Requests /\ Settled(q)
  BY DEF SupplyInv, RequestsInv, StrippedInv, Settled
<1>2. ASSUME NEW r \in Requests, Step(r)
      PROVE  StrippedInv'
  <2>1. KeepsGoing(r) /\ services' \subseteq services
    BY <1>1, <1>2, StepGoing
  <2>2. ASSUME NEW q \in stripped
        PROVE  Settled(q)'
    <3>1. CASE q = r
      BY <1>1, <1>2, <3>1, SettledStays
    <3>2. CASE q # r
      <4>1. req'[q] = req[q] /\ Settled(q)
        BY <1>1, <2>1, <3>2 DEF KeepsGoing
      <4>2. QED
        BY <2>1, <4>1 DEF Settled
    <3>3. QED
      BY <3>1, <3>2
  <2>3. CASE DeleteSupplies(r)
    <3>1. stripped' \subseteq stripped \union {r}
      BY <2>3 DEF DeleteSupplies
    <3>2. req'[r].op = "remove service"
      BY <2>1, <2>3 DEF DeleteSupplies, At, KeepsGoing
    <3>3. req'[r].pc \in {"delete", "broken"}
      BY <1>1, <2>3, WrittenGoing DEF DeleteSupplies
    <3>4. Settled(r)'
      BY <3>2, <3>3 DEF Settled
    <3>5. QED
      BY <1>1, <2>2, <3>1, <3>4 DEF StrippedInv, Settled
  <2>4. CASE ~DeleteSupplies(r)
    <3>1. stripped' = stripped
      BY <1>2, <2>4
      DEF Step, Begin, FindService, EnsureItemsCanChange, FindSupply,
          InsertRow, RowDoesNotFit, Commit, DeadlockVictim, RemoveSupply,
          DeleteByID, Refresh, Break, history
    <3>2. QED
      BY <1>1, <2>2, <3>1 DEF StrippedInv, Settled
  <2>5. QED
    BY <2>3, <2>4
<1>3. CASE DeleteSupply \/ OrderMoves \/ UNCHANGED vars
  <2>1. UNCHANGED <<services, req, stripped>>
    BY <1>3 DEF DeleteSupply, OrderMoves, vars, tables, history
  <2>2. QED
    BY <1>1, <2>1 DEF StrippedInv, Settled
<1>4. QED
  BY <1>2, <1>3 DEF Next

LEMMA SupplyInvariant == Spec => []SupplyInv
<1>1. SupplyInv /\ [Next]_vars => SupplyInv'
  BY RequestsNext, TablesNext, StrippedNext DEF SupplyInv
<1>2. QED
  BY <1>1, SupplyInit, PTL DEF Spec

-----------------------------------------------------------------------------
(***************************************************************************)
(* Every row is well typed, in the table and in the open transactions, and *)
(* a request prepares no more rows than its batch lists.                   *)
(***************************************************************************)
THEOREM SupplyTypes == Spec => []TypeOK
<1>1. SupplyInv => TypeOK
  <2> SUFFICES ASSUME SupplyInv PROVE TypeOK
    OBVIOUS
  <2>1. /\ services \subseteq Services /\ supplies \subseteq Supplies
        /\ itemsOpen \in BOOLEAN /\ links \subseteq Links
        /\ \A r \in Requests : pending[r] \subseteq Links
    BY DEF SupplyInv, TablesInv, RequestsInv, RequestTypes
  <2>2. ASSUME NEW r \in Requests
        PROVE  /\ req[r].pc \in Pcs
               /\ req[r].service \in Services /\ req[r].answer \in Statuses
               /\ Len(req[r].rows) <= Len(req[r].batch)
               /\ pending[r] # {} => req[r].pc \in {"insert", "commit"}
    BY DEF SupplyInv, RequestsInv, RequestTypes, RequestRecords, Fits, RowsFit,
           TransactionFits
  <2>3. QED
    BY <2>1, <2>2 DEF TypeOK, Pcs
<1>2. QED
  BY <1>1, SupplyInvariant, PTL

(***************************************************************************)
(* Neither RemoveService nor DELETE /supplies leaves a row that refers to  *)
(* something deleted, also while transactions are open.                    *)
(***************************************************************************)
THEOREM SuppliesStayLinked == Spec => []LinksResolve
<1>1. SupplyInv => LinksResolve
  BY DEF SupplyInv, TablesInv
<1>2. QED
  BY <1>1, SupplyInvariant, PTL

\* No batch, alone or beside others, lists a supply of a service twice.
THEOREM ListedOnce == Spec => []OncePerService
<1>1. SupplyInv => OncePerService
  BY DEF SupplyInv, TablesInv, KeysUnique, OncePerService, Rows
<1>2. QED
  BY <1>1, SupplyInvariant, PTL

\* AddSupplies adds its whole batch or nothing, and answers accordingly.
THEOREM BatchesAreWhole == Spec => []AllOrNothing
<1>1. SupplyInv => AllOrNothing
  <2> SUFFICES ASSUME SupplyInv, NEW r \in Requests
               PROVE  /\ committed[r] \in {{}, BatchSupplies(r)}
                      /\ At(r, "add", "done") =>
                           (req[r].answer = Ok <=> committed[r] = BatchSupplies(r))
                      /\ At(r, "add", "unrefreshed") =>
                           committed[r] = BatchSupplies(r)
    BY DEF AllOrNothing
  <2>1. BatchSupplies(r) = BatchOf(req[r])
    BY DEF BatchSupplies, BatchOf
  <2>2. OutcomeFits(req[r], committed[r]) /\ PlaceFits(req[r])
        /\ req[r].batch \in Seq(Supplies)
    BY DEF SupplyInv, RequestsInv, RequestTypes, RequestRecords, Fits
  <2>3. committed[r] \in {{}, BatchOf(req[r])}
    BY <2>2 DEF OutcomeFits
  <2>4. ASSUME At(r, "add", "done")
        PROVE  BatchOf(req[r]) # {}
    <3>1. req[r].batch # <<>>
      BY <2>2, <2>4 DEF PlaceFits, At
    <3>2. 1 \in DOMAIN req[r].batch
      BY <2>2, <3>1
    <3>3. QED
      BY <3>2 DEF BatchOf
  <2>5. At(r, "add", "done") => (req[r].answer = Ok <=> committed[r] # {})
    BY <2>2 DEF OutcomeFits, At
  <2>6. At(r, "add", "unrefreshed") => committed[r] = BatchOf(req[r])
    BY <2>2, <2>3 DEF OutcomeFits, At
  <2>7. QED
    BY <2>1, <2>3, <2>4, <2>5, <2>6
<1>2. QED
  BY <1>1, SupplyInvariant, PTL

(***************************************************************************)
(* RemoveService is never refused for the order's status once it has       *)
(* deleted the supplies of the service.                                    *)
(***************************************************************************)
THEOREM StrippedGoes == Spec => []StrippedIsRemoved
<1>1. SupplyInv => StrippedIsRemoved
  BY DEF SupplyInv, StrippedInv, StrippedIsRemoved
<1>2. QED
  BY <1>1, SupplyInvariant, PTL
===============================================================================
