------------------------- MODULE ServiceCatalogProofs -------------------------
(***************************************************************************)
(* Theorems about ServiceCatalog, for any number of requests, services and *)
(* titles, with and without faults.                                        *)
(***************************************************************************)
EXTENDS ServiceCatalog, TLAPS

-----------------------------------------------------------------------------
(***************************************************************************)
(* Types.                                                                  *)
(***************************************************************************)
LEMMA ErrorTypes ==
  ASSUME NEW e
  PROVE  /\ HandleServiceError(e) \in Statuses
         /\ MapErrorResponse(e) \in Statuses
BY DEF HandleServiceError, MapErrorResponse, DbErrResponse, Statuses, Ok,
       BadRequest, NotFound, Conflict, Unprocessable, InternalError

LEMMA OfferTypes ==
  ASSUME NEW table, DOMAIN table \subseteq Ids,
         \A s \in DOMAIN table : table[s] \in Rows
  PROVE  OffersOf(table) \subseteq Ids \X Offers
BY DEF OffersOf, Offer, Rows, Offers

LEMMA FormTypes ==
  /\ AnyForm \in Forms /\ AnyId \in Ids
  /\ \A f \in Forms : f.row \in Rows /\ f.given \subseteq {"title", "price", "active"}
BY CatalogAssumption DEF AnyForm, AnyId

LEMMA InitTyped == Init => TypeOK
<1> SUFFICES ASSUME Init PROVE TypeOK
  OBVIOUS
<1>1. IdleRequest \in RequestRecords
  BY FormTypes DEF IdleRequest, RequestRecords, Statuses, Ok
<1>2. QED
  BY <1>1, OfferTypes, CatalogAssumption DEF Init, TypeOK

\* One request gets a new record; the others keep theirs.
LEMMA RequestTyped ==
  ASSUME req \in [Requests -> RequestRecords], NEW r \in Requests,
         NEW new \in RequestRecords, req' = [req EXCEPT ![r] = new]
  PROVE  req' \in [Requests -> RequestRecords]
OBVIOUS

LEMMA AnswerTyped ==
  ASSUME req \in [Requests -> RequestRecords], NEW r \in Requests,
         NEW status \in Statuses, Answer(r, status)
  PROVE  req' \in [Requests -> RequestRecords]
<1>1. [req[r] EXCEPT !.pc = "done", !.answer = status] \in RequestRecords
  BY DEF RequestRecords
<1>2. req' = [req EXCEPT ![r] = [req[r] EXCEPT !.pc = "done",
                                               !.answer = status]]
  BY DEF Answer
<1>3. QED
  BY <1>1, <1>2, RequestTyped

Steps == {"find", "exists", "links", "deactivate", "insert", "write", "done",
          "broken"}

LEMMA GotoTyped ==
  ASSUME req \in [Requests -> RequestRecords], NEW r \in Requests,
         NEW pc \in Steps, Goto(r, pc)
  PROVE  req' \in [Requests -> RequestRecords]
<1>1. [req[r] EXCEPT !.pc = pc] \in RequestRecords
  BY DEF RequestRecords, Steps
<1>2. req' = [req EXCEPT ![r] = [req[r] EXCEPT !.pc = pc]]
  BY DEF Goto
<1>3. QED
  BY <1>1, <1>2, RequestTyped

LEMMA AnswerWriteTyped ==
  ASSUME req \in [Requests -> RequestRecords], NEW r \in Requests,
         NEW status \in Statuses, AnswerWrite(r, status)
  PROVE  req' \in [Requests -> RequestRecords]
BY AnswerTyped, GotoTyped DEF AnswerWrite, Steps

LEMMA ValidatedTyped ==
  ASSUME req \in [Requests -> RequestRecords], NEW r \in Requests,
         NEW row \in Rows, Validated(r, row)
  PROVE  req' \in [Requests -> RequestRecords]
<1>1. CASE Valid(row)
  <2>1. [req[r] EXCEPT !.row = row, !.pc = "exists"] \in RequestRecords
    BY DEF RequestRecords
  <2>2. req' = [req EXCEPT ![r] = [req[r] EXCEPT !.row = row,
                                                 !.pc = "exists"]]
    BY <1>1 DEF Validated, RequestRecords
  <2>3. QED
    BY <2>1, <2>2, RequestTyped
<1>2. CASE ~Valid(row)
  <2> DEFINE status == HandleServiceError("validation")
  <2>1. [req[r] EXCEPT !.row = row, !.pc = "done", !.answer = status]
          \in RequestRecords
    BY ErrorTypes DEF RequestRecords
  <2>2. req' = [req EXCEPT ![r] = [req[r] EXCEPT !.row = row, !.pc = "done",
                                                 !.answer = status]]
    BY <1>2 DEF Validated
  <2>3. QED
    BY <2>1, <2>2, RequestTyped
<1>3. QED
  BY <1>1, <1>2

LEMMA MergedTyped ==
  ASSUME NEW f \in Forms, NEW row \in Rows
  PROVE  Merged(f, row) \in Rows
BY FormTypes DEF Merged, Rows

(***************************************************************************)
(* A row about to be written passed Validate, and what it has that its     *)
(* column does not hold is from the body of the request, a POST being      *)
(* given the title and the price.                                          *)
(***************************************************************************)
FromBody(row, form) == Storable(row) \/ Misfits(form.given, form.row)

RowValid(request) ==
  /\ request.op = "create" => {"title", "price"} \subseteq request.form.given
  /\ request.op \in {"create", "update"} /\ request.pc \in {"exists", "write"}
       => Valid(request.row) /\ FromBody(request.row, request.form)

RowsValid == \A r \in Requests : RowValid(req[r])

\* What the catalog has fits its columns.
CatalogFits == \A s \in DOMAIN catalog : Storable(catalog[s])

LEMMA CatalogTyped ==
  ASSUME TypeOK, NEW table, CatalogBecomes(table), DOMAIN table \subseteq Ids,
         \A s \in DOMAIN table : table[s] \in Rows /\ table[s].price > 0
  PROVE  /\ DOMAIN catalog' \subseteq Ids
         /\ \A s \in DOMAIN catalog' : catalog'[s] \in Rows /\ catalog'[s].price > 0
         /\ offered' \subseteq Ids \X Offers
<1>1. OffersOf(table) \subseteq Ids \X Offers
  BY OfferTypes
<1>2. QED
  BY <1>1 DEF CatalogBecomes, TypeOK

LEMMA WriteTyped ==
  ASSUME TypeOK, NEW r \in Requests, NEW id \in Ids, Valid(req[r].row),
         Write(r, id)
  PROVE  TypeOK'
<1> DEFINE table == Put(catalog, id, req[r].row)
<1>1. req[r].row \in Rows /\ req \in [Requests -> RequestRecords]
  BY DEF TypeOK, RequestRecords
<1>2. CASE Refusal(id, req[r].row) = {}
  <2>1. CatalogBecomes(table) /\ AnswerWrite(r, Ok) /\ UNCHANGED <<items, deleted>>
    BY <1>2 DEF Write
  <2>2. /\ DOMAIN table \subseteq Ids
        /\ \A s \in DOMAIN table : table[s] \in Rows /\ table[s].price > 0
    BY <1>1 DEF Put, TypeOK, Valid
  <2>3. req' \in [Requests -> RequestRecords]
    BY <1>1, <2>1, AnswerWriteTyped DEF Statuses
  <2>4. QED
    BY <2>1, <2>2, <2>3, CatalogTyped DEF TypeOK
<1>3. CASE Refusal(id, req[r].row) # {}
  <2>1. Unchanged /\ \E e \in Refusal(id, req[r].row) :
                       Answer(r, HandleServiceError(e))
    BY <1>3 DEF Write
  <2>2. req' \in [Requests -> RequestRecords]
    BY <1>1, <2>1, ErrorTypes, AnswerTyped
  <2>3. QED
    BY <2>1, <2>2 DEF TypeOK, Unchanged
<1>4. QED
  BY <1>2, <1>3

\* Steps that change nothing but the request keep the types if its record does.
LEMMA OnlyRequest ==
  ASSUME TypeOK, Unchanged, req' \in [Requests -> RequestRecords]
  PROVE  TypeOK'
BY DEF TypeOK, Unchanged

LEMMA BeginTyped ==
  ASSUME TypeOK, NEW r \in Requests,
         BeginCreate(r) \/ BeginUpdate(r) \/ BeginDelete(r) \/ BeginAdd(r)
  PROVE  TypeOK'
<1>1. req \in [Requests -> RequestRecords]
  BY DEF TypeOK
<1>2. Unchanged
  BY DEF BeginCreate, BeginUpdate, BeginDelete, BeginAdd
<1>3. \E new \in RequestRecords : req' = [req EXCEPT ![r] = new]
  <2>1. CASE BeginCreate(r)
    <3>1. PICK f \in Forms :
            req' = [req EXCEPT ![r] = [req[r] EXCEPT !.op = "create",
                                         !.pc = "begun", !.form = f]]
      BY <2>1 DEF BeginCreate
    <3>2. [req[r] EXCEPT !.op = "create", !.pc = "begun", !.form = f]
            \in RequestRecords
      BY <1>1 DEF RequestRecords
    <3>3. QED
      BY <3>1, <3>2
  <2>2. CASE BeginUpdate(r)
    <3>0. PICK f \in Forms, s \in Ids :
            req' = [req EXCEPT ![r].op = "update", ![r].pc = "find",
                               ![r].id = s, ![r].form = f]
      BY <2>2 DEF BeginUpdate
    <3>1. req' = [req EXCEPT ![r] = [req[r] EXCEPT !.op = "update",
                                       !.pc = "find", !.id = s, !.form = f]]
      BY <1>1, <3>0
    <3>2. [req[r] EXCEPT !.op = "update", !.pc = "find", !.id = s, !.form = f]
            \in RequestRecords
      BY <1>1 DEF RequestRecords
    <3>3. QED
      BY <3>1, <3>2
  <2>3. CASE BeginDelete(r)
    <3>1. PICK s \in Ids :
            req' = [req EXCEPT ![r] = [req[r] EXCEPT !.op = "delete",
                                         !.pc = "find", !.id = s]]
      BY <2>3 DEF BeginDelete
    <3>2. [req[r] EXCEPT !.op = "delete", !.pc = "find", !.id = s]
            \in RequestRecords
      BY <1>1 DEF RequestRecords
    <3>3. QED
      BY <3>1, <3>2
  <2>4. CASE BeginAdd(r)
    <3>0. PICK b \in SUBSET Ids, m \in {MaxInt, MaxInt + 1} :
            req' = [req EXCEPT ![r].op = "add", ![r].pc = "find",
                               ![r].todo = b, ![r].minutes = m]
      BY <2>4 DEF BeginAdd
    <3>1. req' = [req EXCEPT ![r] = [req[r] EXCEPT !.op = "add", !.pc = "find",
                                       !.todo = b, !.minutes = m]]
      BY <1>1, <3>0
    <3>2. m \in Nat
      BY CatalogAssumption
    <3>3. [req[r] EXCEPT !.op = "add", !.pc = "find", !.todo = b, !.minutes = m]
            \in RequestRecords
      BY <1>1, <3>2 DEF RequestRecords
    <3>4. QED
      BY <3>1, <3>3
  <2>5. QED
    BY <2>1, <2>2, <2>3, <2>4
<1>4. QED
  BY <1>1, <1>2, <1>3, RequestTyped, OnlyRequest

LEMMA CreateUpdateTyped ==
  ASSUME TypeOK, RowsValid, NEW r \in Requests,
         \/ ValidateNew(r) \/ ExistsByTitle(r) \/ Create(r)
         \/ FindForUpdate(r) \/ Update(r)
  PROVE  TypeOK'
<1>1. req \in [Requests -> RequestRecords] /\ req[r] \in RequestRecords
  BY DEF TypeOK
<1>2. CASE ValidateNew(r)
  <2>1. req[r].form.row \in Rows
    BY <1>1, FormTypes DEF RequestRecords
  <2>2. [req[r].form.row EXCEPT !.active = TRUE] \in Rows
    BY <2>1 DEF Rows
  <2>3. QED
    BY <1>1, <1>2, <2>2, ValidatedTyped, OnlyRequest DEF ValidateNew
<1>3. CASE ExistsByTitle(r)
  <2>1. /\ Unchanged
        /\ \/ \E e : Answer(r, HandleServiceError(e))
           \/ Goto(r, "write")
    BY <1>3 DEF ExistsByTitle
  <2>2. req' \in [Requests -> RequestRecords]
    BY <1>1, <2>1, ErrorTypes, AnswerTyped, GotoTyped DEF Steps
  <2>3. QED
    BY <2>1, <2>2, OnlyRequest
<1>4. CASE Create(r)
  <2>1. Valid(req[r].row)
    BY <1>4 DEF Create, At, RowsValid, RowValid
  <2>2. PICK id \in NewIds : Write(r, id)
    BY <1>4 DEF Create
  <2>3. QED
    BY <2>1, <2>2, WriteTyped DEF NewIds
<1>5. CASE FindForUpdate(r)
  <2>1. CASE req[r].id \in DOMAIN catalog
    <3>1. Merged(req[r].form, catalog[req[r].id]) \in Rows
      BY <1>1, <2>1, MergedTyped DEF RequestRecords, TypeOK
    <3>2. QED
      BY <1>1, <1>5, <2>1, <3>1, ValidatedTyped, OnlyRequest DEF FindForUpdate
  <2>2. CASE req[r].id \notin DOMAIN catalog
    BY <1>1, <1>5, <2>2, ErrorTypes, AnswerTyped, OnlyRequest DEF FindForUpdate
  <2>3. QED
    BY <2>1, <2>2
<1>6. CASE Update(r)
  <2>1. Valid(req[r].row) /\ req[r].id \in Ids
    BY <1>1, <1>6 DEF Update, At, RowsValid, RowValid, RequestRecords
  <2>2. CASE req[r].id \in DOMAIN catalog
    BY <1>6, <2>1, <2>2, WriteTyped DEF Update
  <2>3. CASE req[r].id \notin DOMAIN catalog
    BY <1>1, <1>6, <2>3, ErrorTypes, AnswerTyped, OnlyRequest DEF Update
  <2>4. QED
    BY <2>2, <2>3
<1>7. QED
  BY <1>2, <1>3, <1>4, <1>5, <1>6

LEMMA RemoveRows ==
  ASSUME TypeOK, NEW id
  PROVE  /\ DOMAIN Remove(catalog, id) \subseteq Ids
         /\ \A s \in DOMAIN Remove(catalog, id) :
              /\ Remove(catalog, id)[s] \in Rows
              /\ Remove(catalog, id)[s].price > 0
BY DEF Remove, TypeOK

LEMMA DeleteTyped ==
  ASSUME TypeOK, NEW r \in Requests,
         \/ FindForDelete(r) \/ HasWorkOrderLinks(r)
         \/ Deactivate(r) \/ Delete(r)
  PROVE  TypeOK'
<1>1. req \in [Requests -> RequestRecords] /\ req[r].id \in Ids
  BY DEF TypeOK, RequestRecords
<1>2. CASE FindForDelete(r) \/ HasWorkOrderLinks(r)
  <2>1. /\ Unchanged
        /\ \/ Answer(r, HandleServiceError("no rows"))
           \/ \E pc \in {"links", "deactivate", "write"} : Goto(r, pc)
    BY <1>2 DEF FindForDelete, HasWorkOrderLinks
  <2>2. req' \in [Requests -> RequestRecords]
    BY <1>1, <2>1, ErrorTypes, AnswerTyped, GotoTyped DEF Steps
  <2>3. QED
    BY <2>1, <2>2, OnlyRequest
<1>3. CASE Deactivate(r)
  <2>1. CASE req[r].id \in DOMAIN catalog
    <3>1. /\ catalog' = [catalog EXCEPT ![req[r].id].active = FALSE]
          /\ AnswerWrite(r, Ok) /\ UNCHANGED <<items, deleted, offered>>
      BY <1>3, <2>1 DEF Deactivate
    <3>2. /\ DOMAIN catalog' \subseteq Ids
          /\ \A s \in DOMAIN catalog' : catalog'[s] \in Rows /\ catalog'[s].price > 0
      BY <3>1 DEF TypeOK, Rows
    <3>3. req' \in [Requests -> RequestRecords]
      BY <1>1, <3>1, AnswerWriteTyped DEF Statuses
    <3>4. QED
      BY <3>1, <3>2, <3>3 DEF TypeOK
  <2>2. CASE req[r].id \notin DOMAIN catalog
    BY <1>1, <1>3, <2>2, ErrorTypes, AnswerTyped, OnlyRequest DEF Deactivate
  <2>3. QED
    BY <2>1, <2>2
<1>4. CASE Delete(r)
  <2>1. CASE DeleteRefusal(req[r].id) = {}
    <3>1. /\ CatalogBecomes(Remove(catalog, req[r].id))
          /\ deleted' = deleted \union {req[r].id}
          /\ AnswerWrite(r, Ok) /\ UNCHANGED items
      BY <1>4, <2>1 DEF Delete
    <3>2. req' \in [Requests -> RequestRecords]
      BY <1>1, <3>1, AnswerWriteTyped DEF Statuses
    <3>3. QED
      BY <1>1, <3>1, <3>2, RemoveRows, CatalogTyped DEF TypeOK
  <2>2. CASE DeleteRefusal(req[r].id) # {}
    <3>1. Unchanged /\ \E e \in DeleteRefusal(req[r].id) :
                         Answer(r, HandleServiceError(e))
      BY <1>4, <2>2 DEF Delete
    <3>2. QED
      BY <1>1, <3>1, ErrorTypes, AnswerTyped, OnlyRequest
  <2>3. QED
    BY <2>1, <2>2
<1>5. QED
  BY <1>2, <1>3, <1>4

LEMMA SnapshotTyped ==
  ASSUME TypeOK, NEW r \in Requests, NEW s \in DOMAIN catalog
  PROVE  Snapshot(r, s) \in Items
<1>1. s \in Ids /\ catalog[s] \in Rows
  BY DEF TypeOK
<1>2. Offer(catalog[s]) \in Offers
  BY <1>1 DEF Offer, Offers, Rows
<1>3. QED
  BY <1>1, <1>2 DEF Snapshot, Items

LEMMA AddTyped ==
  ASSUME TypeOK, NEW r \in Requests, FindToAdd(r) \/ CreateBatch(r)
  PROVE  TypeOK'
<1>1. req \in [Requests -> RequestRecords] /\ req[r] \in RequestRecords
  BY DEF TypeOK
<1>2. CASE FindToAdd(r)
  <2>1. Unchanged
    BY <1>2 DEF FindToAdd
  <2>2. PICK s \in req[r].todo :
          \/ \E e \in {"no rows", "inactive"} : Answer(r, MapErrorResponse(e))
          \/ /\ s \in DOMAIN catalog
             /\ req' = [req EXCEPT
                  ![r].todo = @ \ {s},
                  ![r].batch = @ \union {Snapshot(r, s)},
                  ![r].pc = IF req[r].todo = {s} THEN "insert" ELSE "find"]
    BY <1>2 DEF FindToAdd
  <2>3. CASE \E e \in {"no rows", "inactive"} : Answer(r, MapErrorResponse(e))
    BY <1>1, <2>1, <2>3, ErrorTypes, AnswerTyped, OnlyRequest
  <2>4. CASE /\ s \in DOMAIN catalog
             /\ req' = [req EXCEPT
                  ![r].todo = @ \ {s},
                  ![r].batch = @ \union {Snapshot(r, s)},
                  ![r].pc = IF req[r].todo = {s} THEN "insert" ELSE "find"]
    <3> DEFINE pc == IF req[r].todo = {s} THEN "insert" ELSE "find"
               new == [req[r] EXCEPT !.todo = @ \ {s},
                                     !.batch = @ \union {Snapshot(r, s)},
                                     !.pc = pc]
    <3>1. new \in RequestRecords
      BY <1>1, <2>4, SnapshotTyped DEF RequestRecords
    <3>2. req' = [req EXCEPT ![r] = new]
      BY <1>1, <2>4
    <3>3. QED
      BY <1>1, <2>1, <3>1, <3>2, RequestTyped, OnlyRequest
  <2>5. QED
    BY <2>2, <2>3, <2>4
<1>3. CASE CreateBatch(r)
  <2>1. \/ /\ items' = items \union req[r].batch /\ AnswerWrite(r, Ok)
           /\ UNCHANGED <<catalog, deleted, offered>>
        \/ (\E e : Answer(r, MapErrorResponse(e))) /\ Unchanged
    BY <1>3 DEF CreateBatch
  <2>2. req' \in [Requests -> RequestRecords]
    BY <1>1, <2>1, AnswerWriteTyped, AnswerTyped, ErrorTypes DEF Statuses
  <2>3. QED
    BY <1>1, <2>1, <2>2 DEF TypeOK, RequestRecords, Unchanged
<1>4. QED
  BY <1>2, <1>3

LEMMA TypeStep ==
  ASSUME TypeOK, RowsValid, [Next]_vars
  PROVE  TypeOK'
<1>1. ASSUME NEW r \in Requests, Step(r)
      PROVE  TypeOK'
  <2>1. CASE Break(r)
    <3>1. req \in [Requests -> RequestRecords] /\ Unchanged /\ Goto(r, "broken")
      BY <2>1 DEF Break, TypeOK
    <3>2. QED
      BY <3>1, GotoTyped, OnlyRequest DEF Steps
  <2>2. QED
    BY <1>1, <2>1, BeginTyped, CreateUpdateTyped, DeleteTyped, AddTyped DEF Step
<1>2. CASE RemoveItem
  BY <1>2 DEF RemoveItem, TypeOK
<1>3. CASE UNCHANGED vars
  BY <1>3 DEF vars, TypeOK
<1>4. QED
  BY <1>1, <1>2, <1>3 DEF Next
-----------------------------------------------------------------------------
(***************************************************************************)
(* The rows about to be written are valid.                                 *)
(***************************************************************************)
NewRowValid(r) == RowValid(req'[r])

\* A request that ends has nothing to write.
LEMMA AnswerRows ==
  ASSUME req \in [Requests -> RequestRecords], RowsValid, NEW r \in Requests,
         \/ \E status : Answer(r, status)
         \/ \E pc \in Steps \ {"exists", "write"} : Goto(r, pc)
         \/ \E status : AnswerWrite(r, status)
  PROVE  NewRowValid(r)
<1>1. PICK pc \in Steps \ {"exists", "write"} :
        /\ req'[r].pc = pc /\ req'[r].op = req[r].op
        /\ req'[r].form = req[r].form
  BY DEF Answer, AnswerWrite, Goto, RequestRecords, Steps
<1>2. pc \notin {"exists", "write"} /\ RowValid(req[r])
  BY DEF RowsValid
<1>3. QED
  BY <1>1, <1>2 DEF NewRowValid, RowValid

LEMMA ValidatedRows ==
  ASSUME req \in [Requests -> RequestRecords], RowsValid, NEW r \in Requests,
         NEW row, Validated(r, row), FromBody(row, req[r].form)
  PROVE  NewRowValid(r)
<1>1. /\ req'[r].op = req[r].op /\ req'[r].form = req[r].form
      /\ req'[r].row = row
      /\ req'[r].pc = IF Valid(row) THEN "exists" ELSE "done"
  BY DEF Validated, RequestRecords
<1>2. RowValid(req[r])
  BY DEF RowsValid
<1>3. QED
  BY <1>1, <1>2 DEF NewRowValid, RowValid

\* POST writes its own row; PUT writes it over one of the catalog.
LEMMA NewFromBody ==
  ASSUME NEW form \in Forms, {"title", "price"} \subseteq form.given
  PROVE  FromBody([form.row EXCEPT !.active = TRUE], form)
<1>1. form.row \in Rows
  BY FormTypes
<1>2. /\ [form.row EXCEPT !.active = TRUE].title = form.row.title
      /\ [form.row EXCEPT !.active = TRUE].price = form.row.price
  BY <1>1 DEF Rows
<1>3. QED
  BY <1>2 DEF FromBody, Storable, Misfits

LEMMA MergedFromBody ==
  ASSUME NEW form \in Forms, NEW row \in Rows, Storable(row)
  PROVE  FromBody(Merged(form, row), form)
<1>1. /\ Merged(form, row).title =
           IF "title" \in form.given THEN form.row.title ELSE row.title
      /\ Merged(form, row).price =
           IF "price" \in form.given THEN form.row.price ELSE row.price
  BY DEF Merged, Rows
<1>2. QED
  BY <1>1 DEF FromBody, Storable, Misfits

LEMMA OtherRequests ==
  ASSUME req \in [Requests -> RequestRecords], NEW r \in Requests, Step(r)
  PROVE  \A q \in Requests \ {r} : req'[q] = req[q]
<1>1. CASE \/ BeginCreate(r) \/ BeginUpdate(r) \/ BeginDelete(r)
           \/ BeginAdd(r) \/ Break(r)
  BY <1>1 DEF BeginCreate, BeginUpdate, BeginDelete, BeginAdd, Break, Goto
<1>2. CASE \/ ValidateNew(r) \/ ExistsByTitle(r) \/ Create(r)
           \/ FindForUpdate(r) \/ Update(r)
  BY <1>2 DEF ValidateNew, ExistsByTitle, Create, FindForUpdate, Update, Write,
              Validated, Answer, AnswerWrite, Goto
<1>3. CASE \/ FindForDelete(r) \/ HasWorkOrderLinks(r)
           \/ Deactivate(r) \/ Delete(r) \/ CreateBatch(r)
  BY <1>3 DEF FindForDelete, HasWorkOrderLinks, Deactivate, Delete, CreateBatch,
              Answer, AnswerWrite, Goto
<1>4. CASE FindToAdd(r)
  BY <1>4 DEF FindToAdd, Answer
<1>5. QED
  BY <1>1, <1>2, <1>3, <1>4 DEF Step

LEMMA OwnRow ==
  ASSUME TypeOK, RowsValid, CatalogFits, NEW r \in Requests, Step(r)
  PROVE  NewRowValid(r)
<1>1. req \in [Requests -> RequestRecords] /\ req[r].form \in Forms
  BY DEF TypeOK, RequestRecords
<1>2. CASE BeginCreate(r) \/ BeginUpdate(r) \/ BeginDelete(r) \/ BeginAdd(r)
  <2>1. CASE BeginCreate(r)
    <3>1. /\ req'[r].op = "create" /\ req'[r].pc = "begun"
          /\ {"title", "price"} \subseteq req'[r].form.given
      BY <1>1, <2>1 DEF BeginCreate, RequestRecords
    <3>2. QED
      BY <3>1 DEF NewRowValid, RowValid
  <2>2. CASE BeginUpdate(r)
    <3>1. req'[r].op = "update" /\ req'[r].pc = "find"
      BY <1>1, <2>2 DEF BeginUpdate, RequestRecords
    <3>2. QED
      BY <3>1 DEF NewRowValid, RowValid
  <2>3. CASE BeginDelete(r) \/ BeginAdd(r)
    <3>1. req'[r].op \in {"delete", "add"}
      <4>1. CASE BeginDelete(r)
        BY <1>1, <4>1 DEF BeginDelete, RequestRecords
      <4>2. CASE BeginAdd(r)
        BY <1>1, <4>2 DEF BeginAdd, RequestRecords
      <4>3. QED
        BY <2>3, <4>1, <4>2
    <3>2. QED
      BY <3>1 DEF NewRowValid, RowValid
  <2>4. QED
    BY <1>2, <2>1, <2>2, <2>3
<1>3. CASE ValidateNew(r)
  <2>1. {"title", "price"} \subseteq req[r].form.given
    BY <1>3 DEF ValidateNew, At, RowsValid, RowValid
  <2>2. QED
    BY <1>1, <1>3, <2>1, NewFromBody, ValidatedRows DEF ValidateNew
<1>4. CASE ExistsByTitle(r)
  <2>1. CASE Goto(r, "write")
    <3>1. /\ req[r].op \in {"create", "update"} /\ req[r].pc = "exists"
          /\ RowValid(req[r])
      BY <1>4 DEF ExistsByTitle, At, RowsValid
    <3>2. /\ req'[r].op = req[r].op /\ req'[r].form = req[r].form
          /\ req'[r].row = req[r].row
      BY <1>1, <2>1 DEF Goto, RequestRecords
    <3>3. QED
      BY <3>1, <3>2 DEF NewRowValid, RowValid
  <2>2. CASE \E e : Answer(r, HandleServiceError(e))
    BY <1>1, <2>2, AnswerRows
  <2>3. QED
    BY <1>4, <2>1, <2>2 DEF ExistsByTitle
<1>5. CASE Create(r) \/ Update(r)
  <2>1. \/ AnswerWrite(r, Ok)
        \/ \E e : Answer(r, HandleServiceError(e))
    BY <1>5 DEF Create, Update, Write
  <2>2. QED
    BY <1>1, <2>1, AnswerRows
<1>6. CASE FindForUpdate(r)
  <2>1. CASE req[r].id \in DOMAIN catalog
    <3>1. catalog[req[r].id] \in Rows /\ Storable(catalog[req[r].id])
      BY <2>1 DEF TypeOK, CatalogFits
    <3>2. QED
      BY <1>1, <1>6, <2>1, <3>1, MergedFromBody, ValidatedRows DEF FindForUpdate
  <2>2. CASE req[r].id \notin DOMAIN catalog
    BY <1>1, <1>6, <2>2, AnswerRows DEF FindForUpdate
  <2>3. QED
    BY <2>1, <2>2
<1>7. CASE FindForDelete(r) \/ HasWorkOrderLinks(r) \/ Deactivate(r) \/ Delete(r)
  <2>1. req[r].op = "delete"
    BY <1>7 DEF FindForDelete, HasWorkOrderLinks, Deactivate, Delete, At
  <2>2. \/ \E pc : Goto(r, pc)
        \/ \E status : Answer(r, status)
    BY <1>7 DEF FindForDelete, HasWorkOrderLinks, Deactivate, Delete, AnswerWrite
  <2>3. req'[r].op = req[r].op
    BY <1>1, <2>2 DEF Goto, Answer, RequestRecords
  <2>4. QED
    BY <2>1, <2>3 DEF NewRowValid, RowValid
<1>8. CASE FindToAdd(r) \/ CreateBatch(r)
  <2>1. CASE \/ \E status : Answer(r, status)
             \/ \E status : AnswerWrite(r, status)
    BY <1>1, <2>1, AnswerRows
  <2>2. CASE FindToAdd(r) /\ ~ \E status : Answer(r, status)
    <3>1. PICK s \in req[r].todo :
            req' = [req EXCEPT ![r].todo = @ \ {s},
                      ![r].batch = @ \union {Snapshot(r, s)},
                      ![r].pc = IF req[r].todo = {s} THEN "insert" ELSE "find"]
      BY <2>2 DEF FindToAdd
    <3>2. req[r].op = "add"
      BY <2>2 DEF FindToAdd, At
    <3>3. req'[r].op = req[r].op
      BY <1>1, <3>1 DEF RequestRecords
    <3>4. QED
      BY <3>2, <3>3 DEF NewRowValid, RowValid
  <2>3. QED
    BY <1>8, <2>1, <2>2 DEF CreateBatch
<1>9. CASE Break(r)
  BY <1>1, <1>9, AnswerRows DEF Break, Steps
<1>10. QED
  BY <1>2, <1>3, <1>4, <1>5, <1>6, <1>7, <1>8, <1>9 DEF Step

-----------------------------------------------------------------------------
(***************************************************************************)
(* What a step does to the tables.                                         *)
(***************************************************************************)
Keeps == UNCHANGED <<catalog, deleted, offered>> /\ items' \subseteq items

Writes(id, row) ==
  /\ Storable(row)
  /\ id \in DOMAIN catalog \/ id \notin deleted
  /\ \A s \in DOMAIN catalog \ {id} : catalog[s].title.name # row.title.name
  /\ CatalogBecomes(Put(catalog, id, row))
  /\ UNCHANGED <<items, deleted>>

Deactivates(s) ==
  /\ s \in DOMAIN catalog
  /\ catalog' = [catalog EXCEPT ![s].active = FALSE]
  /\ UNCHANGED <<items, deleted, offered>>

Deletes(s) ==
  /\ ~Linked(s)
  /\ CatalogBecomes(Remove(catalog, s))
  /\ deleted' = deleted \union {s}
  /\ UNCHANGED items

Adds(batch) ==
  /\ \A item \in batch : item.service \in DOMAIN catalog
  /\ items' = items \union batch
  /\ UNCHANGED <<catalog, deleted, offered>>

Kinds ==
  \/ Keeps
  \/ \E id, row : Writes(id, row)
  \/ \E s : Deactivates(s) \/ Deletes(s)
  \/ \E r \in Requests : Adds(req[r].batch)

LEMMA WriteKind ==
  ASSUME NEW r, NEW id, Write(r, id), id \in DOMAIN catalog \/ id \notin deleted
  PROVE  Keeps \/ Writes(id, req[r].row)
<1>1. CASE Refusal(id, req[r].row) = {}
  <2>1. Storable(req[r].row) /\ ~Taken(catalog, id, Lower, req[r].row)
    BY <1>1 DEF Refusal
  <2>2. \A s \in DOMAIN catalog \ {id} :
          catalog[s].title.name # req[r].row.title.name
    BY <2>1 DEF Taken, Lower, Remove
  <2>3. QED
    BY <1>1, <2>1, <2>2 DEF Write, Writes
<1>2. CASE Refusal(id, req[r].row) # {}
  BY <1>2 DEF Write, Keeps, Unchanged
<1>3. QED
  BY <1>1, <1>2

LEMMA StepKinds == [Next]_vars => Kinds
<1> SUFFICES ASSUME [Next]_vars PROVE Kinds
  OBVIOUS
<1>1. ASSUME NEW r \in Requests, Step(r)
      PROVE  Kinds
  <2>1. CASE Unchanged
    BY <2>1 DEF Unchanged, Kinds, Keeps
  <2>2. CASE Create(r) \/ Update(r)
    BY <2>1, <2>2, WriteKind DEF Create, Update, NewIds, Kinds
  <2>3. CASE Deactivate(r)
    BY <2>1, <2>3 DEF Deactivate, Deactivates, Kinds
  <2>4. CASE Delete(r)
    <3>1. CASE DeleteRefusal(req[r].id) = {}
      BY <2>4, <3>1 DEF Delete, DeleteRefusal, Deletes, Kinds
    <3>2. CASE DeleteRefusal(req[r].id) # {}
      BY <2>1, <2>4, <3>2 DEF Delete
    <3>3. QED
      BY <3>1, <3>2
  <2>5. CASE CreateBatch(r)
    BY <2>1, <2>5 DEF CreateBatch, BatchRefusal, Adds, Kinds
  <2>6. CASE \/ BeginCreate(r) \/ ValidateNew(r) \/ BeginUpdate(r)
             \/ FindForUpdate(r) \/ ExistsByTitle(r) \/ BeginDelete(r)
             \/ FindForDelete(r) \/ HasWorkOrderLinks(r) \/ BeginAdd(r)
             \/ FindToAdd(r) \/ Break(r)
    BY <2>1, <2>6 DEF BeginCreate, ValidateNew, BeginUpdate, FindForUpdate,
         ExistsByTitle, BeginDelete, FindForDelete, HasWorkOrderLinks,
         BeginAdd, FindToAdd, Break
  <2>7. QED
    BY <1>1, <2>2, <2>3, <2>4, <2>5, <2>6 DEF Step
<1>2. CASE RemoveItem \/ UNCHANGED vars
  BY <1>2 DEF RemoveItem, vars, Keeps, Kinds
<1>3. QED
  BY <1>1, <1>2 DEF Next

-----------------------------------------------------------------------------
LEMMA RowsStep ==
  ASSUME TypeOK, RowsValid, CatalogFits, [Next]_vars
  PROVE  RowsValid'
<1>1. ASSUME NEW r \in Requests, Step(r)
      PROVE  RowsValid'
  <2>1. NewRowValid(r) /\ \A q \in Requests \ {r} : req'[q] = req[q]
    BY <1>1, OwnRow, OtherRequests DEF TypeOK
  <2>2. ASSUME NEW q \in Requests PROVE RowValid(req[q])'
    <3>1. RowValid(req'[q])
      BY <2>1 DEF NewRowValid, RowsValid
    <3>2. QED
      BY <3>1 DEF RowValid, FromBody, Storable, Misfits, Valid
  <2>3. QED
    BY <2>2 DEF RowsValid
<1>2. CASE RemoveItem \/ UNCHANGED vars
  <2>1. req' = req
    BY <1>2 DEF RemoveItem, vars
  <2>2. QED
    BY <2>1 DEF RowsValid, RowValid, FromBody, Storable, Misfits, Valid
<1>3. QED
  BY <1>1, <1>2 DEF Next

LEMMA FitsStep ==
  ASSUME CatalogFits, [Next]_vars
  PROVE  CatalogFits'
<1> SUFFICES ASSUME NEW t \in DOMAIN catalog' PROVE Storable(catalog'[t])
  BY DEF CatalogFits, Storable, Misfits
<1>1. Kinds
  BY StepKinds
<1>2. CASE Keeps \/ \E r \in Requests : Adds(req[r].batch)
  BY <1>2 DEF Keeps, Adds, CatalogFits
<1>3. ASSUME NEW id, NEW row, Writes(id, row) PROVE Storable(catalog'[t])
  <2>1. catalog'[t] = row \/ (t \in DOMAIN catalog /\ catalog'[t] = catalog[t])
    <3>1. catalog' = Put(catalog, id, row)
      BY <1>3 DEF Writes, CatalogBecomes
    <3>2. QED
      BY <3>1 DEF Put
  <2>2. Storable(row)
    BY <1>3 DEF Writes
  <2>3. QED
    BY <2>1, <2>2 DEF CatalogFits
<1>4. ASSUME NEW s, Deactivates(s) PROVE Storable(catalog'[t])
  <2>1. /\ t \in DOMAIN catalog /\ catalog'[t].title = catalog[t].title
        /\ catalog'[t].price = catalog[t].price
    BY <1>4 DEF Deactivates
  <2>2. QED
    BY <2>1 DEF CatalogFits, Storable, Misfits
<1>5. ASSUME NEW s, Deletes(s) PROVE Storable(catalog'[t])
  BY <1>5 DEF Deletes, CatalogBecomes, Remove, CatalogFits
<1>6. QED
  BY <1>1, <1>2, <1>3, <1>4, <1>5 DEF Kinds

CatalogInv == TypeOK /\ RowsValid /\ CatalogFits

LEMMA CatalogInvariant == Spec => []CatalogInv
<1>1. Init => CatalogInv
  <2>1. Init => RowsValid
    BY DEF Init, RowsValid, RowValid, IdleRequest
  <2>2. Init => CatalogFits
    BY CatalogAssumption DEF Init, CatalogFits
  <2>3. QED
    BY <2>1, <2>2, InitTyped DEF CatalogInv
<1>2. CatalogInv /\ [Next]_vars => CatalogInv'
  BY TypeStep, RowsStep, FitsStep DEF CatalogInv
<1>3. QED
  BY <1>1, <1>2, PTL DEF Spec

(***************************************************************************)
(* The tables, the requests and the histories have their types, and no     *)
(* service of the catalog is free: between Validate and the INSERT or      *)
(* UPDATE of /services no step of another request changes the row.         *)
(***************************************************************************)
THEOREM TypeCorrect == Spec => []TypeOK
BY CatalogInvariant, PTL DEF CatalogInv
-----------------------------------------------------------------------------
(***************************************************************************)
(* No two services have titles that differ only in capitals, whatever the  *)
(* requests to /services found with ExistsByTitle before they write: the   *)
(* unique index is enough.                                                 *)
(***************************************************************************)
THEOREM TitlesStayUnique == Spec => []TitlesUnique
<1>1. Init => TitlesUnique
  BY CatalogAssumption DEF Init, TitlesUnique
<1>2. TitlesUnique /\ [Next]_vars => TitlesUnique'
  <2> SUFFICES ASSUME TitlesUnique, Kinds PROVE TitlesUnique'
    BY StepKinds
  <2>1. CASE Keeps \/ \E r \in Requests : Adds(req[r].batch)
    BY <2>1 DEF Keeps, Adds, TitlesUnique
  <2>2. ASSUME NEW id, NEW row, Writes(id, row) PROVE TitlesUnique'
    BY <2>2 DEF Writes, CatalogBecomes, Put, TitlesUnique
  <2>3. ASSUME NEW s, Deactivates(s) PROVE TitlesUnique'
    <3>1. /\ DOMAIN catalog' = DOMAIN catalog
          /\ \A t \in DOMAIN catalog : catalog'[t].title = catalog[t].title
      BY <2>3 DEF Deactivates
    <3>2. QED
      BY <3>1 DEF TitlesUnique
  <2>4. ASSUME NEW s, Deletes(s) PROVE TitlesUnique'
    BY <2>4 DEF Deletes, CatalogBecomes, Remove, TitlesUnique
  <2>5. QED
    BY <2>1, <2>2, <2>3, <2>4 DEF Kinds
<1>3. QED
  BY <1>1, <1>2, PTL DEF Spec

(***************************************************************************)
(* Every service an order refers to is in the catalog, in whatever order   *)
(* DELETE /services/:id and AddServices of the same service take their     *)
(* steps.                                                                  *)
(***************************************************************************)
THEOREM ItemsStayResolved == Spec => []ItemsResolve
<1>1. Init => ItemsResolve
  BY DEF Init, ItemsResolve
<1>2. ItemsResolve /\ [Next]_vars => ItemsResolve'
  <2> SUFFICES ASSUME ItemsResolve, Kinds PROVE ItemsResolve'
    BY StepKinds
  <2>1. CASE Keeps \/ \E r \in Requests : Adds(req[r].batch)
    BY <2>1 DEF Keeps, Adds, ItemsResolve
  <2>2. ASSUME NEW id, NEW row, Writes(id, row) PROVE ItemsResolve'
    BY <2>2 DEF Writes, CatalogBecomes, Put, ItemsResolve
  <2>3. ASSUME NEW s, Deactivates(s) PROVE ItemsResolve'
    BY <2>3 DEF Deactivates, ItemsResolve
  <2>4. ASSUME NEW s, Deletes(s) PROVE ItemsResolve'
    BY <2>4 DEF Deletes, Linked, CatalogBecomes, Remove, ItemsResolve
  <2>5. QED
    BY <2>1, <2>2, <2>3, <2>4 DEF Kinds
<1>3. QED
  BY <1>1, <1>2, PTL DEF Spec

(***************************************************************************)
(* A service whose DELETE succeeded is never in the catalog again: an      *)
(* UPDATE of a row that is gone changes nothing and a new service has a    *)
(* new id.                                                                 *)
(***************************************************************************)
THEOREM DeletedStayDeleted == Spec => []DeletedForever
<1>1. Init => DeletedForever
  BY DEF Init, DeletedForever
<1>2. DeletedForever /\ [Next]_vars => DeletedForever'
  <2> SUFFICES ASSUME DeletedForever, Kinds PROVE DeletedForever'
    BY StepKinds
  <2>1. CASE Keeps \/ \E r \in Requests : Adds(req[r].batch)
    BY <2>1 DEF Keeps, Adds, DeletedForever
  <2>2. ASSUME NEW id, NEW row, Writes(id, row) PROVE DeletedForever'
    BY <2>2 DEF Writes, CatalogBecomes, Put, DeletedForever
  <2>3. ASSUME NEW s, Deactivates(s) PROVE DeletedForever'
    BY <2>3 DEF Deactivates, DeletedForever
  <2>4. ASSUME NEW s, Deletes(s) PROVE DeletedForever'
    BY <2>4 DEF Deletes, CatalogBecomes, Remove, DeletedForever
  <2>5. QED
    BY <2>1, <2>2, <2>3, <2>4 DEF Kinds
<1>3. QED
  BY <1>1, <1>2, PTL DEF Spec

-----------------------------------------------------------------------------
(***************************************************************************)
(* What AddServices has collected was on offer, as is what the catalog     *)
(* offers now.                                                             *)
(***************************************************************************)
BatchesOffered ==
  \A r \in Requests : \A item \in req[r].batch :
    <<item.service, item.offer>> \in offered

CatalogOffered ==
  \A s \in DOMAIN catalog :
    catalog[s].active => <<s, Offer(catalog[s])>> \in offered

\* The batch of a request grows in FindToAdd only.
LEMMA BatchStep ==
  ASSUME req \in [Requests -> RequestRecords], NEW r \in Requests, Step(r)
  PROVE  \/ req'[r].batch = req[r].batch
         \/ \E s \in DOMAIN catalog :
              /\ catalog[s].active
              /\ req'[r].batch = req[r].batch \union {Snapshot(r, s)}
              /\ Unchanged
<1>1. CASE \/ BeginCreate(r) \/ BeginUpdate(r) \/ BeginDelete(r) \/ BeginAdd(r)
  <2>1. CASE BeginCreate(r)
    BY <2>1 DEF BeginCreate, RequestRecords
  <2>2. CASE BeginUpdate(r)
    BY <2>2 DEF BeginUpdate, RequestRecords
  <2>3. CASE BeginDelete(r)
    BY <2>3 DEF BeginDelete, RequestRecords
  <2>4. CASE BeginAdd(r)
    BY <2>4 DEF BeginAdd, RequestRecords
  <2>5. QED
    BY <1>1, <2>1, <2>2, <2>3, <2>4
<1>2. CASE Break(r)
  BY <1>2 DEF Break, Goto, RequestRecords
<1>3. CASE \/ ValidateNew(r) \/ FindForUpdate(r)
  <2>1. \/ \E status : Answer(r, status)
        \/ \E row : Validated(r, row)
    BY <1>3 DEF ValidateNew, FindForUpdate
  <2>2. CASE \E status : Answer(r, status)
    BY <2>2 DEF Answer, RequestRecords
  <2>3. CASE \E row : Validated(r, row)
    BY <2>3 DEF Validated, RequestRecords
  <2>4. QED
    BY <2>1, <2>2, <2>3
<1>4. CASE \/ ExistsByTitle(r) \/ Create(r) \/ Update(r)
  <2>1. \/ \E status : Answer(r, status)
        \/ \E status : AnswerWrite(r, status)
        \/ Goto(r, "write")
    BY <1>4 DEF ExistsByTitle, Create, Update, Write
  <2>2. QED
    BY <2>1 DEF Answer, AnswerWrite, Goto, RequestRecords
<1>5. CASE \/ FindForDelete(r) \/ HasWorkOrderLinks(r)
           \/ Deactivate(r) \/ Delete(r) \/ CreateBatch(r)
  <2>1. \/ \E status : Answer(r, status)
        \/ \E status : AnswerWrite(r, status)
        \/ \E pc : Goto(r, pc)
    BY <1>5 DEF FindForDelete, HasWorkOrderLinks, Deactivate, Delete, CreateBatch
  <2>2. QED
    BY <2>1 DEF Answer, AnswerWrite, Goto, RequestRecords
<1>6. CASE FindToAdd(r)
  <2>1. CASE \E status : Answer(r, status)
    BY <2>1 DEF Answer, RequestRecords
  <2>2. CASE ~ \E status : Answer(r, status)
    <3>1. PICK s \in DOMAIN catalog :
            /\ catalog[s].active
            /\ req' = [req EXCEPT ![r].todo = @ \ {s},
                      ![r].batch = @ \union {Snapshot(r, s)},
                      ![r].pc = IF req[r].todo = {s} THEN "insert" ELSE "find"]
      BY <1>6, <2>2 DEF FindToAdd
    <3>2. req'[r].batch = req[r].batch \union {Snapshot(r, s)}
      BY <3>1 DEF RequestRecords
    <3>3. QED
      BY <1>6, <3>1, <3>2 DEF FindToAdd
  <2>3. QED
    BY <2>1, <2>2
<1>7. QED
  BY <1>1, <1>2, <1>3, <1>4, <1>5, <1>6 DEF Step

LEMMA CatalogOfferedStep ==
  ASSUME TypeOK, CatalogOffered, Kinds
  PROVE  CatalogOffered' /\ offered \subseteq offered'
<1>1. CASE Keeps \/ \E r \in Requests : Adds(req[r].batch)
  BY <1>1 DEF Keeps, Adds, CatalogOffered, Offer
<1>2. ASSUME NEW table, CatalogBecomes(table)
      PROVE  CatalogOffered' /\ offered \subseteq offered'
  BY <1>2 DEF CatalogBecomes, OffersOf, CatalogOffered, Offer
<1>3. ASSUME NEW s, Deactivates(s)
      PROVE  CatalogOffered' /\ offered \subseteq offered'
  <2>1. /\ DOMAIN catalog' = DOMAIN catalog /\ offered' = offered
        /\ \A t \in DOMAIN catalog \ {s} : catalog'[t] = catalog[t]
        /\ s \in DOMAIN catalog /\ catalog[s] \in Rows
        /\ catalog' = [catalog EXCEPT ![s] = [catalog[s] EXCEPT !.active = FALSE]]
    BY <1>3 DEF Deactivates, TypeOK
  <2>2. ~catalog'[s].active
    BY <2>1 DEF Rows
  <2>3. ASSUME NEW t \in DOMAIN catalog', catalog'[t].active
        PROVE  <<t, Offer(catalog'[t])>> \in offered'
    <3>1. t # s /\ t \in DOMAIN catalog /\ catalog'[t] = catalog[t]
      BY <2>1, <2>2, <2>3
    <3>2. QED
      BY <2>1, <2>3, <3>1 DEF CatalogOffered
  <2>4. CatalogOffered'
    BY <2>3 DEF CatalogOffered, Offer
  <2>5. QED
    BY <2>1, <2>4
<1>4. QED
  BY <1>1, <1>2, <1>3 DEF Kinds, Writes, Deletes

(***************************************************************************)
(* What an order is charged for a service was the title and the price of   *)
(* this service while it was active, although AddServices reads the        *)
(* services one by one before it inserts and PUT, DELETE and the           *)
(* deactivation go on in between.                                          *)
(***************************************************************************)
THEOREM SnapshotsWereOffered == Spec => []SnapshotsOffered
<1> DEFINE Inv == SnapshotsOffered /\ BatchesOffered /\ CatalogOffered
<1>1. Init => Inv
  BY DEF Init, IdleRequest, OffersOf, SnapshotsOffered, BatchesOffered,
         CatalogOffered
<1>2. CatalogInv /\ Inv /\ [Next]_vars => Inv'
  <2> SUFFICES ASSUME CatalogInv, Inv, [Next]_vars PROVE Inv'
    OBVIOUS
  <2>1. Kinds /\ CatalogOffered' /\ offered \subseteq offered'
    BY StepKinds, CatalogOfferedStep DEF CatalogInv
  <2>2. SnapshotsOffered'
    <3>1. items' \subseteq items \/ \E r \in Requests : items' = items \union req[r].batch
      BY <2>1 DEF Kinds, Keeps, Writes, Deactivates, Deletes, Adds
    <3>2. QED
      BY <2>1, <3>1 DEF SnapshotsOffered, BatchesOffered
  <2>3. BatchesOffered'
    <3>1. ASSUME NEW r \in Requests, Step(r) PROVE BatchesOffered'
      <4>1. req \in [Requests -> RequestRecords]
        BY DEF CatalogInv, TypeOK
      <4>2. \A q \in Requests \ {r} : req'[q] = req[q]
        BY <3>1, <4>1, OtherRequests
      <4>3. \A item \in req'[r].batch : <<item.service, item.offer>> \in offered'
        <5>1. CASE req'[r].batch = req[r].batch
          BY <2>1, <5>1 DEF BatchesOffered
        <5>2. ASSUME NEW s \in DOMAIN catalog, catalog[s].active,
                     req'[r].batch = req[r].batch \union {Snapshot(r, s)}
              PROVE  \A item \in req'[r].batch :
                       <<item.service, item.offer>> \in offered'
          <6>1. <<s, Offer(catalog[s])>> \in offered
            BY <5>2 DEF CatalogOffered
          <6>2. /\ Snapshot(r, s).service = s
                /\ Snapshot(r, s).offer = Offer(catalog[s])
            BY DEF Snapshot
          <6>3. QED
            BY <2>1, <5>2, <6>1, <6>2 DEF BatchesOffered
        <5>3. QED
          BY <3>1, <4>1, <5>1, <5>2, BatchStep
      <4>4. QED
        BY <2>1, <4>2, <4>3 DEF BatchesOffered
    <3>2. CASE RemoveItem \/ UNCHANGED vars
      BY <2>1, <3>2 DEF RemoveItem, vars, BatchesOffered
    <3>3. QED
      BY <3>1, <3>2 DEF Next
  <2>4. QED
    BY <2>1, <2>2, <2>3
<1>3. QED
  BY <1>1, <1>2, CatalogInvariant, PTL DEF Spec
-----------------------------------------------------------------------------
(***************************************************************************)
(* The answers of requests that lose a race.                               *)
(***************************************************************************)
Excused(r) ==
  req'[r].pc = "done" /\ req'[r].answer = InternalError => Oversized(req'[r])

Handled == {Ok, BadRequest, NotFound, Conflict, Unprocessable}

LEMMA KnownErrors ==
  /\ \A e \in {"title exists", "validation", "no rows", "unique", "foreign key"} :
       HandleServiceError(e) \in Handled
  /\ \A e \in {"no rows", "inactive", "foreign key"} :
       MapErrorResponse(e) \in Handled
BY DEF HandleServiceError, MapErrorResponse, DbErrResponse, Handled, Ok,
       BadRequest, NotFound, Conflict, Unprocessable, InternalError

LEMMA HandledExcused ==
  ASSUME req \in [Requests -> RequestRecords], NEW r \in Requests,
         \/ \E status \in Handled : Answer(r, status) \/ AnswerWrite(r, status)
         \/ \E pc \in Steps \ {"done"} : Goto(r, pc)
  PROVE  Excused(r)
BY DEF Answer, AnswerWrite, Goto, Excused, Handled, Ok, BadRequest, NotFound,
       Conflict, Unprocessable, InternalError, RequestRecords, Steps

LEMMA ValidatedExcused ==
  ASSUME req \in [Requests -> RequestRecords], NEW r \in Requests,
         NEW row, Validated(r, row)
  PROVE  Excused(r)
<1>1. HandleServiceError("validation") # InternalError
  BY DEF HandleServiceError, BadRequest, InternalError
<1>2. CASE Valid(row)
  BY <1>2 DEF Validated, Excused, RequestRecords
<1>3. CASE ~Valid(row)
  BY <1>1, <1>3 DEF Validated, Excused, RequestRecords
<1>4. QED
  BY <1>2, <1>3

\* An answer to a request whose body is too much is excused whatever it is.
LEMMA OversizedExcused ==
  ASSUME req \in [Requests -> RequestRecords], NEW r \in Requests,
         Oversized(req[r]), \E status : Answer(r, status)
  PROVE  Excused(r)
<1>1. /\ req'[r].op = req[r].op /\ req'[r].form = req[r].form
      /\ req'[r].minutes = req[r].minutes
  BY DEF Answer, RequestRecords
<1>2. QED
  BY <1>1 DEF Excused, Oversized

LEMMA WriteExcused ==
  ASSUME req \in [Requests -> RequestRecords], RowsValid, NEW r \in Requests,
         req[r].op \in {"create", "update"}, req[r].pc = "write",
         NEW id, Write(r, id)
  PROVE  Excused(r)
<1>1. CASE AnswerWrite(r, Ok)
  BY <1>1, HandledExcused DEF Handled
<1>2. CASE \E e \in Refusal(id, req[r].row) : Answer(r, HandleServiceError(e))
  <2>1. PICK e \in Refusal(id, req[r].row) : Answer(r, HandleServiceError(e))
    BY <1>2
  <2>2. CASE e = "unique"
    BY <2>1, <2>2, KnownErrors, HandledExcused
  <2>3. CASE e # "unique"
    <3>1. ~Storable(req[r].row)
      BY <2>1, <2>3 DEF Refusal
    <3>2. Oversized(req[r])
      BY <3>1 DEF RowsValid, RowValid, FromBody, Oversized
    <3>3. QED
      BY <2>1, <3>2, OversizedExcused
  <2>4. QED
    BY <2>2, <2>3
<1>3. QED
  BY <1>1, <1>2 DEF Write

LEMMA OwnAnswer ==
  ASSUME req \in [Requests -> RequestRecords], RowsValid, NEW r \in Requests, Step(r)
  PROVE  Excused(r)
<1>1. CASE BeginCreate(r) \/ BeginUpdate(r) \/ BeginDelete(r) \/ BeginAdd(r)
  <2>1. req'[r].pc \in {"begun", "find"}
    <3>1. CASE BeginCreate(r)
      BY <3>1 DEF BeginCreate, RequestRecords
    <3>2. CASE BeginUpdate(r)
      BY <3>2 DEF BeginUpdate, RequestRecords
    <3>3. CASE BeginDelete(r)
      BY <3>3 DEF BeginDelete, RequestRecords
    <3>4. CASE BeginAdd(r)
      BY <3>4 DEF BeginAdd, RequestRecords
    <3>5. QED
      BY <1>1, <3>1, <3>2, <3>3, <3>4
  <2>2. QED
    BY <2>1 DEF Excused
<1>2. CASE ValidateNew(r)
  BY <1>2, ValidatedExcused DEF ValidateNew
<1>3. CASE ExistsByTitle(r)
  <2>1. CASE req[r].row.title.name = NulTitle
    <3>1. ~Storable(req[r].row)
      BY <2>1 DEF Storable, Misfits
    <3>2. Oversized(req[r])
      BY <1>3, <3>1 DEF ExistsByTitle, At, RowsValid, RowValid, FromBody, Oversized
    <3>3. QED
      BY <1>3, <2>1, <3>2, OversizedExcused DEF ExistsByTitle
  <2>2. CASE req[r].row.title.name # NulTitle
    <3>1. \/ Answer(r, HandleServiceError("title exists"))
          \/ Goto(r, "write")
      BY <1>3, <2>2 DEF ExistsByTitle
    <3>2. QED
      BY <3>1, KnownErrors, HandledExcused DEF Steps
  <2>3. QED
    BY <2>1, <2>2
<1>4. CASE Create(r)
  BY <1>4, WriteExcused DEF Create, At
<1>5. CASE FindForUpdate(r)
  <2>1. \/ Answer(r, HandleServiceError("no rows"))
        \/ \E row : Validated(r, row)
    BY <1>5 DEF FindForUpdate
  <2>2. QED
    BY <2>1, KnownErrors, HandledExcused, ValidatedExcused
<1>6. CASE Update(r)
  <2>1. CASE Write(r, req[r].id)
    BY <1>6, <2>1, WriteExcused DEF Update, At
  <2>2. CASE Answer(r, HandleServiceError("no rows"))
    BY <2>2, KnownErrors, HandledExcused
  <2>3. CASE ~Storable(req[r].row) /\ \E status : Answer(r, status)
    <3>1. Oversized(req[r])
      BY <1>6, <2>3 DEF Update, At, RowsValid, RowValid, FromBody, Oversized
    <3>2. QED
      BY <2>3, <3>1, OversizedExcused
  <2>4. QED
    BY <1>6, <2>1, <2>2, <2>3 DEF Update
<1>7. CASE FindForDelete(r) \/ HasWorkOrderLinks(r)
  <2>1. \/ Answer(r, HandleServiceError("no rows"))
        \/ \E pc \in {"links", "deactivate", "write"} : Goto(r, pc)
    BY <1>7 DEF FindForDelete, HasWorkOrderLinks
  <2>2. QED
    BY <2>1, KnownErrors, HandledExcused DEF Steps
<1>8. CASE Deactivate(r) \/ Delete(r)
  <2>1. \/ \E e \in {"no rows", "foreign key"} : Answer(r, HandleServiceError(e))
        \/ AnswerWrite(r, Ok)
    BY <1>8 DEF Deactivate, Delete, DeleteRefusal
  <2>2. QED
    BY <2>1, KnownErrors, HandledExcused DEF Handled
<1>9. CASE FindToAdd(r)
  <2>1. CASE \E e \in {"no rows", "inactive"} : Answer(r, MapErrorResponse(e))
    BY <2>1, KnownErrors, HandledExcused
  <2>2. CASE ~ \E e \in {"no rows", "inactive"} : Answer(r, MapErrorResponse(e))
    <3>1. PICK s \in req[r].todo :
            req' = [req EXCEPT ![r].todo = @ \ {s},
                      ![r].batch = @ \union {Snapshot(r, s)},
                      ![r].pc = IF req[r].todo = {s} THEN "insert" ELSE "find"]
      BY <1>9, <2>2 DEF FindToAdd
    <3>2. req'[r].pc \in {"insert", "find"}
      BY <3>1 DEF RequestRecords
    <3>3. QED
      BY <3>2 DEF Excused
  <2>3. QED
    BY <2>1, <2>2
<1>10. CASE CreateBatch(r)
  <2>1. CASE req[r].minutes > MaxInt
    <3>1. Oversized(req[r]) /\ "does not fit" \in BatchRefusal(r)
      BY <1>10, <2>1 DEF CreateBatch, At, Oversized, BatchRefusal
    <3>2. QED
      BY <1>10, <3>1, OversizedExcused DEF CreateBatch
  <2>2. CASE ~(req[r].minutes > MaxInt)
    <3>1. Answer(r, MapErrorResponse("foreign key")) \/ AnswerWrite(r, Ok)
      BY <1>10, <2>2 DEF CreateBatch, BatchRefusal
    <3>2. QED
      BY <3>1, KnownErrors, HandledExcused DEF Handled
  <2>3. QED
    BY <2>1, <2>2
<1>11. CASE Break(r)
  BY <1>11, HandledExcused DEF Break, Steps
<1>12. QED
  BY <1>1, <1>2, <1>3, <1>4, <1>5, <1>6, <1>7, <1>8, <1>9, <1>10, <1>11 DEF Step

(***************************************************************************)
(* A request that loses a race to another is told so: whatever the index,  *)
(* the foreign key or a row that is gone refuse is answered 404, 409 or    *)
(* 422.  The internal errors that remain without a failure are those of    *)
(* requests whose own body has a title, a price or a time that passes      *)
(* Validate and that its column does not hold; what a PUT takes over from  *)
(* the row it read, and what AddServices copies, always fits.              *)
(***************************************************************************)
THEOREM LosersAreTold == Spec => []RacesAnswered
<1>1. Init => RacesAnswered
  BY DEF Init, IdleRequest, RacesAnswered
<1>2. CatalogInv /\ RacesAnswered /\ [Next]_vars => RacesAnswered'
  <2> SUFFICES ASSUME CatalogInv, RacesAnswered, [Next]_vars
               PROVE  RacesAnswered'
    OBVIOUS
  <2>1. req \in [Requests -> RequestRecords] /\ RowsValid
    BY DEF CatalogInv, TypeOK
  <2>2. ASSUME NEW r \in Requests, Step(r) PROVE RacesAnswered'
    <3>1. Excused(r) /\ \A q \in Requests \ {r} : req'[q] = req[q]
      BY <2>1, <2>2, OwnAnswer, OtherRequests
    <3>2. QED
      BY <3>1 DEF Excused, RacesAnswered, Oversized, Misfits
  <2>3. CASE RemoveItem \/ UNCHANGED vars
    BY <2>3 DEF RemoveItem, vars, RacesAnswered, Oversized, Misfits
  <2>4. QED
    BY <2>2, <2>3 DEF Next
<1>3. QED
  BY <1>1, <1>2, CatalogInvariant, PTL DEF Spec
===============================================================================
