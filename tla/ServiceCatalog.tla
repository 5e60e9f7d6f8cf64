--------------------------- MODULE ServiceCatalog -----------------------------
(***************************************************************************)
(* The catalog of workshop services and the orders that refer to it.  The  *)
(* handlers of /services and AddServices run concurrently, statement by    *)
(* statement and without a transaction around them; what they checked may  *)
(* no longer hold when they write, and the unique index on the title and   *)
(* the foreign key of work_order_services have the last word.              *)
(*                                                                         *)
(* A title is a name and the way it is written: titles that differ only in *)
(* capitals have the same name.  Description and estimated time, which     *)
(* behave like the price, are left out, but for the time AddServices may   *)
(* be given.  AddServices is followed up to its batch: the status of the   *)
(* order and the new quote, which come after it, are in QuoteApproval.     *)
(***************************************************************************)
EXTENDS Tables

CONSTANTS
  Ids,        \* ids of services
  Requests,   \* requests to /services and to /work-orders/:id/services
  Titles,     \* names a title may have
  LongTitle,  \* a name that passes Validate and does not fit varchar(120)
  NulTitle,   \* a name that passes Validate and has a NUL character
  MaxInt,     \* the largest number an int column holds
  Forms,      \* bodies of POST and PUT: the fields given and their values
  Existing,   \* the catalog when the requests begin
  Faults      \* statements may fail and replies may be lost

\* What a body gives for some fields that their columns do not hold.
Misfits(given, row) ==
  \/ "title" \in given /\ row.title.name \in {LongTitle, NulTitle}
  \/ "price" \in given /\ row.price > MaxInt

Storable(row) == ~Misfits({"title", "price"}, row)

Rows == [title : [name : Titles, capitals : BOOLEAN], price : Nat,
         active : BOOLEAN]

ASSUME CatalogAssumption ==
  /\ {LongTitle, NulTitle} \subseteq Titles
  /\ MaxInt \in Nat
  /\ Forms # {}
  /\ Forms \subseteq [given : SUBSET {"title", "price", "active"}, row : Rows]
  /\ Ids # {}
  /\ DOMAIN Existing \subseteq Ids
  /\ \A s \in DOMAIN Existing :
       Existing[s] \in Rows /\ Existing[s].price > 0 /\ Storable(Existing[s])
  /\ \A s, t \in DOMAIN Existing :
       Existing[s].title.name = Existing[t].title.name => s = t
  /\ Faults \in BOOLEAN

VARIABLES
  catalog,  \* table services
  items,    \* table work_order_services: the service and what it cost then
  req,      \* local state of the requests
  deleted,  \* history: the services whose DELETE succeeded
  offered   \* history: title and price of each service while it was active

vars == <<catalog, items, req, deleted, offered>>

\* Defect for the mutants: titles are compared as they are written.
LowerAsTyped(row) == row.title

Lower(row) == row.title.name

Offer(row) == [title |-> row.title, price |-> row.price]

OffersOf(table) ==
  {<<s, Offer(table[s])>> : s \in {t \in DOMAIN table : table[t].active}}

\* Every change of the catalog goes through here to keep the history.
CatalogBecomes(table) ==
  /\ catalog' = table
  /\ offered' = offered \union OffersOf(table)

AnyForm == CHOOSE f \in Forms : TRUE
AnyId == CHOOSE s \in Ids : TRUE

IdleRequest == [op |-> "none", pc |-> "idle", id |-> AnyId, form |-> AnyForm,
                row |-> AnyForm.row, todo |-> {}, batch |-> {}, minutes |-> 0,
                answer |-> Ok]

Init ==
  /\ catalog = Existing
  /\ items = {}
  /\ req = [r \in Requests |-> IdleRequest]
  /\ deleted = {}
  /\ offered = OffersOf(Existing)

-----------------------------------------------------------------------------
At(r, op, pc) == req[r].op = op /\ req[r].pc = pc

Answer(r, status) ==
  req' = [req EXCEPT ![r].pc = "done", ![r].answer = status]

Goto(r, pc) == req' = [req EXCEPT ![r].pc = pc]

\* The answer of a write, unless the connection breaks before it arrives.
AnswerWrite(r, status) ==
  \/ Answer(r, status)
  \/ Faults /\ Goto(r, "broken")

Unchanged == UNCHANGED <<catalog, items, deleted, offered>>

\* Defect for the mutants: the errors of the database are not looked at.
HandleServiceErrorOwn(error) ==
  CASE error = "title exists" -> Conflict
    [] error = "validation" -> BadRequest
    [] OTHER -> InternalError

\* handleServiceError of the /services handlers.
HandleServiceError(error) ==
  CASE error = "title exists" -> Conflict
    [] error = "validation" -> BadRequest
    [] OTHER -> DbErrResponse(error)

\* Defect for the mutants: a price of zero is accepted.
ValidFree(row) == row.price >= 0

\* Validate, after the normalization that trims the texts.
Valid(row) == row.price > 0

\* A row that passed Validate may still be refused by the table.
Refusal(id, row) ==
  IF ~Storable(row) THEN {"does not fit"}
  ELSE IF Taken(catalog, id, Lower, row) THEN {"unique"} ELSE {}

\* Validate, and on to the next step when it accepts the row.
Validated(r, row) ==
  req' = [req EXCEPT ![r].row = row,
                     ![r].pc = IF Valid(row) THEN "exists" ELSE "done",
                     ![r].answer = IF Valid(row) THEN @
                                   ELSE HandleServiceError("validation")]

(***************************************************************************)
(* POST /services: Validate, ExistsByTitle, INSERT.                        *)
(***************************************************************************)
BeginCreate(r) ==
  /\ req[r].pc = "idle"
  /\ \E f \in Forms :
       /\ {"title", "price"} \subseteq f.given
       /\ req' = [req EXCEPT ![r].op = "create", ![r].pc = "begun",
                             ![r].form = f]
  /\ Unchanged

ValidateNew(r) ==
  /\ At(r, "create", "begun")
  /\ Validated(r, [req[r].form.row EXCEPT !.active = TRUE])
  /\ Unchanged

NewIds == Ids \ (DOMAIN catalog \union deleted)

\* No statement takes a text with a NUL character, not even a query.
ExistsByTitle(r) ==
  /\ At(r, "create", "exists") \/ At(r, "update", "exists")
  /\ LET others == IF req[r].op = "update" THEN Remove(catalog, req[r].id)
                                           ELSE catalog
     IN IF req[r].row.title.name = NulTitle
        THEN Answer(r, HandleServiceError("does not fit"))
        ELSE IF \E s \in DOMAIN others : Lower(others[s]) = Lower(req[r].row)
        THEN Answer(r, HandleServiceError("title exists"))
        ELSE Goto(r, "write")
  /\ Unchanged

\* INSERT or UPDATE of the whole row; the unique index is on LOWER(title).
Write(r, id) ==
  LET refusal == Refusal(id, req[r].row)
  IN IF refusal = {}
     THEN /\ CatalogBecomes(Put(catalog, id, req[r].row))
          /\ AnswerWrite(r, Ok)
          /\ UNCHANGED <<items, deleted>>
     ELSE /\ \E e \in refusal : Answer(r, HandleServiceError(e))
          /\ Unchanged

Create(r) ==
  /\ At(r, "create", "write")
  /\ \E id \in NewIds : Write(r, id)

(***************************************************************************)
(* PUT /services/:id: FindByID, the fields given replace those read,       *)
(* Validate, ExistsByTitle among the other services, UPDATE of all fields. *)
(***************************************************************************)
BeginUpdate(r) ==
  /\ req[r].pc = "idle"
  /\ \E f \in Forms, s \in Ids :
       req' = [req EXCEPT ![r].op = "update", ![r].pc = "find",
                          ![r].id = s, ![r].form = f]
  /\ Unchanged

Merged(form, row) ==
  [field \in DOMAIN row |->
     IF field \in form.given THEN form.row[field] ELSE row[field]]

FindForUpdate(r) ==
  /\ At(r, "update", "find")
  /\ IF req[r].id \in DOMAIN catalog
     THEN Validated(r, Merged(req[r].form, catalog[req[r].id]))
     ELSE Answer(r, HandleServiceError("no rows"))
  /\ Unchanged

\* Defect for the mutants: the row is inserted when it is not there.
UpdateUpserts(r) ==
  /\ At(r, "update", "write")
  /\ Write(r, req[r].id)

\* Of a row that is gone and a value that does not fit one is reported.
Update(r) ==
  /\ At(r, "update", "write")
  /\ IF req[r].id \in DOMAIN catalog
     THEN Write(r, req[r].id)
     ELSE /\ \E e \in {"no rows"} \union
                       (IF Storable(req[r].row) THEN {} ELSE {"does not fit"}) :
               Answer(r, HandleServiceError(e))
          /\ Unchanged

(***************************************************************************)
(* DELETE /services/:id: FindByID, HasWorkOrderLinks, then Deactivate when *)
(* an order refers to the service and DELETE when none does.               *)
(***************************************************************************)
Linked(s) == \E item \in items : item.service = s

BeginDelete(r) ==
  /\ req[r].pc = "idle"
  /\ \E s \in Ids :
       req' = [req EXCEPT ![r].op = "delete", ![r].pc = "find", ![r].id = s]
  /\ Unchanged

FindForDelete(r) ==
  /\ At(r, "delete", "find")
  /\ IF req[r].id \in DOMAIN catalog
     THEN Goto(r, "links")
     ELSE Answer(r, HandleServiceError("no rows"))
  /\ Unchanged

HasWorkOrderLinks(r) ==
  /\ At(r, "delete", "links")
  /\ Goto(r, IF Linked(req[r].id) THEN "deactivate" ELSE "write")
  /\ Unchanged

Deactivate(r) ==
  /\ At(r, "delete", "deactivate")
  /\ IF req[r].id \in DOMAIN catalog
     THEN /\ catalog' = [catalog EXCEPT ![req[r].id].active = FALSE]
          /\ AnswerWrite(r, Ok)
          /\ UNCHANGED <<items, deleted, offered>>
     ELSE Answer(r, HandleServiceError("no rows")) /\ Unchanged

\* Defect for the mutants: only HasWorkOrderLinks protects the service.
DeleteRefusalNoKey(id) == IF id \notin DOMAIN catalog THEN {"no rows"} ELSE {}

\* The foreign key refuses the DELETE of a service that was linked meanwhile.
DeleteRefusal(id) ==
  IF id \notin DOMAIN catalog THEN {"no rows"}
  ELSE IF Linked(id) THEN {"foreign key"} ELSE {}

Delete(r) ==
  /\ At(r, "delete", "write")
  /\ LET refusal == DeleteRefusal(req[r].id)
     IN IF refusal = {}
        THEN /\ CatalogBecomes(Remove(catalog, req[r].id))
             /\ deleted' = deleted \union {req[r].id}
             /\ AnswerWrite(r, Ok)
             /\ UNCHANGED items
        ELSE /\ \E e \in refusal : Answer(r, HandleServiceError(e))
             /\ Unchanged

(***************************************************************************)
(* AddServices: FindByID of each service, which must be active, then one   *)
(* transaction that inserts a row with a copy of title and price for each. *)
(* The time is what the body says, when it says something: any number      *)
(* above zero, here the two that lie beside the limit.                     *)
(***************************************************************************)
BeginAdd(r) ==
  /\ req[r].pc = "idle"
  /\ \E batch \in SUBSET Ids \ {{}}, minutes \in {MaxInt, MaxInt + 1} :
       req' = [req EXCEPT ![r].op = "add", ![r].pc = "find",
                          ![r].todo = batch, ![r].minutes = minutes]
  /\ Unchanged

Snapshot(r, s) == [by |-> r, service |-> s, offer |-> Offer(catalog[s])]

\* Defect for the mutants: inactive services are added as well.
FindToAddAny(r) ==
  /\ At(r, "add", "find")
  /\ \E s \in req[r].todo :
       IF s \notin DOMAIN catalog THEN Answer(r, MapErrorResponse("no rows"))
       ELSE req' = [req EXCEPT
              ![r].todo = @ \ {s},
              ![r].batch = @ \union {Snapshot(r, s)},
              ![r].pc = IF req[r].todo = {s} THEN "insert" ELSE "find"]
  /\ Unchanged

FindToAdd(r) ==
  /\ At(r, "add", "find")
  /\ \E s \in req[r].todo :
       IF s \notin DOMAIN catalog THEN Answer(r, MapErrorResponse("no rows"))
       ELSE IF ~catalog[s].active THEN Answer(r, MapErrorResponse("inactive"))
       ELSE req' = [req EXCEPT
              ![r].todo = @ \ {s},
              ![r].batch = @ \union {Snapshot(r, s)},
              ![r].pc = IF req[r].todo = {s} THEN "insert" ELSE "find"]
  /\ Unchanged

BatchRefusal(r) ==
  (IF req[r].minutes > MaxInt THEN {"does not fit"} ELSE {}) \union
  (IF \A item \in req[r].batch : item.service \in DOMAIN catalog
   THEN {} ELSE {"foreign key"})

CreateBatch(r) ==
  /\ At(r, "add", "insert")
  /\ IF BatchRefusal(r) = {}
     THEN /\ items' = items \union req[r].batch
          /\ AnswerWrite(r, Ok)
          /\ UNCHANGED <<catalog, deleted, offered>>
     ELSE /\ \E e \in BatchRefusal(r) : Answer(r, MapErrorResponse(e))
          /\ Unchanged

\* RemoveService takes a row out of an order (see SupplyItems).
RemoveItem ==
  /\ \E item \in items : items' = items \ {item}
  /\ UNCHANGED <<catalog, req, deleted, offered>>

\* A statement fails and the request with it.
Break(r) ==
  /\ Faults
  /\ req[r].pc \notin {"idle", "begun", "done", "broken"}
  /\ Goto(r, "broken")
  /\ Unchanged

-----------------------------------------------------------------------------
Step(r) ==
  \/ BeginCreate(r) \/ ValidateNew(r) \/ Create(r)
  \/ BeginUpdate(r) \/ FindForUpdate(r) \/ Update(r)
  \/ ExistsByTitle(r)
  \/ BeginDelete(r) \/ FindForDelete(r) \/ HasWorkOrderLinks(r)
  \/ Deactivate(r) \/ Delete(r)
  \/ BeginAdd(r) \/ FindToAdd(r) \/ CreateBatch(r)
  \/ Break(r)

Next == (\E r \in Requests : Step(r)) \/ RemoveItem

Spec == Init /\ [][Next]_vars

-----------------------------------------------------------------------------
Offers == [title : [name : Titles, capitals : BOOLEAN], price : Nat]
Items == [by : Requests, service : Ids, offer : Offers]

RequestRecords ==
  [op : {"none", "create", "update", "delete", "add"},
   pc : {"idle", "begun", "find", "exists", "links", "deactivate",
         "insert", "write", "done", "broken"},
   id : Ids, form : Forms, row : Rows, todo : SUBSET Ids,
   batch : SUBSET Items, minutes : Nat, answer : Statuses]

TypeOK ==
  /\ DOMAIN catalog \subseteq Ids
  /\ \A s \in DOMAIN catalog : catalog[s] \in Rows /\ catalog[s].price > 0
  /\ items \subseteq Items
  /\ req \in [Requests -> RequestRecords]
  /\ deleted \subseteq Ids
  /\ offered \subseteq Ids \X Offers

(***************************************************************************)
(* No two services have titles that differ only in capitals: ExistsByTitle *)
(* may be overtaken by another request, the unique index on LOWER(title)   *)
(* is not.                                                                 *)
(***************************************************************************)
TitlesUnique ==
  \A s, t \in DOMAIN catalog :
    catalog[s].title.name = catalog[t].title.name => s = t

(***************************************************************************)
(* A service that an order refers to is never deleted from the catalog,    *)
(* even when it is added to the order after HasWorkOrderLinks found no     *)
(* order, and a deleted service is not added to an order that read it      *)
(* before.                                                                 *)
(***************************************************************************)
ItemsResolve == \A item \in items : item.service \in DOMAIN catalog

(***************************************************************************)
(* What an order charges for a service is a title and a price the catalog  *)
(* offered for this service while it was active, however the catalog is    *)
(* edited while AddServices collects its batch.                            *)
(***************************************************************************)
SnapshotsOffered ==
  \A item \in items : <<item.service, item.offer>> \in offered

(***************************************************************************)
(* A deleted service stays deleted: a PUT or a second DELETE that read it  *)
(* before does not bring it back.                                          *)
(***************************************************************************)
DeletedForever == deleted \intersect DOMAIN catalog = {}

\* The body of the request holds a value that its column does not.
Oversized(request) ==
  \/ /\ request.op \in {"create", "update"}
     /\ Misfits(request.form.given, request.form.row)
  \/ request.op = "add" /\ request.minutes > MaxInt

(***************************************************************************)
(* Requests that lose a race are told so (404, 409 or 422) and never get   *)
(* an internal error.  Without a failure, only a request whose own body    *)
(* passes Validate with a title, a price or a time that its column does    *)
(* not hold gets one: never for a value another request has stored.        *)
(***************************************************************************)
RacesAnswered ==
  \A r \in Requests :
    req[r].pc = "done" /\ req[r].answer = InternalError => Oversized(req[r])
=============================================================================
