----------------------------- MODULE SupplyItems ------------------------------
(***************************************************************************)
(* The services of one order and the supplies they need: AddSupplies,      *)
(* RemoveSupplyFromService and RemoveService with the handlers of          *)
(* /supplies.  Only the batch of AddSupplies runs in a transaction; it is  *)
(* modelled row by row, with the locks it holds until it commits, because  *)
(* another batch, or the removal of a row it refers to, waits for them.    *)
(*                                                                         *)
(* Of a supply only its presence is kept: its stock is the matter of       *)
(* ServiceExecution, and its price, which the batch copies, is treated by  *)
(* the handlers as that of a service is (ServiceCatalog).  The handlers    *)
(* end by refreshing the quote.  What that does is modelled in             *)
(* QuoteApproval and changes no table of this module; here it is one more  *)
(* step that may fail when the change is already committed.                *)
(***************************************************************************)
EXTENDS Tables, Sequences, FiniteSets

CONSTANTS
  Services,  \* rows of work_order_services of the order
  Supplies,  \* ids of supplies
  Requests,  \* requests of the workshop's staff
  Batches,   \* the supplies that a request may add, in the order it lists them
  Faults     \* statements may fail and replies may be lost

ASSUME SupplyAssumption ==
  /\ Services # {}
  /\ Batches \subseteq Seq(Supplies)
  /\ \A b \in Batches : b # <<>>
  /\ Faults \in BOOLEAN

\* A row of work_order_service_supplies; its id is (by, supply).
Links == [by : Requests, service : Services, supply : Supplies]

VARIABLES
  services,    \* the services the order has
  supplies,    \* the supplies in the catalog
  itemsOpen,   \* the order is in a status in which its items may change
  links,       \* the committed rows of work_order_service_supplies
  pending,     \* the rows each transaction has inserted and not committed
  req,         \* local state of the requests
  committed,   \* history: the supplies each request has added
  stripped     \* history: the requests that deleted supplies of a service

tables == <<services, supplies, itemsOpen, links, pending>>
history == <<committed, stripped>>
vars == <<tables, req, history>>

AnyService == CHOOSE w \in Services : TRUE

IdleRequest == [op |-> "none", pc |-> "idle", service |-> AnyService,
                batch |-> <<>>, rows |-> <<>>, target |-> {}, answer |-> Ok]

Init ==
  /\ services = Services
  /\ supplies = Supplies
  /\ itemsOpen = TRUE
  /\ links = {}
  /\ pending = [r \in Requests |-> {}]
  /\ req = [r \in Requests |-> IdleRequest]
  /\ committed = [r \in Requests |-> {}]
  /\ stripped = {}

-----------------------------------------------------------------------------
At(r, op, pc) == req[r].op = op /\ req[r].pc = pc

Goto(r, pc) == req' = [req EXCEPT ![r].pc = pc]

Answer(r, status) ==
  req' = [req EXCEPT ![r].pc = "done", ![r].answer = status]

\* The next place after a write, unless its reply is lost.
Written(r, pc) ==
  \/ Goto(r, pc)
  \/ Faults /\ Goto(r, "broken")

\* A row lock of a transaction that has inserted a reference to the row.
ServiceLocked(w) == \E r \in Requests : \E l \in pending[r] : l.service = w
SupplyLocked(s) == \E r \in Requests : \E l \in pending[r] : l.supply = s

(***************************************************************************)
(* The item handlers begin alike: FindByID of the service of the order,    *)
(* then ensureWorkOrderItemsCanChange.                                     *)
(***************************************************************************)
Begin(r) ==
  /\ req[r].pc = "idle"
  /\ \E w \in Services :
       \/ \E b \in Batches :
            req' = [req EXCEPT ![r].op = "add", ![r].pc = "find",
                               ![r].service = w, ![r].batch = b]
       \/ req' = [req EXCEPT ![r].op = "remove service", ![r].pc = "find",
                             ![r].service = w]
       \/ \E l \in links :
            req' = [req EXCEPT ![r].op = "remove supply", ![r].pc = "find",
                               ![r].service = w, ![r].target = {<<l.by, l.supply>>}]
  /\ UNCHANGED <<tables, history>>

\* Defect for the mutants: the supplies go before the status is checked.
FindServiceStrips(r) ==
  /\ req[r].pc = "find"
  /\ IF req[r].service \in services
     THEN Goto(r, "ensure")
     ELSE Answer(r, MapErrorResponse("no rows"))
  /\ LET found == {l \in links : /\ req[r].op = "remove service"
                                 /\ l.service = req[r].service}
     IN /\ links' = links \ found
        /\ stripped' = IF found = {} THEN stripped ELSE stripped \union {r}
  /\ UNCHANGED <<services, supplies, itemsOpen, pending, committed>>

FindService(r) ==
  /\ req[r].pc = "find"
  /\ IF req[r].service \in services
     THEN Goto(r, "ensure")
     ELSE Answer(r, MapErrorResponse("no rows"))
  /\ UNCHANGED <<tables, history>>

FirstStatement(op) ==
  CASE op = "add" -> "read"
    [] op = "remove supply" -> "delete"
    [] op = "remove service" -> "strip"

EnsureItemsCanChange(r) ==
  /\ req[r].pc = "ensure"
  /\ IF itemsOpen THEN Goto(r, FirstStatement(req[r].op))
                  ELSE Answer(r, MapErrorResponse("items closed"))
  /\ UNCHANGED <<tables, history>>

-----------------------------------------------------------------------------
(***************************************************************************)
(* AddSupplies: each supply is read, then CreateSupplyBatch inserts them   *)
(* in one transaction.                                                     *)
(***************************************************************************)
FindSupply(r) ==
  /\ At(r, "add", "read")
  /\ LET s == req[r].batch[Len(req[r].rows) + 1]
         row == [by |-> r, service |-> req[r].service, supply |-> s]
     IN IF s \notin supplies THEN Answer(r, MapErrorResponse("no rows"))
        ELSE req' = [req EXCEPT
               ![r].rows = Append(@, row),
               ![r].pc = IF Len(req[r].rows) + 1 = Len(req[r].batch)
                         THEN "insert" ELSE "read"]
  /\ UNCHANGED <<tables, history>>

SameKey(l, row) == l.service = row.service /\ l.supply = row.supply

\* The rows that the transaction's next INSERT sees or waits for.
NextRow(r) == req[r].rows[Cardinality(pending[r]) + 1]

WaitsFor(r, q) ==
  /\ q # r /\ At(r, "add", "insert")
  /\ \E l \in pending[q] : SameKey(l, NextRow(r))

\* Defect for the mutants: the schema has no foreign keys.
InsertRefusalNoKey(r) ==
  IF \E l \in links \union pending[r] : SameKey(l, NextRow(r))
  THEN {"unique"} ELSE {}

\* Defect for the mutants: the schema has no unique index.
InsertRefusalTwice(r) ==
  IF NextRow(r).service \notin services \/ NextRow(r).supply \notin supplies
  THEN {"foreign key"} ELSE {}

InsertRefusal(r) ==
  LET row == NextRow(r)
  IN IF row.service \notin services \/ row.supply \notin supplies
     THEN {"foreign key"}
     ELSE IF \E l \in links \union pending[r] : SameKey(l, row)
          THEN {"unique"} ELSE {}

Rollback(r) == pending' = [pending EXCEPT ![r] = {}]

\* Defect for the mutants: each row is committed as it is inserted.
InsertRowAlone(r) ==
  /\ At(r, "add", "insert")
  /\ LET row == req[r].rows[Cardinality(committed[r]) + 1]
     IN IF /\ row.service \in services /\ row.supply \in supplies
           /\ \A l \in links : ~SameKey(l, row)
        THEN /\ links' = links \union {row}
             /\ committed' = [committed EXCEPT ![r] = @ \union {row.supply}]
             /\ IF Cardinality(committed[r]) + 1 = Len(req[r].rows)
                THEN Answer(r, Ok) ELSE Goto(r, "insert")
        ELSE Answer(r, Conflict) /\ UNCHANGED <<links, committed>>
  /\ UNCHANGED <<services, supplies, itemsOpen, pending, stripped>>

InsertRow(r) ==
  /\ At(r, "add", "insert")
  /\ \A q \in Requests : ~WaitsFor(r, q)
  /\ LET refusal == InsertRefusal(r)
     IN IF refusal = {}
        THEN /\ pending' = [pending EXCEPT ![r] = @ \union {NextRow(r)}]
             /\ Goto(r, IF Cardinality(pending[r]) + 1 = Len(req[r].rows)
                        THEN "commit" ELSE "insert")
        ELSE /\ Rollback(r)
             /\ \E e \in refusal : Answer(r, MapErrorResponse(e))
  /\ UNCHANGED <<services, supplies, itemsOpen, links, history>>

Commit(r) ==
  /\ At(r, "add", "commit")
  /\ links' = links \union pending[r]
  /\ committed' = [committed EXCEPT ![r] = {l.supply : l \in pending[r]}]
  /\ Rollback(r)
  /\ Written(r, "refresh")
  /\ UNCHANGED <<services, supplies, itemsOpen, stripped>>

\* PostgreSQL ends one of two transactions that wait for each other.
DeadlockVictim(r) ==
  /\ \E q \in Requests : WaitsFor(r, q) /\ WaitsFor(q, r)
  /\ Rollback(r)
  /\ Answer(r, MapErrorResponse("deadlock"))
  /\ UNCHANGED <<services, supplies, itemsOpen, links, history>>

\* The quantity is the client's and may not fit in its column.
RowDoesNotFit(r) ==
  /\ At(r, "add", "insert")
  /\ Rollback(r)
  /\ Answer(r, MapErrorResponse("does not fit"))
  /\ UNCHANGED <<services, supplies, itemsOpen, links, history>>

-----------------------------------------------------------------------------
\* RemoveSupplyFromService deletes one row of the service, by its id.
RemoveSupply(r) ==
  /\ At(r, "remove supply", "delete")
  /\ LET found == {l \in links : /\ <<l.by, l.supply>> \in req[r].target
                                 /\ l.service = req[r].service}
     IN IF found = {}
        THEN Answer(r, MapErrorResponse("no rows")) /\ UNCHANGED links
        ELSE links' = links \ found /\ Written(r, "refresh")
  /\ UNCHANGED <<services, supplies, itemsOpen, pending, history>>

\* RemoveService deletes the supplies of the service, then the service.
DeleteSupplies(r) ==
  /\ At(r, "remove service", "strip")
  /\ LET found == {l \in links : l.service = req[r].service}
     IN /\ links' = links \ found
        /\ stripped' = IF found = {} THEN stripped ELSE stripped \union {r}
  /\ Written(r, "delete")
  /\ UNCHANGED <<services, supplies, itemsOpen, pending, committed>>

DeleteByID(r) ==
  /\ At(r, "remove service", "delete")
  /\ ~ServiceLocked(req[r].service)
  /\ IF req[r].service \notin services
     THEN Answer(r, MapErrorResponse("no rows")) /\ UNCHANGED services
     ELSE IF \E l \in links : l.service = req[r].service
     THEN Answer(r, MapErrorResponse("foreign key")) /\ UNCHANGED services
     ELSE /\ services' = services \ {req[r].service}
          /\ Written(r, "refresh")
  /\ UNCHANGED <<supplies, itemsOpen, links, pending, history>>

-----------------------------------------------------------------------------
(***************************************************************************)
(* refreshBudgetIfWaitingApproval, when the tables have changed: it can be *)
(* refused without any failure, by a total that does not fit in its column *)
(* or by writing back a technician who has been deleted.  The caller then  *)
(* gets the error, as if nothing had been done.                            *)
(***************************************************************************)
RefreshErrors == {"does not fit", "foreign key"}

Refresh(r) ==
  /\ req[r].pc = "refresh"
  /\ \/ Answer(r, Ok)
     \/ \E e \in RefreshErrors :
          req' = [req EXCEPT ![r].pc = "unrefreshed",
                             ![r].answer = MapErrorResponse(e)]
  /\ UNCHANGED <<tables, history>>

-----------------------------------------------------------------------------
(***************************************************************************)
(* DELETE /supplies/:id is one statement; only the foreign key protects a  *)
(* supply that a service needs.                                            *)
(***************************************************************************)
DeleteSupply ==
  /\ \E s \in supplies :
       /\ ~SupplyLocked(s)
       /\ \A l \in links : l.supply # s
       /\ supplies' = supplies \ {s}
  /\ UNCHANGED <<services, itemsOpen, links, pending, req, history>>

\* Other requests move the order, or take it back (see OrderUpdate).
OrderMoves ==
  /\ itemsOpen' = ~itemsOpen
  /\ UNCHANGED <<services, supplies, links, pending, req, history>>

\* A statement fails and the request with it; the transaction is rolled back.
Break(r) ==
  /\ Faults
  /\ req[r].pc \notin {"idle", "unrefreshed", "done", "broken"}
  /\ Goto(r, "broken") /\ Rollback(r)
  /\ UNCHANGED <<services, supplies, itemsOpen, links, history>>

Step(r) ==
  \/ Begin(r) \/ FindService(r) \/ EnsureItemsCanChange(r)
  \/ FindSupply(r) \/ InsertRow(r) \/ RowDoesNotFit(r) \/ Commit(r)
  \/ DeadlockVictim(r)
  \/ RemoveSupply(r) \/ DeleteSupplies(r) \/ DeleteByID(r)
  \/ Refresh(r) \/ Break(r)

Next ==
  \/ \E r \in Requests : Step(r)
  \/ DeleteSupply \/ OrderMoves

Spec == Init /\ [][Next]_vars

-----------------------------------------------------------------------------
TypeOK ==
  /\ services \subseteq Services
  /\ supplies \subseteq Supplies
  /\ itemsOpen \in BOOLEAN
  /\ links \subseteq Links
  /\ \A r \in Requests : pending[r] \subseteq Links
  /\ \A r \in Requests :
       /\ req[r].pc \in {"idle", "find", "ensure", "read", "insert", "commit",
                         "delete", "strip", "refresh", "unrefreshed", "done",
                         "broken"}
       /\ req[r].service \in Services /\ req[r].answer \in Statuses
       /\ Len(req[r].rows) <= Len(req[r].batch)
       /\ pending[r] # {} => req[r].pc \in {"insert", "commit"}

(***************************************************************************)
(* Every supply listed for a service belongs to a service of the order and *)
(* to a supply of the catalog, in the transactions still open as well:     *)
(* neither RemoveService nor DELETE /supplies leaves orphans behind.       *)
(***************************************************************************)
LinksResolve ==
  \A l \in links \union UNION {pending[r] : r \in Requests} :
    l.service \in services /\ l.supply \in supplies

(***************************************************************************)
(* A supply is listed once per service, so that the budget does not charge *)
(* it twice: AddSupplies does not look, the unique index does.             *)
(***************************************************************************)
OncePerService ==
  \A k, l \in links : SameKey(k, l) => k = l

(***************************************************************************)
(* AddSupplies adds the whole batch or nothing, and its answer says which: *)
(* a request that is refused, rolled back as the victim of a deadlock or   *)
(* repeats a supply leaves no row behind.  Only when the refresh of the    *)
(* quote fails is an error answered for a batch that was added, and then   *)
(* it is there as a whole.                                                 *)
(***************************************************************************)
BatchSupplies(r) == {req[r].batch[i] : i \in DOMAIN req[r].batch}

AllOrNothing ==
  \A r \in Requests :
    /\ committed[r] \in {{}, BatchSupplies(r)}
    /\ At(r, "add", "done") =>
         (req[r].answer = Ok <=> committed[r] = BatchSupplies(r))
    /\ At(r, "add", "unrefreshed") => committed[r] = BatchSupplies(r)

(***************************************************************************)
(* RemoveService is two statements.  A service whose supplies it deleted   *)
(* is removed too, unless the request broke down or another request added  *)
(* supplies in between, which the caller learns by a conflict: it is never *)
(* refused for the order's status with the supplies already gone.          *)
(***************************************************************************)
StrippedIsRemoved ==
  \A r \in stripped :
    \/ req[r].service \notin services
    \/ req[r].pc \in {"delete", "broken"}
    \/ req[r].pc = "done" /\ req[r].answer = Conflict
===============================================================================
