# Verification of the workshop work-order API

TLA+ modules, TLC configurations and TLAPS proofs for the Go service under
`src/`: the API of a car workshop that takes work orders from reception,
through diagnosis, quote, customer approval and execution, to delivery.

Several replicas of the API serve requests concurrently over one PostgreSQL
database. Only the two batch inserts run in a transaction, so a request is a
sequence of single statements that interleaves with the statements of every other
request. The models are about what those interleavings, and the failures between
two statements, do to a work order, to the registers it refers to, and to the
connections all requests share.

## 1. Inventory

| Component (source under `src/internal`) | State it keeps | Operations | What makes it correct | Status |
|---|---|---|---|---|
| Statuses and table (`domain/work_order.go`, `service/work_order_status_service.go`) | none | `IsValidTransition`, timestamps, `canChangeWorkOrderItems` | no cycle: an order only goes forward | modelled, proved about |
| Status transitions (`work_order_status_service.go`, `WorkOrderRepository.TransitionStatus`) | status and timestamp columns of the order | `TransitionTo`, `TransitionStatus`, `NotifyTransition` | status follows the table, one mover, one announcement, no spurious conflict | modelled, proved |
| Work orders (`work_order_service.go`, `work_order_handler.go`) | the whole row | `Create`, `Update`, listing | the vehicle is the customer's, the user is the token's; PUT writes back only what the order has been | creation, status and full-row write modelled; listing not |
| Quote (`budget_service.go`) | total, `quote_sent_at` | `GenerateAndSendBudget` | `quote_sent_at` only after an accepted e-mail | modelled, proved |
| Customer decisions (`work_order_item_service.go`) | `approval_status` of services, approved total | `ApproveService`, `RejectService`, `ApproveAll`, `RejectAll`, evaluation | the last decision moves the order; totals settle | modelled, safety proved |
| Items of an order (`work_order_creation_service.go`) | services and their supplies | `AddServices`, `RemoveService`, `AddSupplies`, `RemoveSupplyFromService` | no orphans, no half batch, prices that were offered; first service opens the diagnosis; quote refreshed | modelled, proved |
| Execution (`work_order_creation_service.go`, `supply_repository.go`) | status of services, stock | `StartService`, `FinalizeService` | stock accounts for every deduction; last finish finishes the order | modelled, safety proved |
| Public order status (`public_work_order_service.go`) | none | lookup by code and document, then the services | what a customer is shown of the order and of its services fits together | modelled with the execution, proved |
| Supplies catalog (`supply_service.go`) | stock, price | CRUD | deletion respects references | deletion modelled, proved; edits not |
| Service catalog (`workshop_service_service.go`) | title, price, active flag | `Create`, `Update`, `Delete`, deactivate | unique titles, no delete of used services, races answered with 4xx | modelled, proved |
| Customers and vehicles (`customer_service.go`, `vehicle_service.go`, `domain/`) | document, plate, owner | create, update, delete | check digits, one registration each, references resolve | modelled, proved |
| Users and authentication (`user_service.go`, `auth/`, `routes/middlewares`) | username | register, update, delete; a token names an account and a username | the order's user had the token's username | accounts modelled; passwords, roles and expiry not |
| Connection pool (`database/connection.go`, `work_order_repository.go`, `/ready`) | who holds which connection | acquire, release, acquire while holding, probe | no connection lost, nobody waits for ever, 503 only when PostgreSQL is down | modelled, proved |
| E-mail provider (`packages/email`) | none | `Send` | a refused e-mail is not delivered later | external: accepts or refuses |
| Start-up, configuration, migrations, routes, web page, infrastructure | none | | | not modelled: sequential or no program state |

**How they interact.** Handlers call services; services call repositories (one
statement each, plus `TransitionStatus`, which makes up to two, and the batch
inserts, one transaction each) and the status service; the status service calls the
notifier synchronously after a move; the notifier sends the status e-mail or, for
`AGUARDANDO_APROVACAO`, runs `GenerateAndSendBudget`, which *writes the order row*
while `TransitionTo` has not yet returned. Items handlers call the same budget code
to refresh a quote. The shared state is in the database, except for the connections
of a replica's pool; there are no background jobs.

**What is hard.** (a) `TransitionStatus` is a compare-and-set, but every other writer
of the order (`PUT`, budget, approved total) reads a row and writes all its columns
back by id: stale rows overwrite newer statuses. (b) Guards are read in one
statement and relied on in a later one. (c) A request may die, or a reply be lost,
after any statement, and the retry finds a half-done operation. (d) Some updates
match no row and report no error. (e) `FindByWorkOrderID` does not look at
`rows.Err()`, so a broken read is a short list. (f) What the registers promise is
often checked by a SELECT before the write (a free title, no order that refers to
the service, the owner of a vehicle, the account of a token) or not at all (a supply
listed twice, a customer with orders), so that the unique indexes and foreign keys of
the schema decide, and the handler has to turn their refusal into an answer.
(g) `FindByID` keeps one connection while it asks the pool for another, without a
deadline. The hazards, each at its line with the properties that are about it, are in
`PROJECT.json`.

## 2. Modules

| Module | What it is | State | Actions |
|---|---|---|---|
| `WorkOrderStatus` | statuses, `AllowedTransitions`, `StampOf`, `CanChangeItems` as in the source; `StampsAt` and `Rank` are specification aids | none | none |
| `OrderLifecycle` | abstract: status moves along the table, each move owes at most one announcement | `status`, `owed`, `told` | `Move`, `Tell`, `Drop` |
| `StatusTransition` | `TransitionTo` over `TransitionStatus`, any number of calls. `TransitionSpec` is the calls alone, `SharedSpec` adds `OtherWrite` for every other writer of the row | `row`, `call`, `past`, `mailed` | `Invoke`, `Find*`, `Cas`, `CasMisses`, `Recheck`, `Notify*`, `Return`, `Fail`, `CasReplyLost`, `OtherWrite` |
| `OrderUpdate` | the PUT handler, shared by the two composed modules | + `req` | `BeginPut*`, `EditRead`, `EditWrite` |
| `QuoteApproval` | composition: transitions + PUT + budget + decisions + items | + `services`, `local`, `budget`, `quotes` | one per statement or e-mail of each handler |
| `ServiceExecution` | composition: transitions + PUT + start and finalize + stock + public status | + `exec`, `stock`, `local`, `deducted` | one per statement of each handler |
| `Tables` | tables as functions, unique columns, the two error translators of the handlers | none | none |
| `ServiceCatalog` | `/services` and `AddServices` over the catalog | `catalog`, `items`, `req`, history `deleted`, `offered` | one per statement of each handler |
| `SupplyItems` | services of one order and their supplies, deletion of supplies | `services`, `supplies`, `links`, `pending` (open transactions), `itemsOpen`, `req`, history `committed`, `stripped` | one per statement, the transaction of `AddSupplies` row by row with its locks; the refresh of the quote that may fail after the commit |
| `Documents` | CPF and CNPJ as in `domain/customer.go`, and the authority's rule they are compared with; the loop over the characters is a recursive function, the weighted sums are `SumFunction` | none | none |
| `Registration` | customers, vehicles, users and the creation of orders, from a seeded database on | `customers`, `vehicles`, `users`, `orders`, `req`, history `owned`, `named`, `retired` | one per register operation, one per statement of `POST /work-orders` |
| `ConnectionPool` | the `pgxpool` of one replica: reads of a whole order, batches, the readiness probe, PostgreSQL going silent and coming back, an acquisition that fails while it waits | `pc`, `rows`, `used`, `left`, `up`, `verdict`, history `sawDown` | asking for, being given and returning a connection, one per statement |
| `MC*` | instances: symmetry, the sets and the supply needs | | |
| `*Proofs` | theorems and lemmas of the module they are named after; `StatusTransitionProofs` also those about `WorkOrderStatus` and `OrderLifecycle` | | |
| `SumsProofs` | induction over numbers and finite sets, and sums (`SumFunction`), as facts about sets that the provers can use | | |

Correspondence with the code. One action is one SQL statement or one e-mail,
together with the in-memory code up to the next one. `row` holds the columns of
`work_orders` that matter here: `status`, which of the timestamp columns are set
(`stamps`) and, in `QuoteApproval`, `total_estimated_price_cents` and
`quote_sent_at`. `pc` in `call`, `req` and `budget` is the program counter of
`TransitionTo`, of the handler and of `GenerateAndSendBudget`. `past` and `mailed`,
`quotes` and `deducted`, `owned` and `named` are history variables: no guard reads
`past`, `mailed`, `quotes` or `deducted` except that of `OtherWrite`, the environment
action of `StatusTransition`; `named` also stands for the tokens that were
issued, which remain valid whatever becomes of the account.

`OtherWrite` is the contract by which `StatusTransition` is checked alone: some
writer puts back status and timestamps the order *has had*, with any quote. That
the real handlers keep to it is not assumed: `UsesTransitionTo`, which is
`SharedSpec`, is a property of both composed modules: checked by TLC and proved of
both. What is proved of `SharedSpec` (section 5) therefore holds of the composed
systems.

The registers are separate modules because they share no variable with the order's
row: `ServiceCatalog` repeats of `AddServices` what it does with the catalog, and
`QuoteApproval` what it does with the order. The keys of the schema appear where
a statement runs into them: `Refusal`, `BatchRefusal`, `DeleteRefusal`,
`InsertRefusal`, `Taken`. So do the widths of its columns: `Validate` lets titles of
more than 120 characters pass, titles with a NUL, and any price or time above zero,
while the columns are `varchar(120)` and `int`. `ServiceCatalog` has one title of
each kind and a largest number, `MaxInt`; what does not fit (`Misfits`) is refused by
PostgreSQL with an error that no handler translates, hence a 500. `RacesAnswered`
says that this is the only 500 without a failure and that it only falls on the
request whose own body has the value (`Oversized`): the estimated time of a catalog
row is treated like its price, that of `AddServices` has its own `minutes`.

`Registration` does not begin with empty tables but with those of
`database/seed-files/seed.sql`, which initialises the database. Four of its five
customers have documents whose check digits are wrong: nobody validates a seed.
`Seed` is a constant, `SeedAssumption` says what the keys of the schema make sure of.
`WrittenDocumentsWellFormed` is therefore not about every customer: a wrong document
is one of the seed, in a row nobody has written since (`Untouched`).

The requests of `SupplyItems` end in `refreshBudgetIfWaitingApproval`, when what they
did is committed (`Refresh`). It can fail without any fault, by a total that is too
large for its column or a technician whose account is gone by the time the row is
written back; the caller is then told an error although the change is there. `AllOrNothing`
says so: an error of `AddSupplies` means that nothing was added, but for that one
(`unrefreshed`), which means that all was.

`ConnectionPool` turns this around: what the statements read and write is left out
and what remains is which connections a goroutine has. `rows` is the connection of
the open rows of `fetchServicesForWorkOrder`, `used` that of the statement or the
transaction being run; every error path of the code is a `Fail*` action in which the
deferred `Close` and `Rollback` return them.

Abstractions. In the quoting modules money is the set of services that were summed:
two totals are equal exactly when they sum the same services. Timestamps are set or
not. HTTP statuses appear in the register modules, where who loses a race is told so
by them; wording and layout are left out everywhere. A batch of `AddServices` names
a service once. The purchase alert only sends an e-mail. A request is made once
(`idle` to `done`): a retry is another request. (In `ConnectionPool` a client begins
again for ever.) Rows of services have an id each, never reused.

## 3. Runs

Passing runs. `CHECK_DEADLOCK FALSE` is in the configurations whose requests are
finite: when all have been answered nothing remains to happen. In those of
`ConnectionPool` PostgreSQL can always stop or return, so that TLC never meets a
deadlock: what it looks for there is clients that wait for one another (`Blocked`).

| Run | Question | Instance | States |
|---|---|---|---|
| `transition_race` | Do racing calls, with faults and no other writer, have one mover per status, no duplicate e-mail, no spurious conflict; does every call end, and do they implement `OrderLifecycle`, with (`SettlesNotices`) and without its liveness? | 3 calls, any target, fair | 118 011 |
| `quote_all` | All handlers of the quoting phase with faults: timestamps match the status, past statuses are connected by the table, success means the status was entered, `quote_sent_at` means an accepted e-mail, the row is used as `SharedSpec` allows | 2 requests, 2 services, an order just received, in diagnosis or waiting for approval | 108 214 |
| `quote_decisions` | Do customers who decide together leave the order waiting? Does the total of an approved order settle on its approved services? Do the links ever move the status backwards? | 3 requests that approve or reject, 2 services, fair | 550 961 |
| `exec_all` | Stock accounting and `DeductedIsFinished` with the PUT, faults and resubmitted requests; the row is used as `SharedSpec` allows | 3 requests, 3 services (one rejected), 2 supplies | 115 813 |
| `exec_finish` | Supplies of finished services are taken; the last finish finishes the order; what a customer is shown meanwhile fits together | 4 requests (start and finish, a look at the public status), one of two services already started, fair | 406 565 |
| `catalog_race` | Unique titles, services that orders refer to, prices that were offered, deletion for good, no internal error for who loses a race or only meets what others stored | 3 requests, 2 ids, 4 names, 8 bodies, 2 times, faults | 473 562 |
| `supply_race` | No orphans, no supply twice, whole batches only, whatever the refresh of the quote answers, no service stripped by a refused request | 3 requests, 2 services, 2 supplies, 4 batches, faults | 3 277 160 |
| `registration_race` | References, one registration each, check digits of what is written after the seed, the owner of an order's vehicle and the username of its user when they were looked up | 1 order being opened, 2 customers, 2 vehicles, 2 users, 2 usernames, 9 documents, seeded with a customer whose document is wrong, his vehicle and a user, faults | 1 048 324 |
| `pool_safe` | No connection lost or shared; 503 only when PostgreSQL was silent; every request ends and the replica is found ready once PostgreSQL responds for good | 3 connections, 2 readers, 1 writer, 2 services or inserts each, fair | 50 481 |

Why the bounds are enough to be interesting. A stale write needs one request that
reads, one that moves in between: two requests; a race that is lost and then
overtaken again needs a third. Two services are what it takes for two
"last" decisions; two supplies shared by services with different needs, with
stock that covers each alone and not all, are what it takes to tell a wrong
amount, a clipped stock and a late shortage apart. The statuses are the
code's own eight, never reduced. `exec_finish` starts with one service under way:
its finish, the start and the finish of the other, and the look at the status are
the four requests. In `catalog_race` the third request
is the one that changes what the second has checked before the first writes; the
bodies are one for each branch of `Validate`, of the title check, of the columns'
limits and of the merge of fields; the highest price that fits is among the stored
ones, so that the limit is looked at from both sides, and the two ids bound the
services ever created (a POST waits when they are used up). `supply_race` lists two
supplies in either order, which is what a deadlock takes, and one twice; two services
tell a row of another service apart.
`registration_race` has for each rule of a document one that breaks only that
rule; orders do not look at each other, so one order being opened while the
registers change under it is all there is to see. The seed has what the property of
the documents depends on, one wrong document, in a row that can be edited, deleted and
registered again; no symmetry is used, as the seeded rows are told apart. `pool_safe`
has one connection more than readers, the least with which the clients cannot come to
a standstill (theorem `EnoughConnections`), and `pool_deadlock` one less. In runs with
liveness no symmetry is used.

Runs that find a violation, each of one sentence of the repository:

| Run | Statement | What TLC shows |
|---|---|---|
| `quote_duplicate` | README: repeated transitions do not send the same e-mail again | of two PUTs the second writes back the row it read before the first moved the status: the order goes back, the move is made, and announced, again; without any PUT the budget's write of the row, after its e-mail, does the same to a transition made meanwhile |
| `exec_double` | API documentation: a finalization takes the supplies of the service | two finalizations of one service both pass the check; the second UPDATE matches no row, is no error, and the stock is taken twice |
| `pool_deadlock` | API documentation and README: 503 of `/ready` means that the database is unavailable | as many reads of work orders as connections each hold the services query's connection and wait for another; nobody gives one back, and the probe times out although PostgreSQL responds |

The quotations, with their lines, are in the findings of `PROJECT.json`.

### Known divergences

Seen while modelling and not given a run. `PUT /services/:id` writes back every field
it read, so that of two concurrent PUTs the second undoes what the first changed,
although `docs/swagger.yaml:616` says "Apenas os campos fornecidos sao alterados."
(`FindForUpdate` and `Update` of `ServiceCatalog` contain the behaviour). `PUT /users`
does the same with the username and the role. Neither `AddServices` nor `StartService`
looks at the order again when it writes, and removing the last undecided service does
not evaluate the completion of the quote. An approval and a rejection of one service
at the same moment may leave the order with the approved total from before the
rejection. Services started on the same stock take it below zero. A replica that
dies between marking a service finished and taking its supplies leaves it finished
with nothing taken; a read that breaks off passes for a short list, on which an order
may be finished. The models contain all of these, the code makes no attempt to prevent
them, and no property claims to cover them: the hazards say so in their notes.

## 4. Fairness

In the modules of the order, liveness is checked under weak fairness of each call's
(`TransitionStep`) or each request's (`RequestStep`) next step. In `transition_race`
faults are on as well: a call ends by its own steps or by a fault. In the composed
runs they are off, because a request that died may well leave the order waiting. The
justification is the Go scheduler and the database: a goroutine that serves a
request runs on until it returns, no step waits for another request (each is one
statement, no lock is held across two), and a statement ends. Nothing is assumed of
what arrives: `Invoke`, `BeginRequest` and `OtherWrite` carry no fairness, nor does
a fault. The e-mail provider is fair in answering, never in accepting: sent and
refused are alternatives of one fair step.

That no step waits is what `ConnectionPool` looks into. `PoolFairSpec` has weak
fairness of the statements of a client with its connections in hand (`Run`, which
PostgreSQL has to be up for), strong fairness of `Acquire`, because `pgxpool` serves
those who wait in the order they came, and weak fairness of `Ask`, because the
kubelet probes periodically. Nothing makes a client begin, a statement fail or
PostgreSQL come back, and both liveness properties start from `<>[]up`. The two
seconds of the probe appear as an assumption in the guard of `NotReady`: they are
taken to be long against a statement, so the time only runs out when PostgreSQL is
silent or when all connections are taken and no client with one is running a
statement (`Blocked`).

## 5. Proofs

Checked by TLAPS for every value of the constants that satisfies the named
assumptions: any set of calls, any initial statuses, any set of quote values, any
services, supplies, customers or connections, with and without faults.

Every invariant and every action property of the passing runs is stated by a theorem.

**`StatusTransitionProofs`** begins with the table: an allowed move leads to a status
of the table, strictly raises `Rank`, and adds to the timestamps exactly what
`StampsAt` says. Then `TransitionTo`, in three environments:

- `SharedSpec`: other handlers write stale rows back (`OtherWrite`);
- `OwnedSpec`: they may write the row, but with the status it has (`QuietWrite`);
- `TransitionSpec`: nobody else writes. It implies `OwnedSpec`, which implies
  `SharedSpec` (`AloneIsOwned`, `OwnedIsShared`).

| Theorem, of `SharedSpec` | Property | Argument |
|---|---|---|
| `TypeCorrect` | `TransitionTypeOK` | one case per action |
| `StampsAlwaysMatch` | `StampsMatchStatus` | `HistoryInv`: types, a call about to UPDATE looked up an allowed move (`CasIsAllowed`), every past row has the timestamps of its status (`PastInv`); without the history a stale row could restore anything |
| `PastAlwaysConnected` | `PastConnected` | the same invariant |
| `OkAlwaysEntered` | `OkMeansEntered` | `AnswerInv`: a call that moved, or answered ok, asks for a status in `past`; `past` only grows |

| Theorem, of `OwnedSpec` | Property | Argument |
|---|---|---|
| `StatusAlwaysFollowsTable` | `StatusFollowsTable` | the compare-and-set finds the status the table was asked about (`CasIsAllowed`) |
| `AlwaysOneMover` | `OneMoverPerStatus` | `MoverInv`: the target of a mover has at most the rank of the status, so the next mover's target is higher |
| `NeverDuplicateNotice` | `NoDuplicateNotice` | `MailedInv`: only movers are announced |
| `ConflictAlwaysOvertaken` | `ConflictMeansOvertaken` | `OvertakenInv`: when the row no longer has the status a call read, some other call moved it out of that status |
| `Implementation` | `ImplementsLifecycle` | refinement: `owed` are the targets of calls in their notifier, `told` those of calls whose e-mail was accepted; `AlwaysOneMover` is what makes leaving the notifier remove the status from `owed` |

`AloneKeepsAll` states the five for `TransitionSpec`, the specification of the run
`transition_race`. `LifecycleTellsOnce` is about the abstract specification: it never
announces what it already told. Its invariant `RankInv` bounds the rank of what is owed
or told by the rank of the status; `ToldOnce` alone is not inductive, as a step could
re-enter a status. `AlwaysToldOnce` carries it over by the refinement.

`StepKinds` and `StepKindsOwned` (what a step does to the row) and `OwnSteps` (what it
does to one call) are the lemmas by which each of these proofs splits the next-state
relation into the actions a conjunct can be disturbed by.

**`QuoteApprovalProofs`**, for any requests and services:

| Theorem | Property | Assuming | Argument |
|---|---|---|---|
| `ApprovalTypeCorrect` | `TypeOK` | | by `NextKinds`, what a step does to each variable, proved once for all actions |
| `ApprovalSharesTheRow` | `UsesTransitionTo` | | refinement of `SharedSpec`; `HeldInv`: every work order a handler, a budget or a call holds and may write back has a status and timestamps of `past`, and both histories only grow |
| `HistoryInApproval` | `StampsMatchStatus`, `PastConnected`, `OkMeansEntered` | | the theorems of `SharedSpec` carried over |
| `SentQuoteWasMailed` | `QuoteSentMeansMailed` | | the other half of `HeldInv`: not the row alone but whatever may overwrite it has a date only if an e-mail was accepted |
| `DecisionsFollowTable` | `StatusFollowsTable` | only decisions | `SuccessInv`: once a `TransitionTo` of a decision succeeds the order is in `APROVADO` or `CANCELADA`, which no decision leaves, so the row `SaveTotal` holds is not out of date; hence `OwnedSpec` |
| `DecisionsKeepLifecycle` | `ImplementsLifecycle`, `OneMoverPerStatus`, `ConflictMeansOvertaken`, `NoDuplicateNotice` | only decisions | from `OwnedSpec` |
| `DecisionNeverLost` | `LastDecisionMoves` | only decisions, no faults | when nothing is pending and the order still waits, some request is about to evaluate, or in a `TransitionTo` whose read is not out of date |
| `ApprovedTotalAlwaysSettles` | `ApprovedTotalSettles` | only decisions, no faults, not approved at the beginning | `TotalInv`: an approved order has no pending services; until its total is right a request has still to save it, and what such a request has summed is right |

"Only decisions" is `Operations \subseteq DecisionOps`, the customers' four links. The
assumption is needed: the PUT and the budget write back rows that may be out of date,
and then the status goes back (run `quote_duplicate`). Faults are excluded where a
property says that something is eventually done: a request that dies saves no total.

**`ServiceExecutionProofs`**, for any requests, services and supplies:

| Theorem | Property | Assuming | Argument |
|---|---|---|---|
| `ExecutionTypeCorrect` | `TypeOK` | | `RequestInv`: each place of a handler says by which operation it is reached (`PlaceFits`) and that a mechanic's request is about one service (`AboutOne`) |
| `SharesTheRow` | `UsesTransitionTo` | | refinement of `SharedSpec`: the only write of the row that is not `TransitionTo`'s own is the PUT's (`StepsOnRow`), and the order it read is one of `past`, since `past` only grows |
| `HistoryInExecution` | `StampsMatchStatus`, `PastConnected`, `OkMeansEntered` | | the theorems of `SharedSpec` carried over |
| `SuppliesOnlyForFinished` | `DeductedIsFinished` | | not inductive: a request about to take supplies *relies on* what its earlier statements saw (`ReliesOn`), and no other request undoes that: a finished service stays finished, an approval stays |
| `StockIsAccountedFor` | `StockAccounts` | | only `Deduct` changes stock and count, for one service; `SumsProofs` says what that does to the sum |
| `FinishedHasDeducted` | `FinishedIsDeducted` | no faults | whoever finishes a service goes on to take its supplies (`DeductsNext`), and a step of one request leaves the others where they are (`StepsAreOwn`) |
| `OnceUnlessResubmitted` | `DeductedOnce` | `Resubmits = FALSE` | `OnceInv`: a service has one finalizer, which takes its supplies on its way from `deduct`; the run `exec_double` shows that the assumption is needed |
| `FinishedIsShownFinished` | `ShownFinishedIsFinished` | no faults, no PUT, not finished at the beginning | `ShownInv`: from the moment `TransitionTo` is called all approved services are finished, and finished services stay so until the second read |
| `ExecutionKeepsLifecycle` | `ImplementsLifecycle`, `StatusFollowsTable`, `OneMoverPerStatus`, `NoDuplicateNotice` | no PUT | `TransitionSpec`: then nobody else writes the row |
| `FinishNeverLost` | `LastFinishMoves` | no faults, no PUT | when all approved services are finished and the order is not, some request is between its own finish and the look at the services, or in a `TransitionTo` whose read is not out of date |

"No PUT" is `"put" \notin Operations`: with it the staff may write any status, and
those of the runs that check these two properties have none either.

`DecisionNeverLost` and `FinishNeverLost` are the safety halves of the liveness
properties `DecidedOrderMoves` and `FinishedServicesFinishOrder`: the obligation to move
the order is never without a request that has it. That this request goes on is fairness,
and stays with TLC.

**`SumsProofs`.** `SumFunction` is defined by recursion over a chosen order of the
domain. The library's theorems on induction and recursion take an operator, which the
provers cannot instantiate, so the module derives what is needed from well-foundedness
as facts about *sets*: a set of numbers with 0 and every successor is `Nat`
(`NumberInduction`); a set of subsets of a finite set that grows by the chosen element
holds all of them (`SubsetInduction`). The partial sums then exist as one function
(`PartialSumsExist`), and `SumType`, `SumOfZeros` and `SumAdds` (changing one term by
`d` changes the sum by `d`) follow. `IsFiniteSet(Services)` of `ExecutionAssumption` is
there for this.

**`ServiceCatalogProofs`**, for any sets of ids, requests, titles and bodies, any valid
catalog to begin with:

| Theorem | Property | Argument |
|---|---|---|
| `TypeCorrect` | `TypeOK` | not inductive: the price of a row is positive because the row a request is about to write passed `Validate` (`RowsValid`); `CatalogInv` is the two together with `CatalogFits`: what is stored fits its columns |
| `TitlesStayUnique` | `TitlesUnique` | inductive over `Kinds`: only an INSERT or UPDATE can disturb it, and the index refuses those |
| `ItemsStayResolved` | `ItemsResolve` | inductive over `Kinds`: the foreign key guards both ends, DELETE (`~Linked`) and the batch insert |
| `DeletedStayDeleted` | `DeletedForever` | inductive over `Kinds`: an UPDATE needs a row that is present, an INSERT takes a new id |
| `SnapshotsWereOffered` | `SnapshotsOffered` | with what AddServices has collected (`BatchesOffered`) and what is active now (`CatalogOffered`), since an item is only as old as the batch it comes from |
| `LosersAreTold` | `RacesAnswered` | one request at a time (`OwnAnswer`, `OtherRequests`): every refusal but "does not fit" has a status of its own (`KnownErrors`), and what does not fit is in the body of the request itself (`FromBody`), since what a PUT merges it with is stored and fits (`CatalogFits`) |

`Kinds` sums up what a step does to the tables (keep, write a row, deactivate,
delete, add a batch), and `StepKinds` is proved once for the sixteen actions.
`CatalogAssumption` asks of the catalog at the beginning what `Validate` (and the seed
file), the columns and the unique index guarantee: positive prices, values that fit,
titles that differ in more than capitals.

**`SupplyItemsProofs`**, for any services, supplies, batches and requests, rests on one
invariant, `SupplyInv`, of three parts:

- `RequestsInv`: each request fits its place (`Fits`): the rows it still has to insert
  are those of its batch (`RowsFit`), its open transaction is a prefix of them
  (`TransactionFits`), where it is belongs to its operation (`PlaceFits`), and its
  answer says what it did, also when the refresh of the quote failed (`OutcomeFits`);
- `TablesInv`: references resolve and keys are unique over the rows of the table *and
  of the open transactions*, because the locks of an insert keep what it refers to
  until it commits; over the committed rows alone neither is inductive;
- `StrippedInv`: a request that deleted the supplies of a service only has to delete
  the service: it is about to, it died, it was told that others had added supplies
  again, or the service is gone.

| Theorem | Property | From |
|---|---|---|
| `SupplyTypes` | `TypeOK` | `RequestsInv` |
| `SuppliesStayLinked` | `LinksResolve` | `TablesInv` |
| `ListedOnce` | `OncePerService` | `TablesInv` |
| `BatchesAreWhole` | `AllOrNothing` | `RequestsInv` |
| `StrippedGoes` | `StrippedIsRemoved` | `StrippedInv` |

**`RegistrationProofs`**, for any texts, plates, customers, vehicles, users and requests:

| Theorem | Property | Argument |
|---|---|---|
| `TypeCorrect` | `TypeOK` | register steps (`RegisterStep`) and steps of an order request apart |
| `ReferencesStayResolved` | `ReferencesResolve` | inductive: a DELETE that succeeds had no reference, an INSERT found what it refers to |
| `NobodyTwice` | `RegisteredOnce` | `RowsOnce`: rows are the seed's, which are digits, or stored normalized, and pass the unique columns; normalizing keeps only digits (`NormalizeDigits`), so that what is stored normalizes to itself |
| `DocumentsFollowTheRule` | `WrittenDocumentsWellFormed` | `RowsOnce` with `AcceptedIsWellFormed`: a customer's row was accepted by `ValidateDocument` or is still the seed's; nothing is assumed of the seed's check digits |
| `AcceptedIsWellFormed` | | for *every* sequence of digits `ValidateDocument` holds exactly of those that follow the authority's rule, except the CPFs of one repeated digit: the two tables of weights give sums that agree digit by digit (`FollowsRule`), and `11 - sum % 11` with 10 and 11 as 0 is `10 * sum % 11 % 10` (`CheckDigitRule`) |
| `PartiesWereTrue` | `OrderPartiesWereTrue` | `WereTrue`: also what a request has looked up and not yet inserted was true when it did; the histories only grow |

**`ConnectionPoolProofs`**, for any readers, writers, connections and lengths:

| Theorem | Property | Argument |
|---|---|---|
| `PoolTypes` | `PoolTypeOK` | one case per action |
| `ConnectionsKept` | `ConnectionsAccounted` | inductive with the types: a connection is only taken from `Free`, and every path out of a read or a batch gives back what its place held |
| `PlacesAreReaders` | `PlacesKept` | only readers of whole orders get to wait with a connection in hand |
| `EnoughConnections` | `NoStandstill` | under `Cardinality(Readers) < Cardinality(Connections)`: when clients are blocked each connection is held by a reader that waits, each by one of its own, so that there are no more connections than readers |
| `UnreadyIsDown` | `UnreadyMeansDown` | under the same condition, which by the run `pool_deadlock` is sharp: the probe's time never runs out for want of a connection |

The type invariants of `ServiceExecution`, `SupplyItems`, `Registration` and
`ConnectionPool` are proved for every instance and are not repeated in a run.

`RegistrationAssumption` asks that texts are typed of digits and separators and
that the plates counted as valid are normalized ones, as the pattern of
`domain/vehicle.go` requires. `SeedAssumption` asks of the rows the database is
initialised with what the schema's keys make sure of and that documents are digits,
which `seed.sql` meets; not that a document is right.

Only model-checked: what is temporal beyond safety (`EveryCallAnswered`,
`SettlesNotices`, `DecidedOrderMoves`, `FinishedServicesFinishOrder`, `RequestsEnd`,
`ReadyWhenUp`). Liveness under fairness, and `ENABLED`, are outside what TLAPS proves.
The three runs that find a violation have theorems beside them that say where the
violation ends: `NeverDuplicateNotice`, `OnceUnlessResubmitted`, `UnreadyIsDown`.

## 6. Not modelled, and why

The listing of orders (filters, order, paging) and the average execution time only
read, one statement after another, and nothing is promised of how the pages of a
listing fit together. The editing of supplies overwrites price and stock with what a form
holds, in one statement; a deduction in between is lost, which is what overwriting
means (it is listed as a hazard). Passwords, roles and the signature and expiry of
tokens are library calls and one-step checks. That `Send` may return while
the SMTP session goes on, so that a refused e-mail is delivered after all, is a
matter of the provider's client; in the models an e-mail is accepted or refused.
The web page and the deployment files hold no program state; migrations and
start-up are sequential.

Limits of what is modelled. The services of `ServiceExecution` do not change while
they are executed, which the code enforces by the order's status except in the
window named in the hazards (an item inserted after its check). Nobody edits a
supply during a run. PostgreSQL statements are atomic and see all that was
committed before them (READ COMMITTED); an UPDATE re-evaluates its WHERE after
waiting for a row lock, which the interleaving of atomic statements includes. Only
the transaction of `AddSupplies` holds locks across statements, and only there are
they modelled: `CreateBatch` of `AddServices` is one action, as it locks nothing
another of its kind waits for. Users get fresh ids; a client may choose the id
of a customer or a vehicle, also one that was deleted before. A request that a validation
refuses changes nothing and appears only where its answer matters. The technician of
an order is left out: he is one more foreign key, and `InsertOrder` may be refused for
his or for the order's code at any time. A sum of prices that is too large for the
order's total makes the statement that saves it fail: in `SupplyItems` that is
`Refresh`, in `QuoteApproval` one of the faults, and `ServiceCatalog` does not follow
`AddServices` that far.
`ConnectionPool` leaves out the life of a connection (idle time, health checks): one
that breaks is replaced by the pool, which is what a failed statement amounts to. The
locks of the rows are not in it either: a batch that waits for one is a statement
that ends.

## 7. Plan

1. A larger class of environments in which the lifecycle holds in the quoting phase:
   item handlers beside decisions while the budget is not refreshed.
2. `SupplyStock`: editing a supply against the deduction; an abstract specification of
   the stock as a ledger, `ServiceExecution` shown to implement it.
3. Abstract specification of the registers (a store with keys), which
   `ServiceCatalog`, `SupplyItems` and `Registration` implement.
4. Listing rules: order, filters and paging, beside the writers.
5. E-mail provider: an e-mail delivered after `Send` gave up.
