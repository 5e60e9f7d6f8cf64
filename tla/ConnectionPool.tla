---------------------------- MODULE ConnectionPool ----------------------------
(***************************************************************************)
(* The pgxpool of one API replica and the repository calls that share it:  *)
(* reads of a whole work order (FindByID), which keep the connection of    *)
(* the services query while they ask the pool for another one for the      *)
(* supplies of each service; batches, which run several statements on one  *)
(* connection; and the readiness probe, which gives up after two seconds.  *)
(* A call of one statement is a read that ends at the order's row.         *)
(*                                                                         *)
(* What the statements read and write belongs to the other modules.  Here  *)
(* a client is the goroutine of a request; it issues one call after        *)
(* another for ever.  A request waits without a deadline: the context it   *)
(* passes to the pool is never cancelled.                                  *)
(***************************************************************************)
EXTENDS Naturals, FiniteSets

CONSTANTS
  Connections,  \* the connections of the pool (MaxConns of them)
  Readers,      \* requests that read whole work orders
  Writers,      \* requests that run batches
  Probe,        \* the readiness probe
  MaxLength     \* bound on the services of an order, the inserts of a batch

ASSUME PoolAssumption ==
  /\ IsFiniteSet(Connections) /\ Connections # {}
  /\ IsFiniteSet(Readers)
  /\ Readers \intersect Writers = {}
  /\ Probe \notin Readers \union Writers
  /\ MaxLength \in Nat

VARIABLES
  pc,       \* where each client is
  rows,     \* the connection on which the rows of the services stay open
  used,     \* the connection of the statement or batch being run
  left,     \* services still to be read, inserts still to be made
  up,       \* PostgreSQL responds
  sawDown,  \* history: it did not, at some moment of the present probe
  verdict   \* the answer to the present probe, once it has one

poolVars == <<pc, rows, used, left, up, sawDown, verdict>>

Clients == Readers \union Writers \union {Probe}

\* Inside pool.Acquire.
Waiting == {"order", "services", "supplies", "batch", "ping"}

\* With the connection asked for in hand.
Running == {"orderRow", "serviceRows", "supplyRows", "inBatch", "pinging"}

Held(x) == rows[x] \union used[x]

Free == {c \in Connections : \A x \in Clients : c \notin Held(x)}

PoolTypeOK ==
  /\ pc \in [Clients -> {"idle"} \union Waiting \union Running]
  /\ rows \in [Clients -> SUBSET Connections]
  /\ used \in [Clients -> SUBSET Connections]
  /\ left \in [Clients -> 0..MaxLength]
  /\ up \in BOOLEAN
  /\ sawDown \in BOOLEAN
  /\ verdict \in {"none", "200", "503"}

PoolInit ==
  /\ pc = [x \in Clients |-> "idle"]
  /\ rows = [x \in Clients |-> {}]
  /\ used = [x \in Clients |-> {}]
  /\ left = [x \in Clients |-> 0]
  /\ up = TRUE
  /\ sawDown = FALSE
  /\ verdict = "none"

-----------------------------------------------------------------------------
(***************************************************************************)
(* The pool.  A connection goes to a client that waits for one, and comes  *)
(* back when the statement's rows are closed or the transaction ends.      *)
(***************************************************************************)
Take(x, then) ==
  /\ \E c \in Free : used' = [used EXCEPT ![x] = {c}]
  /\ pc' = [pc EXCEPT ![x] = then]
  /\ UNCHANGED <<rows, left, up, sawDown, verdict>>

\* A place in the pool is free, but no connection can be made for it.
CannotConnect == Free # {} /\ ~ up

\* A statement or batch of x ends and its connection goes back to the pool.
GiveBack(x, then) ==
  /\ used' = [used EXCEPT ![x] = {}]
  /\ pc' = [pc EXCEPT ![x] = then]

-----------------------------------------------------------------------------
(***************************************************************************)
(* FindByID: the order's row, the rows of its services and, before the     *)
(* next of them is read, the supplies of each.                             *)
(***************************************************************************)
AskForOrder(r) ==
  /\ pc[r] = "idle"
  /\ pc' = [pc EXCEPT ![r] = "order"]
  /\ UNCHANGED <<rows, used, left, up, sawDown, verdict>>

\* QueryRow gives its connection back before the services are asked for.
ReadOrder(r) ==
  /\ pc[r] = "orderRow" /\ up
  /\ \E then \in {"services", "idle"} : GiveBack(r, then)
  /\ UNCHANGED <<rows, left, up, sawDown, verdict>>

TakeForServices(r) ==
  /\ pc[r] = "services"
  /\ \E c \in Free : rows' = [rows EXCEPT ![r] = {c}]
  /\ \E n \in 0..MaxLength : left' = [left EXCEPT ![r] = n]
  /\ pc' = [pc EXCEPT ![r] = "serviceRows"]
  /\ UNCHANGED <<used, up, sawDown, verdict>>

NextService(r) ==
  /\ pc[r] = "serviceRows" /\ up
  /\ left[r] > 0
  /\ left' = [left EXCEPT ![r] = @ - 1]
  /\ pc' = [pc EXCEPT ![r] = "supplies"]
  /\ UNCHANGED <<rows, used, up, sawDown, verdict>>

\* Defect for the mutants: rows.Close is deferred in the loop over services.
ReadSuppliesKeeping(r) ==
  /\ pc[r] = "supplyRows" /\ up
  /\ rows' = [rows EXCEPT ![r] = @ \union used[r]]
  /\ GiveBack(r, "serviceRows")
  /\ UNCHANGED <<left, up, sawDown, verdict>>

ReadSupplies(r) ==
  /\ pc[r] = "supplyRows" /\ up
  /\ GiveBack(r, "serviceRows")
  /\ UNCHANGED <<rows, left, up, sawDown, verdict>>

CloseServices(r) ==
  /\ pc[r] = "serviceRows" /\ up
  /\ left[r] = 0
  /\ rows' = [rows EXCEPT ![r] = {}]
  /\ pc' = [pc EXCEPT ![r] = "idle"]
  /\ UNCHANGED <<used, left, up, sawDown, verdict>>

(***************************************************************************)
(* Defects for the mutants: the rows of the services stay open when the    *)
(* supplies of one cannot be read; a failed statement is tried again.      *)
(***************************************************************************)
FailReadLeaks(r) ==
  /\ pc[r] \in {"orderRow", "serviceRows", "supplyRows"}
  /\ GiveBack(r, "idle")
  /\ left' = [left EXCEPT ![r] = 0]
  /\ UNCHANGED <<rows, up, sawDown, verdict>>

FailReadRetries(r) ==
  /\ pc[r] \in {"orderRow", "serviceRows", "supplyRows"}
  /\ rows' = [rows EXCEPT ![r] = {}]
  /\ GiveBack(r, "order")
  /\ left' = [left EXCEPT ![r] = 0]
  /\ UNCHANGED <<up, sawDown, verdict>>

\* A statement of the read fails, or the Acquire before it: the deferred
\* rows.Close run, inner first.
FailRead(r) ==
  /\ \/ pc[r] \in {"orderRow", "serviceRows", "supplyRows"}
     \/ pc[r] \in {"order", "services", "supplies"} /\ CannotConnect
  /\ rows' = [rows EXCEPT ![r] = {}]
  /\ GiveBack(r, "idle")
  /\ left' = [left EXCEPT ![r] = 0]
  /\ UNCHANGED <<up, sawDown, verdict>>

-----------------------------------------------------------------------------
(***************************************************************************)
(* CreateBatch and CreateSupplyBatch: Begin, the inserts, Commit, all on   *)
(* the connection of the transaction.                                      *)
(***************************************************************************)
AskForBatch(w) ==
  /\ pc[w] = "idle"
  /\ \E n \in 0..MaxLength : left' = [left EXCEPT ![w] = n]
  /\ pc' = [pc EXCEPT ![w] = "batch"]
  /\ UNCHANGED <<rows, used, up, sawDown, verdict>>

Insert(w) ==
  /\ pc[w] = "inBatch" /\ up
  /\ left[w] > 0
  /\ left' = [left EXCEPT ![w] = @ - 1]
  /\ UNCHANGED <<pc, rows, used, up, sawDown, verdict>>

Commit(w) ==
  /\ pc[w] = "inBatch" /\ up
  /\ left[w] = 0
  /\ GiveBack(w, "idle")
  /\ UNCHANGED <<rows, left, up, sawDown, verdict>>

\* A statement of the batch fails, and the deferred Rollback runs, or Begin.
FailBatch(w) ==
  /\ pc[w] = "inBatch" \/ (pc[w] = "batch" /\ CannotConnect)
  /\ GiveBack(w, "idle")
  /\ left' = [left EXCEPT ![w] = 0]
  /\ UNCHANGED <<rows, up, sawDown, verdict>>

-----------------------------------------------------------------------------
(***************************************************************************)
(* GET /ready: Ping takes a connection and uses it, within two seconds in  *)
(* all.  Statements and pings are taken to end well within that time while *)
(* PostgreSQL responds, so that the time only runs out when nothing the    *)
(* probe waits for is on its way: PostgreSQL does not respond, or every    *)
(* connection is taken and no client with one is running a statement.      *)
(***************************************************************************)
Blocked == Free = {} /\ \A x \in Clients : pc[x] \notin Running

Ask ==
  /\ pc[Probe] = "idle"
  /\ pc' = [pc EXCEPT ![Probe] = "ping"]
  /\ sawDown' = ~ up
  /\ verdict' = "none"
  /\ UNCHANGED <<rows, used, left, up>>

Ready ==
  /\ pc[Probe] = "pinging" /\ up
  /\ GiveBack(Probe, "idle")
  /\ verdict' = "200"
  /\ UNCHANGED <<rows, left, up, sawDown>>

\* Defect for the mutants: a probe that cannot have a connection gives up.
NotReadyBusy ==
  /\ \/ pc[Probe] = "ping" /\ (~ up \/ Free = {})
     \/ pc[Probe] = "pinging" /\ ~ up
  /\ GiveBack(Probe, "idle")
  /\ verdict' = "503"
  /\ UNCHANGED <<rows, left, up, sawDown>>

NotReady ==
  /\ \/ pc[Probe] = "ping" /\ (~ up \/ Blocked)
     \/ pc[Probe] = "pinging" /\ ~ up
  /\ GiveBack(Probe, "idle")
  /\ verdict' = "503"
  /\ UNCHANGED <<rows, left, up, sawDown>>

DatabaseStops ==
  /\ up
  /\ up' = FALSE
  /\ sawDown' = (sawDown \/ pc[Probe] # "idle")
  /\ UNCHANGED <<pc, rows, used, left, verdict>>

DatabaseReturns ==
  /\ ~ up
  /\ up' = TRUE
  /\ UNCHANGED <<pc, rows, used, left, sawDown, verdict>>

-----------------------------------------------------------------------------
\* The steps in which a client is given a connection.
Acquire(x) ==
  \/ x \in Readers /\ pc[x] = "order" /\ Take(x, "orderRow")
  \/ x \in Readers /\ TakeForServices(x)
  \/ x \in Readers /\ pc[x] = "supplies" /\ Take(x, "supplyRows")
  \/ x \in Writers /\ pc[x] = "batch" /\ Take(x, "inBatch")
  \/ x = Probe /\ pc[x] = "ping" /\ Take(x, "pinging")

\* The steps a client with its connections in hand takes by itself.
Run(x) ==
  \/ /\ x \in Readers
     /\ \/ ReadOrder(x) \/ NextService(x) \/ ReadSupplies(x)
        \/ CloseServices(x)
  \/ x \in Writers /\ (Insert(x) \/ Commit(x))
  \/ x = Probe /\ Ready

PoolNext ==
  \/ \E r \in Readers : AskForOrder(r) \/ FailRead(r)
  \/ \E w \in Writers : AskForBatch(w) \/ FailBatch(w)
  \/ \E x \in Clients : Acquire(x) \/ Run(x)
  \/ Ask \/ NotReady
  \/ DatabaseStops \/ DatabaseReturns

PoolSpec == PoolInit /\ [][PoolNext]_poolVars

(***************************************************************************)
(* The goroutines and PostgreSQL run on; the kubelet probes again.  The    *)
(* pool serves its waiters in the order they came, so that no one waits    *)
(* for ever while connections keep coming back: strong fairness.  Nothing  *)
(* makes a client begin, and nothing makes PostgreSQL come back.           *)
(***************************************************************************)
PoolFairSpec ==
  /\ PoolSpec
  /\ \A x \in Clients : WF_poolVars(Run(x)) /\ SF_poolVars(Acquire(x))
  /\ WF_poolVars(Ask)

-----------------------------------------------------------------------------
(***************************************************************************)
(* No connection is lost and none is shared: a client has the connections  *)
(* its place in the code calls for and no others, on every path out of a   *)
(* read or a batch, and no two clients have the same one.                  *)
(***************************************************************************)
ConnectionsAccounted ==
  /\ \A x \in Clients :
       /\ rows[x] # {} <=> pc[x] \in {"serviceRows", "supplies", "supplyRows"}
       /\ used[x] # {} <=>
            pc[x] \in {"orderRow", "supplyRows", "inBatch", "pinging"}
       /\ rows[x] \intersect used[x] = {}
       /\ \A c, d \in rows[x] : c = d
       /\ \A c, d \in used[x] : c = d
  /\ \A x, y \in Clients : x # y => Held(x) \intersect Held(y) = {}

(***************************************************************************)
(* docs/swagger.yaml and README, /ready: the answer 503, which takes the   *)
(* replica out of service, means that PostgreSQL did not respond.          *)
(***************************************************************************)
UnreadyMeansDown == verdict = "503" => sawDown

(***************************************************************************)
(* Clients never wait for each other in a ring: while one waits, there is  *)
(* a connection for it or another client is using one it will give back.   *)
(***************************************************************************)
NoStandstill == (\E x \in Clients : pc[x] \in Waiting) => ~ Blocked

(***************************************************************************)
(* Once PostgreSQL responds for good, every request that is being served   *)
(* ends, whatever other clients keep asking of the pool ...                *)
(***************************************************************************)
RequestsEnd ==
  <>[]up => \A x \in Readers \union Writers : []<>(pc[x] = "idle")

(***************************************************************************)
(* ... and the replica is found ready again and again.                     *)
(***************************************************************************)
ReadyWhenUp == <>[]up => []<>(verdict = "200")
=============================================================================
