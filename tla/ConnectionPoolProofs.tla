------------------------- MODULE ConnectionPoolProofs -------------------------
(***************************************************************************)
(* Theorems about ConnectionPool, for any number of connections, requests  *)
(* and services: what the pool promises, and the size that keeps requests  *)
(* from waiting for each other.                                            *)
(***************************************************************************)
EXTENDS ConnectionPool, FiniteSetTheorems, TLAPS

-----------------------------------------------------------------------------
(***************************************************************************)
(* Types.                                                                  *)
(***************************************************************************)
LEMMA ProbeIsApart == Probe \in Clients /\ Probe \notin Readers \union Writers
BY PoolAssumption DEF Clients

LEMMA NoneLeft == 0 \in 0..MaxLength
BY PoolAssumption

LEMMA InitTyped == PoolInit => PoolTypeOK
BY NoneLeft DEF PoolInit, PoolTypeOK

LEMMA AcquireTyped ==
  ASSUME PoolTypeOK, NEW x \in Clients, Acquire(x)
  PROVE  PoolTypeOK'
<1>1. CASE x \in Readers /\ TakeForServices(x)
  BY <1>1 DEF PoolTypeOK, TakeForServices, Free, Running
<1>2. ASSUME NEW then \in Running, Take(x, then)
      PROVE  PoolTypeOK'
  BY <1>2 DEF PoolTypeOK, Take, Free
<1>3. {"orderRow", "supplyRows", "inBatch", "pinging"} \subseteq Running
  BY DEF Running
<1>4. QED
  BY <1>1, <1>2, <1>3 DEF Acquire

LEMMA RunTyped ==
  ASSUME PoolTypeOK, NEW x \in Clients, Run(x)
  PROVE  PoolTypeOK'
<1>1. CASE x \in Readers /\ ReadOrder(x)
  BY <1>1 DEF PoolTypeOK, ReadOrder, GiveBack, Waiting
<1>2. CASE x \in Readers /\ NextService(x)
  BY <1>2, PoolAssumption DEF PoolTypeOK, NextService, Waiting
<1>3. CASE x \in Readers /\ ReadSupplies(x)
  BY <1>3 DEF PoolTypeOK, ReadSupplies, GiveBack, Running
<1>4. CASE x \in Readers /\ CloseServices(x)
  BY <1>4 DEF PoolTypeOK, CloseServices
<1>5. CASE x \in Writers /\ Insert(x)
  BY <1>5, PoolAssumption DEF PoolTypeOK, Insert
<1>6. CASE x \in Writers /\ Commit(x)
  BY <1>6 DEF PoolTypeOK, Commit, GiveBack
<1>7. CASE x = Probe /\ Ready
  BY <1>7 DEF PoolTypeOK, Ready, GiveBack
<1>8. QED
  BY <1>1, <1>2, <1>3, <1>4, <1>5, <1>6, <1>7 DEF Run

LEMMA NextTyped ==
  ASSUME PoolTypeOK, [PoolNext]_poolVars
  PROVE  PoolTypeOK'
<1>1. ASSUME NEW r \in Readers, AskForOrder(r)
      PROVE  PoolTypeOK'
  BY <1>1 DEF PoolTypeOK, AskForOrder, Waiting
<1>2. ASSUME NEW r \in Readers, FailRead(r)
      PROVE  PoolTypeOK'
  BY <1>2, NoneLeft DEF PoolTypeOK, FailRead, GiveBack
<1>3. ASSUME NEW w \in Writers, AskForBatch(w)
      PROVE  PoolTypeOK'
  BY <1>3 DEF PoolTypeOK, AskForBatch, Waiting
<1>4. ASSUME NEW w \in Writers, FailBatch(w)
      PROVE  PoolTypeOK'
  BY <1>4, NoneLeft DEF PoolTypeOK, FailBatch, GiveBack
<1>5. CASE Ask
  BY <1>5 DEF PoolTypeOK, Ask, Waiting
<1>6. CASE NotReady
  BY <1>6 DEF PoolTypeOK, NotReady, GiveBack
<1>7. CASE DatabaseStops \/ DatabaseReturns
  BY <1>7 DEF PoolTypeOK, DatabaseStops, DatabaseReturns
<1>8. CASE UNCHANGED poolVars
  BY <1>8 DEF PoolTypeOK, poolVars
<1>9. QED
  BY <1>1, <1>2, <1>3, <1>4, <1>5, <1>6, <1>7, <1>8, AcquireTyped, RunTyped
     DEF PoolNext

(***************************************************************************)
(* Every variable keeps to its range: a client holds connections of the    *)
(* pool only, and is at a place the code has.                              *)
(***************************************************************************)
THEOREM PoolTypes == PoolSpec => []PoolTypeOK
<1>1. PoolTypeOK /\ [PoolNext]_poolVars => PoolTypeOK'
  BY NextTyped
<1>2. QED
  BY InitTyped, <1>1, PTL DEF PoolSpec

-----------------------------------------------------------------------------
(***************************************************************************)
(* Connections.  A step changes what one client holds; it suffices that    *)
(* what the client holds then fits its place, and is nobody else's.        *)
(***************************************************************************)
Fits(place, kept, inUse) ==
  /\ kept # {} <=> place \in {"serviceRows", "supplies", "supplyRows"}
  /\ inUse # {} <=> place \in {"orderRow", "supplyRows", "inBatch", "pinging"}
  /\ kept \intersect inUse = {}
  /\ \A c, d \in kept : c = d
  /\ \A c, d \in inUse : c = d

LEMMA AccountedMeansFits ==
  ConnectionsAccounted <=>
    /\ \A x \in Clients : Fits(pc[x], rows[x], used[x])
    /\ \A x, y \in Clients : x # y => Held(x) \intersect Held(y) = {}
BY DEF ConnectionsAccounted, Fits

LEMMA OneClientMoves ==
  ASSUME PoolTypeOK, ConnectionsAccounted, NEW x \in Clients,
         NEW place, NEW kept, NEW inUse,
         pc' = [pc EXCEPT ![x] = place],
         rows' = [rows EXCEPT ![x] = kept],
         used' = [used EXCEPT ![x] = inUse],
         Fits(place, kept, inUse),
         \A y \in Clients \ {x} : (kept \union inUse) \intersect Held(y) = {}
  PROVE  ConnectionsAccounted'
<1>1. /\ pc'[x] = place /\ rows'[x] = kept /\ used'[x] = inUse
      /\ \A y \in Clients \ {x} :
           pc'[y] = pc[y] /\ rows'[y] = rows[y] /\ used'[y] = used[y]
  BY DEF PoolTypeOK
<1>2. \A y \in Clients : Fits(pc'[y], rows'[y], used'[y])
  BY <1>1, AccountedMeansFits
<1>3. /\ Held(x)' = kept \union inUse
      /\ \A y \in Clients \ {x} : Held(y)' = Held(y)
  BY <1>1 DEF Held
<1>4. \A y, z \in Clients : y # z => Held(y)' \intersect Held(z)' = {}
  BY <1>3, AccountedMeansFits
<1>5. QED
  BY <1>2, <1>4 DEF ConnectionsAccounted, Fits

\* A connection that is free is nobody's.
LEMMA FreeIsNobodys ==
  ASSUME NEW c \in Free, NEW y \in Clients
  PROVE  c \notin Held(y)
BY DEF Free

\* Giving connections back, or asking for one, takes nothing from another.
LEMMA LessIsNobodyElses ==
  ASSUME ConnectionsAccounted, NEW x \in Clients,
         NEW kept, NEW inUse, kept \subseteq rows[x], inUse \subseteq used[x]
  PROVE  \A y \in Clients \ {x} :
           (kept \union inUse) \intersect Held(y) = {}
BY DEF ConnectionsAccounted, Held

LEMMA OneClientReleases ==
  ASSUME PoolTypeOK, ConnectionsAccounted, NEW x \in Clients,
         NEW place, NEW kept, NEW inUse,
         kept \in {{}, rows[x]}, inUse \in {{}, used[x]},
         pc' = [pc EXCEPT ![x] = place],
         rows' = [rows EXCEPT ![x] = kept],
         used' = [used EXCEPT ![x] = inUse],
         kept # {} <=> place \in {"serviceRows", "supplies", "supplyRows"},
         inUse # {} <=>
           place \in {"orderRow", "supplyRows", "inBatch", "pinging"}
  PROVE  ConnectionsAccounted'
<1>1. Fits(pc[x], rows[x], used[x])
  BY AccountedMeansFits
<1>2. Fits(place, kept, inUse)
  BY <1>1 DEF Fits
<1>3. \A y \in Clients \ {x} : (kept \union inUse) \intersect Held(y) = {}
  BY LessIsNobodyElses
<1>4. QED
  BY <1>2, <1>3, OneClientMoves

LEMMA UnchangedEntry ==
  ASSUME PoolTypeOK, NEW x \in Clients
  PROVE  /\ rows = [rows EXCEPT ![x] = rows[x]]
         /\ used = [used EXCEPT ![x] = used[x]]
         /\ pc = [pc EXCEPT ![x] = pc[x]]
BY DEF PoolTypeOK

LEMMA InitAccounted == PoolInit => ConnectionsAccounted
BY DEF PoolInit, ConnectionsAccounted, Held

LEMMA TakeAccounted ==
  ASSUME PoolTypeOK, ConnectionsAccounted, NEW x \in Clients, NEW then,
         Take(x, then),
         \/ pc[x] = "supplies" /\ then = "supplyRows"
         \/ pc[x] \in {"order", "batch", "ping"}
              /\ then \in {"orderRow", "inBatch", "pinging"}
  PROVE  ConnectionsAccounted'
<1>1. PICK c \in Free : used' = [used EXCEPT ![x] = {c}]
  BY DEF Take
<1>2. Fits(pc[x], rows[x], used[x])
  BY AccountedMeansFits
<1>3. c \notin rows[x]
  BY FreeIsNobodys DEF Held
<1>4. Fits(then, rows[x], {c})
  BY <1>2, <1>3 DEF Fits
<1>5. \A y \in Clients \ {x} : (rows[x] \union {c}) \intersect Held(y) = {}
  BY FreeIsNobodys DEF ConnectionsAccounted, Held
<1>6. /\ pc' = [pc EXCEPT ![x] = then]
      /\ rows' = [rows EXCEPT ![x] = rows[x]]
  BY UnchangedEntry DEF Take
<1>7. QED
  BY <1>1, <1>4, <1>5, <1>6, OneClientMoves

LEMMA TakeForServicesAccounted ==
  ASSUME PoolTypeOK, ConnectionsAccounted, NEW x \in Clients,
         TakeForServices(x)
  PROVE  ConnectionsAccounted'
<1>1. PICK c \in Free : rows' = [rows EXCEPT ![x] = {c}]
  BY DEF TakeForServices
<1>2. Fits(pc[x], rows[x], used[x]) /\ pc[x] = "services"
  BY AccountedMeansFits DEF TakeForServices
<1>3. used[x] = {}
  BY <1>2 DEF Fits
<1>4. Fits("serviceRows", {c}, used[x])
  BY <1>3 DEF Fits
<1>5. \A y \in Clients \ {x} : ({c} \union used[x]) \intersect Held(y) = {}
  BY <1>3, FreeIsNobodys
<1>6. /\ pc' = [pc EXCEPT ![x] = "serviceRows"]
      /\ used' = [used EXCEPT ![x] = used[x]]
  BY UnchangedEntry DEF TakeForServices
<1>7. QED
  BY <1>1, <1>4, <1>5, <1>6, OneClientMoves

LEMMA AcquireAccounted ==
  ASSUME PoolTypeOK, ConnectionsAccounted, NEW x \in Clients, Acquire(x)
  PROVE  ConnectionsAccounted'
BY TakeAccounted, TakeForServicesAccounted DEF Acquire

LEMMA RunAccounted ==
  ASSUME PoolTypeOK, ConnectionsAccounted, NEW x \in Clients, Run(x)
  PROVE  ConnectionsAccounted'
<1>1. /\ Fits(pc[x], rows[x], used[x])
      /\ rows = [rows EXCEPT ![x] = rows[x]]
      /\ used = [used EXCEPT ![x] = used[x]]
      /\ pc = [pc EXCEPT ![x] = pc[x]]
  BY AccountedMeansFits, UnchangedEntry
<1>2. CASE ReadOrder(x)
  <2>1. PICK then \in {"services", "idle"} : GiveBack(x, then)
    BY <1>2 DEF ReadOrder
  <2>2. rows[x] = {} /\ rows' = rows
    BY <1>1, <1>2 DEF ReadOrder, Fits
  <2>3. QED
    BY <1>1, <2>1, <2>2, OneClientReleases DEF GiveBack
<1>3. CASE NextService(x)
  <2>1. rows[x] # {} /\ used[x] = {}
    BY <1>1, <1>3 DEF NextService, Fits
  <2>2. QED
    BY <1>1, <1>3, <2>1, OneClientReleases DEF NextService
<1>4. CASE ReadSupplies(x)
  <2>1. rows[x] # {}
    BY <1>1, <1>4 DEF ReadSupplies, Fits
  <2>2. QED
    BY <1>1, <1>4, <2>1, OneClientReleases DEF ReadSupplies, GiveBack
<1>5. CASE CloseServices(x)
  <2>1. used[x] = {}
    BY <1>1, <1>5 DEF CloseServices, Fits
  <2>2. QED
    BY <1>1, <1>5, <2>1, OneClientReleases DEF CloseServices
<1>6. CASE Insert(x)
  BY <1>6 DEF Insert, ConnectionsAccounted, Held
<1>7. CASE Commit(x)
  <2>1. rows[x] = {}
    BY <1>1, <1>7 DEF Commit, Fits
  <2>2. QED
    BY <1>1, <1>7, <2>1, OneClientReleases DEF Commit, GiveBack
<1>8. CASE x = Probe /\ Ready
  <2>1. rows[x] = {}
    BY <1>1, <1>8 DEF Ready, Fits
  <2>2. QED
    BY <1>1, <1>8, <2>1, OneClientReleases DEF Ready, GiveBack
<1>9. QED
  BY <1>2, <1>3, <1>4, <1>5, <1>6, <1>7, <1>8 DEF Run

\* Every way out of a failed read or batch gives everything back.
LEMMA EndsAccounted ==
  ASSUME PoolTypeOK, ConnectionsAccounted, NEW x \in Clients,
         GiveBack(x, "idle"), rows' = [rows EXCEPT ![x] = {}]
  PROVE  ConnectionsAccounted'
BY OneClientReleases DEF GiveBack

LEMMA NextAccounted ==
  ASSUME PoolTypeOK, ConnectionsAccounted, [PoolNext]_poolVars
  PROVE  ConnectionsAccounted'
<1>1. \A x \in Clients :
        /\ Fits(pc[x], rows[x], used[x])
        /\ rows = [rows EXCEPT ![x] = rows[x]]
        /\ used = [used EXCEPT ![x] = used[x]]
  BY AccountedMeansFits, UnchangedEntry
<1>2. ASSUME NEW r \in Readers, AskForOrder(r)
      PROVE  ConnectionsAccounted'
  <2>1. r \in Clients /\ rows[r] = {} /\ used[r] = {}
    BY <1>1, <1>2 DEF AskForOrder, Fits, Clients
  <2>2. QED
    BY <1>1, <1>2, <2>1, OneClientReleases DEF AskForOrder
<1>3. ASSUME NEW r \in Readers, FailRead(r)
      PROVE  ConnectionsAccounted'
  BY <1>3, EndsAccounted DEF FailRead, Clients
<1>4. ASSUME NEW w \in Writers, AskForBatch(w)
      PROVE  ConnectionsAccounted'
  <2>1. w \in Clients /\ rows[w] = {} /\ used[w] = {}
    BY <1>1, <1>4 DEF AskForBatch, Fits, Clients
  <2>2. QED
    BY <1>1, <1>4, <2>1, OneClientReleases DEF AskForBatch
<1>5. ASSUME NEW w \in Writers, FailBatch(w)
      PROVE  ConnectionsAccounted'
  <2>1. w \in Clients /\ rows[w] = {}
    BY <1>1, <1>5 DEF FailBatch, Fits, Clients
  <2>2. QED
    BY <1>1, <1>5, <2>1, EndsAccounted DEF FailBatch
<1>6. CASE Ask
  <2>1. rows[Probe] = {} /\ used[Probe] = {}
    BY <1>1, <1>6, ProbeIsApart DEF Ask, Fits
  <2>2. QED
    BY <1>1, <1>6, <2>1, ProbeIsApart, OneClientReleases DEF Ask
<1>7. CASE NotReady
  <2>1. rows[Probe] = {}
    BY <1>1, <1>7, ProbeIsApart DEF NotReady, Fits
  <2>2. QED
    BY <1>1, <1>7, <2>1, ProbeIsApart, EndsAccounted DEF NotReady
<1>8. CASE DatabaseStops \/ DatabaseReturns \/ UNCHANGED poolVars
  BY <1>8 DEF DatabaseStops, DatabaseReturns, poolVars,
              ConnectionsAccounted, Held
<1>9. QED
  BY <1>2, <1>3, <1>4, <1>5, <1>6, <1>7, <1>8, AcquireAccounted, RunAccounted
     DEF PoolNext

(***************************************************************************)
(* No connection is ever lost or used by two clients at once: the deferred *)
(* rows.Close and Rollback cover every way out of the repository.          *)
(***************************************************************************)
THEOREM ConnectionsKept == PoolSpec => []ConnectionsAccounted
<1>1. /\ PoolTypeOK /\ ConnectionsAccounted /\ [PoolNext]_poolVars
         => ConnectionsAccounted'
  BY NextAccounted
<1>2. QED
  BY InitAccounted, <1>1, PoolTypes, PTL DEF PoolSpec

-----------------------------------------------------------------------------
(***************************************************************************)
(* Deadlock.  If every connection is taken and nobody runs, each is the    *)
(* one connection that some reader keeps for the rows of its services:     *)
(* there are then at least as many readers as connections.                 *)
(***************************************************************************)
LEMMA HoldersRunOrKeepRows ==
  ASSUME ConnectionsAccounted, Blocked
  PROVE  \A c \in Connections : \E r \in Clients : rows[r] = {c}
<1> SUFFICES ASSUME NEW c \in Connections
             PROVE  \E r \in Clients : rows[r] = {c}
  OBVIOUS
<1>1. PICK r \in Clients : c \in Held(r)
  BY DEF Blocked, Free
<1>2. Fits(pc[r], rows[r], used[r]) /\ pc[r] \notin Running
  BY AccountedMeansFits DEF Blocked
<1>3. used[r] = {} \/ pc[r] = "supplyRows"
  BY <1>2 DEF Fits, Running
<1>4. used[r] = {}
  BY <1>2, <1>3 DEF Running
<1>5. c \in rows[r]
  BY <1>1, <1>4 DEF Held
<1>6. QED
  BY <1>2, <1>5 DEF Fits

\* Only readers have services to read.
OnlyReadersKeepRows == \A x \in Clients : rows[x] # {} => x \in Readers

LEMMA BlockedNeedsReaders ==
  ASSUME ConnectionsAccounted, OnlyReadersKeepRows, Blocked
  PROVE  Cardinality(Connections) <= Cardinality(Readers)
<1> DEFINE keepers == {r \in Readers : rows[r] \intersect Connections # {}}
           kept == [r \in keepers |-> CHOOSE c \in Connections : c \in rows[r]]
<1>1. IsFiniteSet(keepers) /\ Cardinality(keepers) <= Cardinality(Readers)
  BY PoolAssumption, FS_Subset
<1>2. kept \in [keepers -> Connections]
  OBVIOUS
<1>3. ASSUME NEW c \in Connections
      PROVE  \E r \in keepers : kept[r] = c
  <2>1. PICK r \in Clients : rows[r] = {c}
    BY HoldersRunOrKeepRows
  <2>2. r \in keepers
    BY <2>1 DEF OnlyReadersKeepRows
  <2>3. QED
    BY <2>1, <2>2
<1>4. kept \in Surjection(keepers, Connections)
  BY <1>2, <1>3 DEF Surjection
<1>5. Cardinality(Connections) <= Cardinality(keepers)
  BY <1>1, <1>4, FS_Surjection
<1>6. /\ Cardinality(Connections) \in Nat
      /\ Cardinality(keepers) \in Nat
      /\ Cardinality(Readers) \in Nat
  BY <1>1, PoolAssumption, FS_CardinalityType
<1>7. QED
  BY <1>1, <1>5, <1>6

\* A writer's place is never one of a read, nor the probe's.
ReadPlaces == {"order", "orderRow", "services", "serviceRows", "supplies",
               "supplyRows"}

PlacesKept == \A x \in Clients : pc[x] \in ReadPlaces => x \in Readers

LEMMA NextPlaces ==
  ASSUME PoolTypeOK, PlacesKept, [PoolNext]_poolVars
  PROVE  PlacesKept'
<1> USE DEF PlacesKept, PoolTypeOK, ReadPlaces
<1>1. ASSUME NEW x \in Clients, NEW place,
             pc' = [pc EXCEPT ![x] = place],
             place \in ReadPlaces => x \in Readers
      PROVE  PlacesKept'
  BY <1>1
<1>2. ASSUME pc' = pc
      PROVE  PlacesKept'
  BY <1>2
<1>3. ASSUME NEW x \in Clients, Acquire(x)
      PROVE  PlacesKept'
  BY <1>1, <1>3 DEF Acquire, Take, TakeForServices
<1>4. ASSUME NEW x \in Clients, Run(x)
      PROVE  PlacesKept'
  BY <1>1, <1>2, <1>4 DEF Run, ReadOrder, NextService, ReadSupplies,
       CloseServices, Insert, Commit, Ready, GiveBack
<1>5. ASSUME NEW r \in Readers, AskForOrder(r) \/ FailRead(r)
      PROVE  PlacesKept'
  BY <1>1, <1>5 DEF AskForOrder, FailRead, GiveBack, Clients
<1>6. ASSUME NEW w \in Writers, AskForBatch(w) \/ FailBatch(w)
      PROVE  PlacesKept'
  BY <1>1, <1>6 DEF AskForBatch, FailBatch, GiveBack, Clients
<1>7. CASE Ask \/ NotReady
  BY <1>1, <1>7, ProbeIsApart DEF Ask, NotReady, GiveBack
<1>8. CASE DatabaseStops \/ DatabaseReturns \/ UNCHANGED poolVars
  BY <1>2, <1>8 DEF DatabaseStops, DatabaseReturns, poolVars
<1>9. QED
  BY <1>3, <1>4, <1>5, <1>6, <1>7, <1>8 DEF PoolNext

THEOREM PlacesAreReaders == PoolSpec => []PlacesKept
<1>1. PoolInit => PlacesKept
  BY DEF PoolInit, PlacesKept, ReadPlaces
<1>2. PoolTypeOK /\ PlacesKept /\ [PoolNext]_poolVars => PlacesKept'
  BY NextPlaces
<1>3. QED
  BY <1>1, <1>2, PoolTypes, PTL DEF PoolSpec

LEMMA FewReadersNeverBlock ==
  ASSUME Cardinality(Readers) < Cardinality(Connections),
         ConnectionsAccounted, PlacesKept
  PROVE  ~ Blocked
<1>1. OnlyReadersKeepRows
  BY DEF OnlyReadersKeepRows, ConnectionsAccounted, PlacesKept, ReadPlaces
<1>2. /\ Cardinality(Readers) \in Nat
      /\ Cardinality(Connections) \in Nat
  BY PoolAssumption, FS_CardinalityType
<1>3. QED
  BY <1>1, <1>2, BlockedNeedsReaders

(***************************************************************************)
(* Requests never wait for each other in a ring as long as fewer of them   *)
(* read whole work orders at one moment than the pool has connections: the *)
(* size that the nested query of fetchServicesForWorkOrder asks for.       *)
(***************************************************************************)
THEOREM EnoughConnections ==
  ASSUME Cardinality(Readers) < Cardinality(Connections)
  PROVE  PoolSpec => []NoStandstill
<1>1. ConnectionsAccounted /\ PlacesKept => NoStandstill
  BY FewReadersNeverBlock DEF NoStandstill
<1>2. QED
  BY <1>1, ConnectionsKept, PlacesAreReaders, PTL

-----------------------------------------------------------------------------
\* While a probe runs, the history knows of any silence of PostgreSQL.
ProbeSeesSilence ==
  /\ UnreadyMeansDown
  /\ pc[Probe] # "idle" /\ ~ up => sawDown

LEMMA NextHonest ==
  ASSUME PoolTypeOK, ~ Blocked, ProbeSeesSilence, [PoolNext]_poolVars
  PROVE  ProbeSeesSilence'
<1> USE ProbeIsApart DEF ProbeSeesSilence, UnreadyMeansDown, PoolTypeOK
<1>1. ASSUME NEW x \in Clients \ {Probe}, NEW place,
             pc' = [pc EXCEPT ![x] = place],
             UNCHANGED <<up, sawDown, verdict>>
      PROVE  ProbeSeesSilence'
  BY <1>1
<1>2. ASSUME NEW x \in Clients, Acquire(x)
      PROVE  ProbeSeesSilence'
  BY <1>2 DEF Acquire, Take, TakeForServices
<1>3. ASSUME NEW x \in Clients, Run(x)
      PROVE  ProbeSeesSilence'
  BY <1>3 DEF Run, ReadOrder, NextService, ReadSupplies,
       CloseServices, Insert, Commit, Ready, GiveBack
<1>4. ASSUME NEW r \in Readers, AskForOrder(r) \/ FailRead(r)
      PROVE  ProbeSeesSilence'
  BY <1>1, <1>4 DEF AskForOrder, FailRead, GiveBack, Clients
<1>5. ASSUME NEW w \in Writers, AskForBatch(w) \/ FailBatch(w)
      PROVE  ProbeSeesSilence'
  BY <1>1, <1>5 DEF AskForBatch, FailBatch, GiveBack, Clients
<1>6. CASE Ask
  BY <1>6 DEF Ask
<1>7. CASE NotReady
  BY <1>7 DEF NotReady, GiveBack
<1>8. CASE DatabaseStops \/ DatabaseReturns
  BY <1>8 DEF DatabaseStops, DatabaseReturns
<1>9. CASE UNCHANGED poolVars
  BY <1>9 DEF poolVars
<1>10. QED
  BY <1>2, <1>3, <1>4, <1>5, <1>6, <1>7, <1>8, <1>9 DEF PoolNext

(***************************************************************************)
(* ... and then /ready answers 503 only when PostgreSQL did not respond,   *)
(* as docs/swagger.yaml and the README say of it.                          *)
(***************************************************************************)
THEOREM UnreadyIsDown ==
  ASSUME Cardinality(Readers) < Cardinality(Connections)
  PROVE  PoolSpec => []UnreadyMeansDown
<1>1. PoolInit => ProbeSeesSilence
  BY DEF PoolInit, ProbeSeesSilence, UnreadyMeansDown
<1>2. ConnectionsAccounted /\ PlacesKept => ~ Blocked
  BY FewReadersNeverBlock
<1>3. PoolTypeOK /\ ~ Blocked /\ ProbeSeesSilence /\ [PoolNext]_poolVars
        => ProbeSeesSilence'
  BY NextHonest
<1>4. ProbeSeesSilence => UnreadyMeansDown
  BY DEF ProbeSeesSilence
<1>5. QED
  BY <1>1, <1>2, <1>3, <1>4, PoolTypes, ConnectionsKept, PlacesAreReaders,
     PTL DEF PoolSpec
=============================================================================
