--------------------------- MODULE StatusTransition ---------------------------
(***************************************************************************)
(* WorkOrderStatusService.TransitionTo of one work order, called by any    *)
(* number of concurrent requests on any number of API replicas, over       *)
(* WorkOrderRepository.TransitionStatus.  Each action is one database      *)
(* statement or one call of the notifier, so calls interleave wherever the *)
(* replicas can.                                                           *)
(*                                                                         *)
(* The notifier is the port WorkOrderStatusNotifier: its e-mail is sent or *)
(* refused here, and the row it may write is an OtherWrite.  The composed  *)
(* modules give the notifier and the other writers in full.                *)
(***************************************************************************)
EXTENDS WorkOrderStatus, FiniteSets

CONSTANTS
  Calls,            \* the calls of TransitionTo
  InitialStatuses,  \* the statuses the order may be in when the calls begin
  Quotes,           \* values of the quote columns, which TransitionTo only carries
  FirstQuote,       \* the quote columns when the calls begin
  Faults            \* TRUE: statements fail, replies are lost, replicas die

ASSUME TransitionAssumption ==
  /\ InitialStatuses \subseteq WorkOrderStatuses
  /\ FirstQuote \in Quotes
  /\ Faults \in BOOLEAN

VARIABLES
  row,     \* the order's row: status, timestamp columns set, quote columns
  call,    \* the local state of each call
  past,    \* history: every value the status and timestamp columns have had
  mailed   \* history: the calls whose e-mail the provider accepted

transitionVars == <<row, call, past, mailed>>

Rows == [status : WorkOrderStatuses, stamps : SUBSET Stamps, quote : Quotes]

FirstRow(s) ==
  [status |-> s, stamps |-> StampsAt(s), quote |-> FirstQuote]

\* The value of a local work order before it is read.
NoOrder == FirstRow(Received)

PastRows == [status : WorkOrderStatuses, stamps : SUBSET Stamps]

Progress(r) == [status |-> r.status, stamps |-> r.stamps]

CallRecords ==
  [pc     : {"idle", "find", "cas", "recheck", "notify", "return", "done"},
   target : WorkOrderStatuses,  \* newStatus
   from   : WorkOrderStatuses,  \* previousStatus, as Find read it
   moved  : BOOLEAN,            \* this call changed the row
   result : {"none", "ok", "refused", "conflict", "error"},
   order  : Rows]               \* the work order the call returns

IdleCall ==
  [pc |-> "idle", target |-> Received, from |-> Received,
   moved |-> FALSE, result |-> "none", order |-> NoOrder]

TransitionTypeOK ==
  /\ row \in Rows
  /\ call \in [Calls -> CallRecords]
  /\ past \subseteq PastRows
  /\ mailed \subseteq Calls

TransitionInit ==
  /\ row \in {FirstRow(s) : s \in InitialStatuses}
  /\ call = [c \in Calls |-> IdleCall]
  /\ past = {Progress(row)}
  /\ mailed = {}

-----------------------------------------------------------------------------
(***************************************************************************)
(* Steps of a call.                                                        *)
(***************************************************************************)
Invoke(c, to) ==
  /\ call[c].pc = "idle"
  /\ call' = [call EXCEPT ![c].pc = "find", ![c].target = to]
  /\ UNCHANGED <<row, past, mailed>>

Answer(c, result) ==
  call' = [call EXCEPT ![c].pc = "done", ![c].result = result,
                       ![c].order = row]

\* The order already has the status: success, and nothing is announced.
FindSame(c) ==
  /\ call[c].pc = "find"
  /\ row.status = call[c].target
  /\ Answer(c, "ok")
  /\ UNCHANGED <<row, past, mailed>>

\* Defect for the mutants: a move the table forbids is reported as a race.
FindInvalidConflict(c) ==
  /\ call[c].pc = "find"
  /\ row.status # call[c].target
  /\ ~ IsValidTransition(row.status, call[c].target)
  /\ Answer(c, "conflict")
  /\ UNCHANGED <<row, past, mailed>>

FindInvalid(c) ==
  /\ call[c].pc = "find"
  /\ row.status # call[c].target
  /\ ~ IsValidTransition(row.status, call[c].target)
  /\ Answer(c, "refused")
  /\ UNCHANGED <<row, past, mailed>>

\* Defect for the mutants: the table is not looked up.
FindValidUnchecked(c) ==
  /\ call[c].pc = "find"
  /\ row.status # call[c].target
  /\ call' = [call EXCEPT ![c].pc = "cas", ![c].from = row.status]
  /\ UNCHANGED <<row, past, mailed>>

FindValid(c) ==
  /\ call[c].pc = "find"
  /\ row.status # call[c].target
  /\ IsValidTransition(row.status, call[c].target)
  /\ call' = [call EXCEPT ![c].pc = "cas", ![c].from = row.status]
  /\ UNCHANGED <<row, past, mailed>>

\* Defect for the mutants: the columns are replaced, not COALESCEd.
RowAfterNoCoalesce(to) ==
  [row EXCEPT !.status = to, !.stamps = StampOf(to)]

RowAfter(to) ==
  [row EXCEPT !.status = to, !.stamps = @ \union StampOf(to)]

\* Defect for the mutants: UPDATE without "AND status = $8".
CasMatchesBlind(c) == call[c].pc = "cas"

\* The UPDATE of TransitionStatus finds the row still in the status read.
CasMatches(c) == call[c].pc = "cas" /\ row.status = call[c].from

\* Defect for the mutants: the order returned is the one Find read.
CasReturnsOld(c) ==
  /\ CasMatches(c)
  /\ row' = RowAfter(call[c].target)
  /\ call' = [call EXCEPT ![c].pc = "notify", ![c].moved = TRUE,
                          ![c].order = row]
  /\ past' = past \union {Progress(row')}
  /\ UNCHANGED mailed

Cas(c) ==
  /\ CasMatches(c)
  /\ row' = RowAfter(call[c].target)
  /\ call' = [call EXCEPT ![c].pc = "notify", ![c].moved = TRUE,
                          ![c].order = row']
  /\ past' = past \union {Progress(row')}
  /\ UNCHANGED mailed

CasMisses(c) ==
  /\ call[c].pc = "cas"
  /\ row.status # call[c].from
  /\ call' = [call EXCEPT ![c].pc = "recheck"]
  /\ UNCHANGED <<row, past, mailed>>

(***************************************************************************)
(* Defects for the mutants: a call that lost the race announces the move   *)
(* as well; a call that lost the race tries its stale UPDATE again; a call *)
(* that lost the race reports success.                                     *)
(***************************************************************************)
RecheckAnnounces(c) ==
  /\ call[c].pc = "recheck"
  /\ IF row.status = call[c].target
     THEN call' = [call EXCEPT ![c].pc = "notify", ![c].order = row]
     ELSE Answer(c, "conflict")
  /\ UNCHANGED <<row, past, mailed>>

RecheckRetries(c) ==
  /\ call[c].pc = "recheck"
  /\ IF row.status = call[c].target
     THEN Answer(c, "ok")
     ELSE call' = [call EXCEPT ![c].pc = "cas"]
  /\ UNCHANGED <<row, past, mailed>>

RecheckAccepts(c) ==
  /\ call[c].pc = "recheck"
  /\ Answer(c, "ok")
  /\ UNCHANGED <<row, past, mailed>>

\* No row was updated: FindByID tells a repeated move from an overtaken one.
Recheck(c) ==
  /\ call[c].pc = "recheck"
  /\ Answer(c, IF row.status = call[c].target THEN "ok" ELSE "conflict")
  /\ UNCHANGED <<row, past, mailed>>

(***************************************************************************)
(* NotifyTransition returns nothing: a refused e-mail is logged and the    *)
(* call succeeds all the same.                                             *)
(***************************************************************************)
NotifySent(c) ==
  /\ call[c].pc = "notify"
  /\ call' = [call EXCEPT ![c].pc = "return"]
  /\ mailed' = mailed \union {c}
  /\ UNCHANGED <<row, past>>

NotifyRefused(c) ==
  /\ call[c].pc = "notify"
  /\ call' = [call EXCEPT ![c].pc = "return"]
  /\ UNCHANGED <<row, past, mailed>>

\* Defect for the mutants: a call does not announce while another does.
NotifyAlone(c) ==
  /\ \A d \in Calls \ {c} : call[d].pc # "notify"
  /\ NotifySent(c) \/ NotifyRefused(c)

Notify(c) == NotifySent(c) \/ NotifyRefused(c)

Return(c) ==
  /\ call[c].pc = "return"
  /\ call' = [call EXCEPT ![c].pc = "done", ![c].result = "ok"]
  /\ UNCHANGED <<row, past, mailed>>

(***************************************************************************)
(* Failures: a statement returns an error, or the replica dies with the    *)
(* call; the UPDATE commits and its reply is lost, so that the status has  *)
(* changed and nobody is told.                                             *)
(***************************************************************************)
Fail(c) ==
  /\ Faults
  /\ call[c].pc \in {"find", "cas", "recheck", "notify", "return"}
  /\ call' = [call EXCEPT ![c].pc = "done", ![c].result = "error"]
  /\ UNCHANGED <<row, past, mailed>>

CasReplyLost(c) ==
  /\ Faults
  /\ CasMatches(c)
  /\ row' = RowAfter(call[c].target)
  /\ call' = [call EXCEPT ![c].pc = "done", ![c].moved = TRUE,
                          ![c].result = "error"]
  /\ past' = past \union {Progress(row')}
  /\ UNCHANGED mailed

(***************************************************************************)
(* WorkOrderRepository.Update, called after a read of the row: it writes   *)
(* back the status and timestamps as they were read, whatever was written  *)
(* since, with the quote columns its caller computed.                      *)
(***************************************************************************)
OtherWrite ==
  /\ row' \in Rows
  /\ Progress(row') \in past
  /\ UNCHANGED <<call, past, mailed>>

Find(c) == FindSame(c) \/ FindInvalid(c) \/ FindValid(c)

TransitionStep(c) ==
  Find(c) \/ Cas(c) \/ CasMisses(c) \/ Recheck(c) \/ Notify(c) \/ Return(c)

TransitionNext ==
  \E c \in Calls :
    \/ \E to \in WorkOrderStatuses : Invoke(c, to)
    \/ TransitionStep(c)
    \/ Fail(c)
    \/ CasReplyLost(c)

TransitionSpec == TransitionInit /\ [][TransitionNext]_transitionVars

\* TransitionTo among other handlers: the contract they keep with it.
SharedNext == TransitionNext \/ OtherWrite

SharedSpec == TransitionInit /\ [][SharedNext]_transitionVars

\* A goroutine that serves a request runs on, unless a fault ends it.
TransitionFairSpec ==
  TransitionSpec /\ \A c \in Calls : WF_transitionVars(TransitionStep(c))

-----------------------------------------------------------------------------
(***************************************************************************)
(* Properties that hold whoever else writes the row.                       *)
(***************************************************************************)

(***************************************************************************)
(* The timestamp columns always tell the status: exactly the columns of    *)
(* the statuses on the way are set.  A stale full-row write restores both  *)
(* together, so they never disagree even when the status goes back.        *)
(***************************************************************************)
StampsMatchStatus == row.stamps = StampsAt(row.status)

(***************************************************************************)
(* Every status the order has ever had was reached along the table from    *)
(* another it has had: no interleaving of calls and stale writes puts the  *)
(* order in a status it could not have earned.                             *)
(***************************************************************************)
PastConnected ==
  /\ Progress(row) \in past
  /\ \A p \in past :
       \/ p.status \in InitialStatuses
       \/ \E q \in past : IsValidTransition(q.status, p.status)

(***************************************************************************)
(* A call that reports success was right: the order did enter the status   *)
(* asked for, by this call or by another, also when this call lost the     *)
(* race and learned it from the second read.                               *)
(***************************************************************************)
OkMeansEntered ==
  \A c \in Calls :
    call[c].result = "ok" => \E p \in past : p.status = call[c].target

-----------------------------------------------------------------------------
(***************************************************************************)
(* Properties that hold when only TransitionTo writes the status.          *)
(***************************************************************************)

(***************************************************************************)
(* The status changes along the transition table and in no other way,      *)
(* whatever status each of the racing calls had read.                      *)
(***************************************************************************)
StatusFollowsTable ==
  [][IsValidTransition(row.status, row'.status)]_(row.status)

(***************************************************************************)
(* At most one call moves the order into a given status: of several that   *)
(* race for the same move one wins and the others only observe it.         *)
(***************************************************************************)
OneMoverPerStatus ==
  \A c, d \in Calls :
    c # d /\ call[c].moved /\ call[d].moved => call[c].target # call[d].target

(***************************************************************************)
(* A conflict is never spurious: the call that reports it was overtaken by *)
(* a call that moved the order out of the very status this one had read.   *)
(***************************************************************************)
ConflictMeansOvertaken ==
  \A c \in Calls :
    call[c].result = "conflict" =>
      \E d \in Calls \ {c} : call[d].moved /\ call[d].from = call[c].from

(***************************************************************************)
(* README, notification policy: repeated transitions to one status do not  *)
(* send the customer the same e-mail again.                                *)
(***************************************************************************)
NoDuplicateNotice ==
  \A c, d \in mailed : c # d => call[c].target # call[d].target

\* Every call is answered, however the others interleave with it.
EveryCallAnswered ==
  \A c \in Calls : call[c].pc = "find" ~> call[c].pc = "done"

\* The calls implement the lifecycle the status service promises.
Lifecycle ==
  INSTANCE OrderLifecycle WITH
    status <- row.status,
    owed   <- {call[c].target : c \in {d \in Calls : call[d].pc = "notify"}},
    told   <- {call[c].target : c \in mailed}

ImplementsLifecycle == Lifecycle!Spec
SettlesNotices == Lifecycle!FairSpec
=============================================================================
