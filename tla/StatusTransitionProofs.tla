------------------------ MODULE StatusTransitionProofs ------------------------
(***************************************************************************)
(* Theorems about StatusTransition, for any number of calls, any initial   *)
(* status and whatever the faults do: first among the other writers of the *)
(* row (SharedSpec), then among handlers that write it without changing    *)
(* the status (OwnedSpec), of which TransitionTo alone is a case.          *)
(***************************************************************************)
EXTENDS StatusTransition, TLAPS

-----------------------------------------------------------------------------
(***************************************************************************)
(* The transition table.                                                   *)
(***************************************************************************)
\* The table names statuses only.
LEMMA AllowedTargets ==
  ASSUME NEW from \in WorkOrderStatuses
  PROVE  AllowedTransitions[from] \subseteq WorkOrderStatuses
  BY DEF AllowedTransitions, WorkOrderStatuses, Received, InDiagnosis,
         WaitingApproval, Approved, InProgress, Finished, Delivered, Canceled

LEMMA StampTypes ==
  ASSUME NEW s \in WorkOrderStatuses
  PROVE  StampOf(s) \in SUBSET Stamps /\ StampsAt(s) \in SUBSET Stamps
  BY DEF StampOf, StampsAt, Stamps

\* Entering a status adds its own column to those of the status before it.
LEMMA StampsAlongTable ==
  ASSUME NEW from \in WorkOrderStatuses, NEW to \in WorkOrderStatuses,
         IsValidTransition(from, to)
  PROVE  StampsAt(to) = StampsAt(from) \union StampOf(to)
  BY DEF IsValidTransition, AllowedTransitions, StampOf, StampsAt, Stamps,
         WorkOrderStatuses, Received, InDiagnosis, WaitingApproval, Approved,
         InProgress, Finished, Delivered, Canceled

\* The table has no cycle: every move goes to a higher rank.
LEMMA RankIncreases ==
  ASSUME NEW from \in WorkOrderStatuses, NEW to \in WorkOrderStatuses,
         IsValidTransition(from, to)
  PROVE  Rank(from) \in Nat /\ Rank(to) \in Nat /\ Rank(from) < Rank(to)
  BY DEF IsValidTransition, AllowedTransitions, Rank, WorkOrderStatuses,
         Received, InDiagnosis, WaitingApproval, Approved, InProgress,
         Finished, Delivered, Canceled

LEMMA RankType == ASSUME NEW s PROVE Rank(s) \in Nat
  BY DEF Rank

-----------------------------------------------------------------------------
(***************************************************************************)
(* Type correctness.                                                       *)
(***************************************************************************)
LEMMA FirstRowType ==
  ASSUME NEW s \in WorkOrderStatuses
  PROVE  FirstRow(s) \in Rows /\ Progress(FirstRow(s)) \in PastRows
  BY TransitionAssumption, StampTypes DEF FirstRow, Rows, PastRows, Progress

LEMMA NoOrderType == NoOrder \in Rows /\ Received \in WorkOrderStatuses
  BY FirstRowType DEF NoOrder, Received, WorkOrderStatuses

LEMMA RowAfterType ==
  ASSUME row \in Rows, NEW to \in WorkOrderStatuses
  PROVE  RowAfter(to) \in Rows /\ Progress(RowAfter(to)) \in PastRows
  BY StampTypes DEF RowAfter, Rows, PastRows, Progress

LEMMA TypeInit == TransitionInit => TransitionTypeOK
  BY TransitionAssumption, FirstRowType, NoOrderType
  DEF TransitionInit, TransitionTypeOK, IdleCall, CallRecords

\* One call gets a new record; the others keep theirs.
LEMMA UpdateType ==
  ASSUME TransitionTypeOK, NEW c \in Calls, NEW new \in CallRecords,
         call' = [call EXCEPT ![c] = new]
  PROVE  call' \in [Calls -> CallRecords]
  BY DEF TransitionTypeOK

LEMMA AnswerType ==
  ASSUME TransitionTypeOK, NEW c \in Calls,
         NEW result \in {"ok", "refused", "conflict"}, Answer(c, result)
  PROVE  call' \in [Calls -> CallRecords]
<1>1. [call[c] EXCEPT !.pc = "done", !.result = result, !.order = row]
        \in CallRecords
  BY DEF TransitionTypeOK, CallRecords
<1>2. call' = [call EXCEPT ![c] = [call[c] EXCEPT !.pc = "done",
                                     !.result = result, !.order = row]]
  BY DEF Answer, TransitionTypeOK
<1>3. QED
  BY <1>1, <1>2, UpdateType

LEMMA TypeStep ==
  TransitionTypeOK /\ [SharedNext]_transitionVars => TransitionTypeOK'
<1> SUFFICES ASSUME TransitionTypeOK, [SharedNext]_transitionVars
             PROVE  TransitionTypeOK'
  OBVIOUS
<1> USE DEF TransitionTypeOK
<1>1. ASSUME NEW c \in Calls, NEW to \in WorkOrderStatuses, Invoke(c, to)
      PROVE  TransitionTypeOK'
  <2>1. [call[c] EXCEPT !.pc = "find", !.target = to] \in CallRecords
    BY DEF CallRecords
  <2>2. call' = [call EXCEPT ![c] = [call[c] EXCEPT !.pc = "find",
                                                    !.target = to]]
    BY <1>1 DEF Invoke
  <2>3. QED
    BY <1>1, <2>1, <2>2, UpdateType DEF Invoke
<1>2. ASSUME NEW c \in Calls, Find(c)
      PROVE  TransitionTypeOK'
  <2>1. CASE FindSame(c)
    BY <2>1, AnswerType DEF FindSame
  <2>2. CASE FindInvalid(c)
    BY <2>2, AnswerType DEF FindInvalid
  <2>3. CASE FindValid(c)
    <3>1. row.status \in WorkOrderStatuses
      BY DEF Rows
    <3>2. [call[c] EXCEPT !.pc = "cas", !.from = row.status] \in CallRecords
      BY <3>1 DEF CallRecords
    <3>3. call' = [call EXCEPT ![c] = [call[c] EXCEPT !.pc = "cas",
                                                      !.from = row.status]]
      BY <2>3 DEF FindValid
    <3>4. QED
      BY <2>3, <3>2, <3>3, UpdateType DEF FindValid
  <2>4. QED
    BY <1>2, <2>1, <2>2, <2>3 DEF Find
<1>3. ASSUME NEW c \in Calls, Cas(c) \/ CasReplyLost(c)
      PROVE  TransitionTypeOK'
  <2>1. call[c].target \in WorkOrderStatuses
    BY DEF CallRecords
  <2>2. row' \in Rows /\ Progress(row') \in PastRows
    BY <1>3, <2>1, RowAfterType DEF Cas, CasReplyLost
  <2>3. past' \subseteq PastRows /\ mailed' \subseteq Calls
    BY <1>3, <2>2 DEF Cas, CasReplyLost
  <2>4. call' \in [Calls -> CallRecords]
    BY <1>3, <2>2 DEF Cas, CasReplyLost, CallRecords
  <2>5. QED
    BY <2>2, <2>3, <2>4
<1>4. ASSUME NEW c \in Calls, CasMisses(c)
      PROVE  TransitionTypeOK'
  BY <1>4 DEF CasMisses, CallRecords
<1>5. ASSUME NEW c \in Calls, Recheck(c)
      PROVE  TransitionTypeOK'
  BY <1>5, AnswerType DEF Recheck
<1>6. ASSUME NEW c \in Calls, Notify(c)
      PROVE  TransitionTypeOK'
  BY <1>6 DEF Notify, NotifySent, NotifyRefused, CallRecords
<1>7. ASSUME NEW c \in Calls, Return(c)
      PROVE  TransitionTypeOK'
  <2>1. [call[c] EXCEPT !.pc = "done", !.result = "ok"] \in CallRecords
    BY DEF CallRecords
  <2>2. call' = [call EXCEPT ![c] = [call[c] EXCEPT !.pc = "done",
                                                    !.result = "ok"]]
    BY <1>7 DEF Return
  <2>3. QED
    BY <1>7, <2>1, <2>2, UpdateType DEF Return
<1>8. ASSUME NEW c \in Calls, Fail(c)
      PROVE  TransitionTypeOK'
  <2>1. [call[c] EXCEPT !.pc = "done", !.result = "error"] \in CallRecords
    BY DEF CallRecords
  <2>2. call' = [call EXCEPT ![c] = [call[c] EXCEPT !.pc = "done",
                                                    !.result = "error"]]
    BY <1>8 DEF Fail
  <2>3. QED
    BY <1>8, <2>1, <2>2, UpdateType DEF Fail
<1>9. CASE OtherWrite
  BY <1>9 DEF OtherWrite
<1>10. CASE UNCHANGED transitionVars
  BY <1>10 DEF transitionVars
<1>11. QED
  BY <1>1, <1>2, <1>3, <1>4, <1>5, <1>6, <1>7, <1>8, <1>9, <1>10
  DEF SharedNext, TransitionNext, TransitionStep

(***************************************************************************)
(* The variables keep their types: a call is always at a step of           *)
(* TransitionTo, and the row always holds a status of the table.           *)
(***************************************************************************)
THEOREM TypeCorrect == SharedSpec => []TransitionTypeOK
  BY TypeInit, TypeStep, PTL DEF SharedSpec

-----------------------------------------------------------------------------
(***************************************************************************)
(* What a step does to the row.                                            *)
(***************************************************************************)
Moves(c) == Cas(c) \/ CasReplyLost(c)

LEMMA StepKinds ==
  ASSUME [SharedNext]_transitionVars
  PROVE  \/ \E c \in Calls : Moves(c)
         \/ OtherWrite
         \/ UNCHANGED <<row, past>>
  BY DEF SharedNext, TransitionNext, TransitionStep, transitionVars, Moves, Invoke, Find,
         FindSame, FindInvalid, FindValid, CasMisses, Recheck, Notify,
         NotifySent, NotifyRefused, Return, Fail

(***************************************************************************)
(* Handlers that leave the status to TransitionTo: they may write the row  *)
(* back, but with the status it has.                                       *)
(***************************************************************************)
QuietWrite == OtherWrite /\ row'.status = row.status

OwnedNext == TransitionNext \/ QuietWrite

OwnedSpec == TransitionInit /\ [][OwnedNext]_transitionVars

LEMMA StepKindsOwned ==
  ASSUME [OwnedNext]_transitionVars
  PROVE  \/ \E c \in Calls : Moves(c)
         \/ row'.status = row.status
  BY DEF OwnedNext, QuietWrite, TransitionNext, TransitionStep, transitionVars,
         Moves, Invoke, Find, FindSame, FindInvalid, FindValid, CasMisses,
         Recheck, Notify, NotifySent, NotifyRefused, Return, Fail

LEMMA OwnedStep ==
  [OwnedNext]_transitionVars => [SharedNext]_transitionVars
  BY DEF OwnedNext, QuietWrite, SharedNext

LEMMA OwnedIsShared == OwnedSpec => SharedSpec
  BY OwnedStep, PTL DEF OwnedSpec, SharedSpec

\* TransitionTo alone is the case in which nobody writes.
LEMMA AloneIsOwned == TransitionSpec => OwnedSpec
<1>1. [TransitionNext]_transitionVars => [OwnedNext]_transitionVars
  BY DEF OwnedNext
<1>2. QED
  BY <1>1, PTL DEF TransitionSpec, OwnedSpec

(***************************************************************************)
(* What a step does to one call: nothing, or it is a step of that call.    *)
(***************************************************************************)
LEMMA OwnSteps ==
  ASSUME TransitionTypeOK, [SharedNext]_transitionVars, NEW d \in Calls
  PROVE  \/ call'[d] = call[d]
         \/ \E to \in WorkOrderStatuses : Invoke(d, to)
         \/ FindSame(d) \/ FindInvalid(d) \/ FindValid(d)
         \/ Cas(d) \/ CasReplyLost(d) \/ CasMisses(d) \/ Recheck(d)
         \/ NotifySent(d) \/ NotifyRefused(d) \/ Return(d) \/ Fail(d)
<1> USE DEF TransitionTypeOK
<1>1. ASSUME NEW c \in Calls \ {d}, NEW to \in WorkOrderStatuses, Invoke(c, to)
      PROVE  call'[d] = call[d]
  BY <1>1 DEF Invoke
<1>2. ASSUME NEW c \in Calls \ {d}, Find(c)
      PROVE  call'[d] = call[d]
  BY <1>2 DEF Find, FindSame, FindInvalid, FindValid, Answer
<1>3. ASSUME NEW c \in Calls \ {d},
             Cas(c) \/ CasReplyLost(c) \/ CasMisses(c) \/ Recheck(c)
      PROVE  call'[d] = call[d]
  BY <1>3 DEF Cas, CasReplyLost, CasMisses, Recheck, Answer
<1>4. ASSUME NEW c \in Calls \ {d}, Notify(c) \/ Return(c) \/ Fail(c)
      PROVE  call'[d] = call[d]
  BY <1>4 DEF Notify, NotifySent, NotifyRefused, Return, Fail
<1>5. CASE OtherWrite \/ UNCHANGED transitionVars
  BY <1>5 DEF OtherWrite, transitionVars
<1>6. QED
  BY <1>1, <1>2, <1>3, <1>4, <1>5
  DEF SharedNext, TransitionNext, TransitionStep, Find, Notify

(***************************************************************************)
(* A call only reaches its UPDATE after the table allowed its move.        *)
(***************************************************************************)
CasIsAllowed ==
  \A c \in Calls :
    call[c].pc = "cas" => IsValidTransition(call[c].from, call[c].target)

LEMMA CasIsAllowedInit == TransitionInit => CasIsAllowed
  BY DEF TransitionInit, IdleCall, CasIsAllowed

LEMMA CasIsAllowedStep ==
  TransitionTypeOK /\ CasIsAllowed /\ [SharedNext]_transitionVars
    => CasIsAllowed'
<1> SUFFICES ASSUME TransitionTypeOK, CasIsAllowed,
                    [SharedNext]_transitionVars,
                    NEW d \in Calls, call'[d].pc = "cas"
             PROVE  IsValidTransition(call'[d].from, call'[d].target)
  BY DEF CasIsAllowed
<1> USE DEF TransitionTypeOK, CallRecords
<1>1. CASE call'[d] = call[d]
  BY <1>1 DEF CasIsAllowed
<1>2. CASE FindValid(d)
  BY <1>2 DEF FindValid
<1>3. ASSUME NEW to \in WorkOrderStatuses PROVE ~ Invoke(d, to)
  BY DEF Invoke
<1>4. ~ (FindSame(d) \/ FindInvalid(d) \/ CasMisses(d) \/ Recheck(d))
  BY DEF FindSame, FindInvalid, CasMisses, Recheck, Answer
<1>5. ~ (Cas(d) \/ CasReplyLost(d))
  BY DEF Cas, CasReplyLost
<1>6. ~ (NotifySent(d) \/ NotifyRefused(d) \/ Return(d) \/ Fail(d))
  BY DEF NotifySent, NotifyRefused, Return, Fail
<1>7. QED
  BY <1>1, <1>2, <1>3, <1>4, <1>5, <1>6, OwnSteps

-----------------------------------------------------------------------------
(***************************************************************************)
(* The history of the order.                                               *)
(***************************************************************************)
PastInv ==
  /\ \A p \in past : p.stamps = StampsAt(p.status)
  /\ PastConnected

LEMMA PastInvInit == TransitionInit => PastInv
  BY DEF TransitionInit, PastInv, PastConnected, Progress, FirstRow

LEMMA PastInvStep ==
  ASSUME TransitionTypeOK, CasIsAllowed, PastInv,
         [SharedNext]_transitionVars
  PROVE  PastInv'
<1>1. ASSUME NEW c \in Calls, Moves(c)
      PROVE  PastInv'
  <2> DEFINE to == call[c].target
             new == Progress(row')
  <2>1. /\ row.status \in WorkOrderStatuses /\ to \in WorkOrderStatuses
        /\ row.stamps \in SUBSET Stamps
    BY DEF TransitionTypeOK, Rows, CallRecords
  <2>2. /\ row' = RowAfter(to) /\ past' = past \union {new}
        /\ IsValidTransition(row.status, to)
    BY <1>1 DEF Moves, Cas, CasReplyLost, CasMatches, CasIsAllowed
  <2>3. row'.status = to /\ row'.stamps = row.stamps \union StampOf(to)
    BY <2>2 DEF RowAfter, TransitionTypeOK, Rows
  <2>4. new.status = to /\ new.stamps = row.stamps \union StampOf(to)
    BY <2>3 DEF Progress
  <2>5. Progress(row) \in past /\ Progress(row).status = row.status
    BY DEF PastInv, PastConnected, Progress
  <2>6. row.stamps = StampsAt(row.status)
    BY <2>5 DEF PastInv, Progress
  <2>7. new.stamps = StampsAt(new.status)
    BY <2>1, <2>2, <2>4, <2>6, StampsAlongTable
  <2>8. \A p \in past' : p.stamps = StampsAt(p.status)
    BY <2>2, <2>7 DEF PastInv
  <2>9. \E q \in past : IsValidTransition(q.status, new.status)
    BY <2>2, <2>4, <2>5
  <2>10. PastConnected'
    BY <2>2, <2>9 DEF PastInv, PastConnected
  <2>11. QED
    BY <2>8, <2>10 DEF PastInv
<1>2. CASE OtherWrite
  BY <1>2 DEF OtherWrite, PastInv, PastConnected
<1>3. CASE UNCHANGED <<row, past>>
  BY <1>3 DEF PastInv, PastConnected, Progress
<1>4. QED
  BY <1>1, <1>2, <1>3, StepKinds

HistoryInv == TransitionTypeOK /\ CasIsAllowed /\ PastInv

LEMMA HistoryInvariant == SharedSpec => []HistoryInv
<1>1. TransitionInit => HistoryInv
  BY TypeInit, CasIsAllowedInit, PastInvInit DEF HistoryInv
<1>2. HistoryInv /\ [SharedNext]_transitionVars => HistoryInv'
  BY TypeStep, CasIsAllowedStep, PastInvStep DEF HistoryInv
<1>3. QED
  BY <1>1, <1>2, PTL DEF SharedSpec

(***************************************************************************)
(* Whoever writes the row, its timestamps are those of its status: a stale *)
(* row written back by another handler restores both together.             *)
(***************************************************************************)
THEOREM StampsAlwaysMatch == SharedSpec => []StampsMatchStatus
<1>1. HistoryInv => StampsMatchStatus
  <2> SUFFICES ASSUME HistoryInv PROVE row.stamps = StampsAt(row.status)
    BY DEF StampsMatchStatus
  <2>1. Progress(row) \in past
    BY DEF HistoryInv, PastInv, PastConnected
  <2>2. QED
    BY <2>1 DEF HistoryInv, PastInv, Progress
<1>2. QED
  BY <1>1, HistoryInvariant, PTL

(***************************************************************************)
(* Every status the order has had was earned along the transition table,   *)
(* however the calls interleave and whatever stale rows are written back.  *)
(***************************************************************************)
THEOREM PastAlwaysConnected == SharedSpec => []PastConnected
<1>1. HistoryInv => PastConnected
  BY DEF HistoryInv, PastInv
<1>2. QED
  BY <1>1, HistoryInvariant, PTL

-----------------------------------------------------------------------------
(***************************************************************************)
(* The answers of the calls.                                               *)
(***************************************************************************)
Entered(s) == \E p \in past : p.status = s

AnswerInv ==
  \A c \in Calls :
    /\ call[c].pc # "done" => call[c].result = "none"
    /\ call[c].pc \in {"notify", "return"} \/ call[c].result = "ok"
         => Entered(call[c].target)

LEMMA AnswerInvInit == TransitionInit => AnswerInv
  BY DEF TransitionInit, IdleCall, AnswerInv

LEMMA PastGrows ==
  ASSUME [SharedNext]_transitionVars
  PROVE  past \subseteq past'
<1>1. ASSUME NEW c \in Calls, Moves(c) PROVE past \subseteq past'
  BY <1>1 DEF Moves, Cas, CasReplyLost
<1>2. QED
  BY <1>1, StepKinds DEF OtherWrite

LEMMA AnswerInvStep ==
  ASSUME TransitionTypeOK, PastInv, AnswerInv,
         [SharedNext]_transitionVars
  PROVE  AnswerInv'
<1> DEFINE Told(c) == call[c].pc \in {"notify", "return"} \/ call[c].result = "ok"
<1> SUFFICES ASSUME NEW d \in Calls
             PROVE  /\ call'[d].pc # "done" => call'[d].result = "none"
                    /\ Told(d)' => Entered(call[d].target)'
  BY DEF AnswerInv
<1> USE DEF TransitionTypeOK, CallRecords
<1>1. ASSUME NEW s, Entered(s) PROVE \E p \in past' : p.status = s
  BY <1>1, PastGrows DEF Entered
<1>2. Entered(row.status)
  BY DEF PastInv, PastConnected, Progress, Entered
<1>3. /\ call[d].pc # "done" => call[d].result = "none"
      /\ Told(d) => Entered(call[d].target)
  BY DEF AnswerInv
<1>4. CASE call'[d] = call[d]
  BY <1>1, <1>3, <1>4 DEF Entered
<1>5. ASSUME NEW to \in WorkOrderStatuses, Invoke(d, to)
      PROVE  /\ call'[d].pc # "done" => call'[d].result = "none"
             /\ ~ Told(d)'
  BY <1>3, <1>5 DEF Invoke
<1>6. CASE FindSame(d) \/ FindInvalid(d) \/ Recheck(d)
  <2>1. /\ call'[d].pc = "done" /\ call'[d].target = call[d].target
        /\ call'[d].result = "ok" => call[d].target = row.status
    BY <1>6 DEF FindSame, FindInvalid, Recheck, Answer
  <2>2. QED
    BY <1>1, <1>2, <2>1 DEF Entered
<1>7. CASE FindValid(d) \/ CasMisses(d)
  BY <1>3, <1>7 DEF FindValid, CasMisses
<1>8. CASE Cas(d)
  <2>1. /\ call'[d].pc = "notify" /\ call'[d].result = call[d].result
        /\ call'[d].target = call[d].target /\ call[d].pc = "cas"
    BY <1>8 DEF Cas, CasMatches
  <2>2. Progress(row') \in past' /\ Progress(row').status = call[d].target
    BY <1>8 DEF Cas, RowAfter, Progress, Rows
  <2>3. QED
    BY <1>3, <2>1, <2>2 DEF Entered
<1>9. CASE NotifySent(d) \/ NotifyRefused(d) \/ Return(d)
  <2>1. /\ call'[d].target = call[d].target
        /\ call[d].pc \in {"notify", "return"}
        /\ call'[d].pc # "done" => call'[d].result = call[d].result
    BY <1>9 DEF NotifySent, NotifyRefused, Return
  <2>2. QED
    BY <1>1, <1>3, <2>1 DEF Entered
<1>10. CASE Fail(d) \/ CasReplyLost(d)
  BY <1>10 DEF Fail, CasReplyLost
<1>11. QED
  BY <1>4, <1>5, <1>6, <1>7, <1>8, <1>9, <1>10, OwnSteps

(***************************************************************************)
(* A call that reports success tells the truth: the order did enter the    *)
(* status it asked for, even if a race was lost or a stale row came after. *)
(***************************************************************************)
THEOREM OkAlwaysEntered == SharedSpec => []OkMeansEntered
<1>1. TransitionInit => AnswerInv
  BY AnswerInvInit
<1>2. HistoryInv /\ AnswerInv /\ [SharedNext]_transitionVars => AnswerInv'
  BY AnswerInvStep DEF HistoryInv
<1>3. AnswerInv => OkMeansEntered
  BY DEF AnswerInv, OkMeansEntered, Entered
<1>4. QED
  BY <1>1, <1>2, <1>3, HistoryInvariant, PTL DEF SharedSpec

-----------------------------------------------------------------------------
(***************************************************************************)
(* The race of the calls, when only they write the status.                 *)
(***************************************************************************)
LEMMA MoveFollowsTable ==
  ASSUME HistoryInv, NEW c \in Calls, Moves(c)
  PROVE  /\ row.status = call[c].from
         /\ row'.status = call[c].target
         /\ IsValidTransition(row.status, row'.status)
         /\ row.status \in WorkOrderStatuses /\ row'.status \in WorkOrderStatuses
         /\ call'[c].moved /\ call'[c].pc \in {"notify", "done"}
         /\ call'[c].target = call[c].target /\ call'[c].from = call[c].from
         /\ \A d \in Calls \ {c} : call'[d] = call[d]
<1> USE DEF HistoryInv, TransitionTypeOK, CallRecords, Rows
<1>1. row.status = call[c].from /\ IsValidTransition(row.status, call[c].target)
  BY DEF Moves, Cas, CasReplyLost, CasMatches, CasIsAllowed
<1>2. row'.status = call[c].target
  BY DEF Moves, Cas, CasReplyLost, RowAfter
<1>3. /\ call'[c].moved /\ call'[c].pc \in {"notify", "done"}
      /\ call'[c].target = call[c].target /\ call'[c].from = call[c].from
      /\ \A d \in Calls \ {c} : call'[d] = call[d]
  BY DEF Moves, Cas, CasReplyLost
<1>4. QED
  BY <1>1, <1>2, <1>3

(***************************************************************************)
(* The status follows the table for any number of racing calls, whatever   *)
(* status each of them had read before its UPDATE.                         *)
(***************************************************************************)
THEOREM StatusAlwaysFollowsTable ==
  OwnedSpec => StatusFollowsTable
<1>1. HistoryInv /\ [OwnedNext]_transitionVars
        => [IsValidTransition(row.status, row'.status)]_(row.status)
  BY StepKindsOwned, MoveFollowsTable
<1>2. QED
  BY <1>1, HistoryInvariant, OwnedIsShared, PTL DEF OwnedSpec, StatusFollowsTable

LEMMA RankGrows ==
  ASSUME HistoryInv, [OwnedNext]_transitionVars
  PROVE  Rank(row.status) <= Rank(row'.status)
<1>1. ASSUME NEW c \in Calls, Moves(c)
      PROVE  Rank(row.status) <= Rank(row'.status)
  BY <1>1, MoveFollowsTable, RankIncreases
<1>2. CASE row'.status = row.status
  BY <1>2, RankType
<1>3. QED
  BY <1>1, <1>2, StepKindsOwned

(***************************************************************************)
(* The strengthening: a call that moved the order is past its UPDATE, and  *)
(* the order has not been in a lower status since.                         *)
(***************************************************************************)
MoverInv ==
  /\ \A c \in Calls :
       /\ call[c].moved => /\ call[c].pc \in {"notify", "return", "done"}
                           /\ Rank(call[c].target) <= Rank(row.status)
       /\ call[c].pc = "notify" => call[c].moved
  /\ OneMoverPerStatus

LEMMA MoverInvInit == TransitionInit => MoverInv
  BY DEF TransitionInit, IdleCall, MoverInv, OneMoverPerStatus

\* A call that moved the order remembers it; no other step claims a move.
LEMMA MoversStay ==
  ASSUME HistoryInv, MoverInv, [OwnedNext]_transitionVars, NEW d \in Calls
  PROVE  \/ Moves(d)
         \/ /\ call'[d].moved = call[d].moved
            /\ call[d].moved => /\ call'[d].target = call[d].target
                                /\ call'[d].from = call[d].from
                                /\ call'[d].pc \in {"notify", "return", "done"}
<1> USE DEF HistoryInv, TransitionTypeOK, CallRecords, MoverInv
<1>1. ASSUME NEW to \in WorkOrderStatuses, Invoke(d, to)
      PROVE  call'[d].moved = call[d].moved /\ ~ call[d].moved
  BY <1>1 DEF Invoke
<1>2. CASE FindSame(d) \/ FindInvalid(d) \/ FindValid(d)
  BY <1>2 DEF FindSame, FindInvalid, FindValid, Answer
<1>3. CASE CasMisses(d) \/ Recheck(d)
  BY <1>3 DEF CasMisses, Recheck, Answer
<1>4. CASE NotifySent(d) \/ NotifyRefused(d) \/ Return(d) \/ Fail(d)
  BY <1>4 DEF NotifySent, NotifyRefused, Return, Fail
<1>5. CASE call'[d] = call[d]
  BY <1>5
<1>6. QED
  BY <1>1, <1>2, <1>3, <1>4, <1>5, OwnSteps, OwnedStep DEF Moves

LEMMA MoverInvStep ==
  ASSUME HistoryInv, MoverInv,
         [OwnedNext]_transitionVars
  PROVE  MoverInv'
<1>1. ASSUME NEW d \in Calls, call'[d].moved
      PROVE  /\ call'[d].pc \in {"notify", "return", "done"}
             /\ Rank(call'[d].target) <= Rank(row'.status)
  <2>1. CASE Moves(d)
    BY <2>1, MoveFollowsTable, RankType
  <2>2. CASE ~ Moves(d)
    <3>1. /\ call[d].moved /\ call'[d].target = call[d].target
          /\ call'[d].pc \in {"notify", "return", "done"}
      BY <1>1, <2>2, MoversStay
    <3>2. Rank(call[d].target) <= Rank(row.status)
      BY <3>1 DEF MoverInv
    <3>3. Rank(row.status) <= Rank(row'.status)
      BY RankGrows
    <3>4. /\ Rank(call[d].target) \in Nat /\ Rank(row.status) \in Nat
          /\ Rank(row'.status) \in Nat
      BY RankType
    <3>5. Rank(call[d].target) <= Rank(row'.status)
      BY <3>2, <3>3, <3>4
    <3>6. QED
      BY <3>1, <3>5
  <2>3. QED
    BY <2>1, <2>2
<1>2. ASSUME NEW c \in Calls, NEW d \in Calls, c # d, Moves(c), call'[d].moved
      PROVE  call'[c].target # call'[d].target
  <2>1. call'[d] = call[d] /\ Rank(call[d].target) <= Rank(row.status)
    BY <1>2, MoveFollowsTable DEF MoverInv
  <2>2. Rank(row.status) < Rank(call'[c].target)
    BY <1>2, MoveFollowsTable, RankIncreases
  <2>3. QED
    BY <2>1, <2>2, RankType
<1>3. OneMoverPerStatus'
  <2> SUFFICES ASSUME NEW c \in Calls, NEW d \in Calls, c # d,
                      call'[c].moved, call'[d].moved
               PROVE  call'[c].target # call'[d].target
    BY DEF OneMoverPerStatus
  <2>1. CASE Moves(c) \/ Moves(d)
    BY <1>2, <2>1
  <2>2. CASE ~ Moves(c) /\ ~ Moves(d)
    BY <2>2, MoversStay DEF MoverInv, OneMoverPerStatus
  <2>3. QED
    BY <2>1, <2>2
<1>4. ASSUME NEW d \in Calls, call'[d].pc = "notify"
      PROVE  call'[d].moved
  <2> USE DEF HistoryInv, TransitionTypeOK, CallRecords
  <2>1. CASE call'[d] = call[d]
    BY <1>4, <2>1 DEF MoverInv
  <2>2. CASE Cas(d)
    BY <2>2 DEF Cas
  <2>3. ASSUME NEW to \in WorkOrderStatuses PROVE ~ Invoke(d, to)
    BY <1>4 DEF Invoke
  <2>4. ~ (FindSame(d) \/ FindInvalid(d) \/ FindValid(d) \/ Recheck(d))
    BY <1>4 DEF FindSame, FindInvalid, FindValid, Recheck, Answer
  <2>5. ~ (CasReplyLost(d) \/ CasMisses(d))
    BY <1>4 DEF CasReplyLost, CasMisses
  <2>6. ~ (NotifySent(d) \/ NotifyRefused(d) \/ Return(d) \/ Fail(d))
    BY <1>4 DEF NotifySent, NotifyRefused, Return, Fail
  <2>7. QED
    BY <2>1, <2>2, <2>3, <2>4, <2>5, <2>6, OwnSteps, OwnedStep DEF HistoryInv
<1>5. QED
  BY <1>1, <1>3, <1>4 DEF MoverInv

(***************************************************************************)
(* Of any number of calls that race for one status, one moves the order.   *)
(***************************************************************************)
THEOREM AlwaysOneMover ==
  OwnedSpec => []OneMoverPerStatus
<1>1. HistoryInv /\ MoverInv /\ [OwnedNext]_transitionVars => MoverInv'
  BY MoverInvStep
<1>2. MoverInv => OneMoverPerStatus
  BY DEF MoverInv
<1>3. QED
  BY <1>1, <1>2, MoverInvInit, HistoryInvariant, OwnedIsShared, PTL DEF OwnedSpec

(***************************************************************************)
(* A call whose UPDATE found the status changed was overtaken by a call    *)
(* that moved the order out of the status it had read.                     *)
(***************************************************************************)
Overtaken(c) ==
  \E d \in Calls \ {c} : call[d].moved /\ call[d].from = call[c].from

OvertakenInv ==
  \A c \in Calls :
    \/ call[c].pc = "cas" /\ row.status # call[c].from
    \/ call[c].pc = "recheck"
    \/ call[c].result = "conflict"
    => Overtaken(c)

LEMMA OvertakenInvInit == TransitionInit => OvertakenInv
  BY DEF TransitionInit, IdleCall, OvertakenInv

LEMMA OvertakenInvStep ==
  ASSUME HistoryInv, MoverInv, AnswerInv, OvertakenInv,
         [OwnedNext]_transitionVars
  PROVE  OvertakenInv'
<1> SUFFICES ASSUME NEW c \in Calls,
                    \/ call'[c].pc = "cas" /\ row'.status # call'[c].from
                    \/ call'[c].pc = "recheck"
                    \/ call'[c].result = "conflict"
             PROVE  \E d \in Calls \ {c} :
                      call'[d].moved /\ call'[d].from = call'[c].from
  BY DEF OvertakenInv, Overtaken
<1> USE DEF TransitionTypeOK, CallRecords
<1>1. ASSUME Overtaken(c), call'[c].from = call[c].from
      PROVE  \E d \in Calls \ {c} :
               call'[d].moved /\ call'[d].from = call'[c].from
  <2>1. PICK d \in Calls \ {c} : call[d].moved /\ call[d].from = call[c].from
    BY <1>1 DEF Overtaken
  <2>2. call'[d].moved /\ call'[d].from = call[d].from
    BY <2>1, MoversStay, MoveFollowsTable
  <2>3. QED
    BY <1>1, <2>1, <2>2
<1>2. TransitionTypeOK /\ (call[c].pc # "done" => call[c].result = "none")
  BY DEF HistoryInv, AnswerInv
<1>3. CASE call'[c] = call[c]
  <2>1. CASE Overtaken(c)
    BY <1>1, <1>3, <2>1
  <2>2. CASE ~ Overtaken(c)
    <3>1. call[c].pc = "cas" /\ row.status = call[c].from /\ row'.status # row.status
      BY <1>3, <2>2 DEF OvertakenInv
    <3>2. PICK d \in Calls : Moves(d)
      BY <3>1, StepKindsOwned
    <3>3. /\ call'[d].moved /\ call'[d].pc \in {"notify", "done"}
          /\ call'[d].from = row.status
      BY <3>2, MoveFollowsTable
    <3>4. d # c
      BY <1>3, <3>1, <3>3
    <3>5. QED
      BY <1>3, <3>1, <3>3, <3>4
  <2>3. QED
    BY <2>1, <2>2
<1>4. ASSUME NEW to \in WorkOrderStatuses, Invoke(c, to)
      PROVE  FALSE
  BY <1>2, <1>4 DEF Invoke
<1>5. CASE FindSame(c) \/ FindInvalid(c)
  BY <1>2, <1>5 DEF FindSame, FindInvalid, Answer
<1>6. CASE FindValid(c)
  BY <1>2, <1>6 DEF FindValid
<1>7. CASE Moves(c)
  BY <1>2, <1>7 DEF Moves, Cas, CasReplyLost, CasMatches
<1>8. CASE CasMisses(c) \/ Recheck(c)
  <2>1. Overtaken(c)
    BY <1>8 DEF CasMisses, Recheck, OvertakenInv
  <2>2. call'[c].from = call[c].from
    BY <1>2, <1>8 DEF CasMisses, Recheck, Answer
  <2>3. QED
    BY <1>1, <2>1, <2>2
<1>9. CASE NotifySent(c) \/ NotifyRefused(c) \/ Return(c) \/ Fail(c)
  BY <1>2, <1>9 DEF NotifySent, NotifyRefused, Return, Fail
<1>10. QED
  BY <1>2, <1>3, <1>4, <1>5, <1>6, <1>7, <1>8, <1>9, OwnSteps, OwnedStep DEF Moves

(***************************************************************************)
(* The inductive invariant of the race.                                    *)
(***************************************************************************)
RaceInv == HistoryInv /\ AnswerInv /\ MoverInv /\ OvertakenInv

LEMMA RaceInvariant ==
  OwnedSpec => []RaceInv
<1>1. TransitionInit => AnswerInv /\ MoverInv /\ OvertakenInv
  BY AnswerInvInit, MoverInvInit, OvertakenInvInit
<1>2. RaceInv /\ HistoryInv' /\ [OwnedNext]_transitionVars => RaceInv'
  BY AnswerInvStep, OwnedStep, MoverInvStep, OvertakenInvStep DEF RaceInv, HistoryInv
<1>3. HistoryInv /\ AnswerInv /\ MoverInv /\ OvertakenInv <=> RaceInv
  BY DEF RaceInv
<1>4. QED
  BY <1>1, <1>2, <1>3, HistoryInvariant, OwnedIsShared, PTL DEF OwnedSpec

(***************************************************************************)
(* The error TransitionStatus returns after its second read is never       *)
(* spurious: another call did move the order out of the status read.       *)
(***************************************************************************)
THEOREM ConflictAlwaysOvertaken ==
  OwnedSpec => []ConflictMeansOvertaken
<1>1. RaceInv => ConflictMeansOvertaken
  BY DEF RaceInv, OvertakenInv, Overtaken, ConflictMeansOvertaken
<1>2. QED
  BY <1>1, RaceInvariant, PTL

-----------------------------------------------------------------------------
(***************************************************************************)
(* The calls implement the lifecycle.                                      *)
(***************************************************************************)
Owed == {call[c].target : c \in {d \in Calls : call[d].pc = "notify"}}
Told == {call[c].target : c \in mailed}

\* The instance has the definitions of WorkOrderStatus under its own names.
LEMMA SameTable ==
  /\ Lifecycle!WorkOrderStatuses = WorkOrderStatuses
  /\ Lifecycle!AllowedTransitions = AllowedTransitions
  BY DEF Lifecycle!WorkOrderStatuses, Lifecycle!AllowedTransitions,
         Lifecycle!Received, Lifecycle!InDiagnosis, Lifecycle!WaitingApproval,
         Lifecycle!Approved, Lifecycle!InProgress, Lifecycle!Finished,
         Lifecycle!Delivered, Lifecycle!Canceled,
         WorkOrderStatuses, AllowedTransitions, Received, InDiagnosis,
         WaitingApproval, Approved, InProgress, Finished, Delivered, Canceled

\* Only a call that moved the order, and is through with its notifier, has
\* its e-mail accepted.
MailedInv ==
  \A c \in mailed : call[c].pc \in {"return", "done"} /\ call[c].moved

LEMMA MailedInvStep ==
  ASSUME HistoryInv, MoverInv, MailedInv, [OwnedNext]_transitionVars
  PROVE  /\ MailedInv'
         /\ \A c \in mailed : call'[c].target = call[c].target
<1> USE DEF HistoryInv, TransitionTypeOK, CallRecords
<1>1. ASSUME NEW d \in Calls, call[d].pc \in {"return", "done"}
      PROVE  /\ call'[d].pc \in {"return", "done"}
             /\ call'[d].target = call[d].target
             /\ call'[d].moved = call[d].moved
  <2>1. ASSUME NEW to \in WorkOrderStatuses PROVE ~ Invoke(d, to)
    BY <1>1 DEF Invoke
  <2>2. ~ (FindSame(d) \/ FindInvalid(d) \/ FindValid(d) \/ Recheck(d))
    BY <1>1 DEF FindSame, FindInvalid, FindValid, Recheck
  <2>3. ~ (Cas(d) \/ CasReplyLost(d) \/ CasMisses(d))
    BY <1>1 DEF Cas, CasReplyLost, CasMatches, CasMisses
  <2>4. ~ (NotifySent(d) \/ NotifyRefused(d))
    BY <1>1 DEF NotifySent, NotifyRefused
  <2>5. CASE Return(d) \/ Fail(d)
    BY <1>1, <2>5 DEF Return, Fail
  <2>6. CASE call'[d] = call[d]
    BY <1>1, <2>6
  <2>7. QED
    BY <2>1, <2>2, <2>3, <2>4, <2>5, <2>6, OwnSteps, OwnedStep
<1>2. ASSUME NEW d \in mailed' \ mailed
      PROVE  call'[d].pc \in {"return", "done"} /\ call'[d].moved
  <2>1. NotifySent(d)
    BY <1>2 DEF OwnedNext, QuietWrite, OtherWrite, TransitionNext,
         TransitionStep, transitionVars, Invoke, Find, FindSame, FindInvalid,
         FindValid, CasMisses, Recheck, Notify, NotifySent, NotifyRefused,
         Return, Fail, Cas, CasReplyLost
  <2>2. d \in Calls
    BY <1>2, TypeStep, OwnedStep
  <2>3. QED
    BY <2>1, <2>2 DEF NotifySent, MoverInv
<1>3. QED
  BY <1>1, <1>2 DEF MailedInv

\* A step that moves nothing and announces nothing is a stutter.
LEMMA LifecycleStutter ==
  ASSUME HistoryInv, MoverInv, MailedInv, [OwnedNext]_transitionVars,
         row'.status = row.status /\ UNCHANGED mailed,
         \A d \in Calls : /\ call'[d].pc = "notify" <=> call[d].pc = "notify"
                          /\ call[d].pc = "notify"
                               => call'[d].target = call[d].target
  PROVE  UNCHANGED Lifecycle!vars
<1>1. Owed' = Owed
  BY DEF Owed
<1>2. Told' = Told
  BY MailedInvStep DEF Told
<1>3. QED
  BY <1>1, <1>2 DEF Lifecycle!vars, Owed, Told

LEMMA LifecycleMove ==
  ASSUME HistoryInv, MoverInv, MailedInv, [OwnedNext]_transitionVars,
         NEW c \in Calls, Moves(c)
  PROVE  Lifecycle!Next
<1> PICK to \in WorkOrderStatuses : to = call[c].target
  BY DEF HistoryInv, TransitionTypeOK, CallRecords
<1>1. to \in AllowedTransitions[row.status] /\ row'.status = to
  BY MoveFollowsTable DEF IsValidTransition
<1>2. call[c].pc = "cas" /\ UNCHANGED mailed
  BY DEF Moves, Cas, CasReplyLost, CasMatches
<1>3. /\ call'[c].target = to /\ call'[c].pc \in {"notify", "done"}
      /\ \A d \in Calls \ {c} : call'[d] = call[d]
  BY MoveFollowsTable
<1>4. Owed' \in {Owed, Owed \union {to}}
  <2>1. CASE call'[c].pc = "notify"
    <3>1. Owed' = Owed \union {to}
      BY <1>2, <1>3, <2>1 DEF Owed
    <3>2. QED
      BY <3>1
  <2>2. CASE call'[c].pc = "done"
    <3>1. Owed' = Owed
      BY <1>2, <1>3, <2>2 DEF Owed
    <3>2. QED
      BY <3>1
  <2>3. QED
    BY <1>3, <2>1, <2>2
<1>5. Told' = Told
  BY <1>2, MailedInvStep DEF Told
<1>6. Lifecycle!Move(to)
  BY <1>1, <1>4, <1>5, SameTable DEF Lifecycle!Move, Owed, Told
<1>7. QED
  BY <1>6, SameTable DEF Lifecycle!Next

(***************************************************************************)
(* A call leaves its notifier.  That nothing else owes the same status is  *)
(* what AlwaysOneMover is needed for.                                      *)
(***************************************************************************)
LEMMA LifecycleSettle ==
  ASSUME RaceInv, MailedInv, [OwnedNext]_transitionVars,
         NEW c \in Calls, call[c].pc = "notify",
         NotifySent(c) \/ NotifyRefused(c) \/ Fail(c)
  PROVE  Lifecycle!Next
<1>1. TransitionTypeOK /\ HistoryInv /\ MoverInv
  BY DEF RaceInv, HistoryInv
<1> PICK to \in WorkOrderStatuses : to = call[c].target
  BY <1>1 DEF TransitionTypeOK, CallRecords
<1>2. /\ row' = row
      /\ call'[c].pc # "notify" /\ call'[c].target = to
      /\ \A d \in Calls \ {c} : call'[d] = call[d]
  BY <1>1 DEF TransitionTypeOK, CallRecords, NotifySent, NotifyRefused, Fail
<1>3. \A d \in Calls \ {c} : call[d].pc = "notify" => call[d].target # to
  BY DEF RaceInv, MoverInv, OneMoverPerStatus
<1>4. to \in Owed /\ Owed' = Owed \ {to}
  BY <1>2, <1>3 DEF Owed
<1>5. Told' \in {Told, Told \union {to}}
  <2>1. CASE mailed' = mailed \union {c}
    <3>1. Told' = Told \union {to}
      BY <1>1, <1>2, <2>1, MailedInvStep DEF Told
    <3>2. QED
      BY <3>1
  <2>2. CASE mailed' = mailed
    <3>1. Told' = Told
      BY <1>1, <2>2, MailedInvStep DEF Told
    <3>2. QED
      BY <3>1
  <2>3. QED
    BY <2>1, <2>2 DEF NotifySent, NotifyRefused, Fail
<1>6. Lifecycle!Tell(to) \/ Lifecycle!Drop(to)
  BY <1>2, <1>4, <1>5 DEF Lifecycle!Tell, Lifecycle!Drop, Owed, Told
<1>7. QED
  BY <1>6, SameTable DEF Lifecycle!Next, Lifecycle!Settle

LEMMA LifecycleStep ==
  ASSUME RaceInv, MailedInv,
         [OwnedNext]_transitionVars
  PROVE  [Lifecycle!Next]_(Lifecycle!vars)
<1>1. TransitionTypeOK /\ HistoryInv /\ MoverInv
  BY DEF RaceInv, HistoryInv
<1> USE <1>1 DEF TransitionTypeOK, CallRecords
<1>2. ASSUME NEW c \in Calls, NEW to \in WorkOrderStatuses, Invoke(c, to)
      PROVE  UNCHANGED Lifecycle!vars
  <2>1. row'.status = row.status /\ UNCHANGED mailed
    BY <1>2 DEF Invoke
  <2>2. call'[c].pc # "notify" /\ call[c].pc # "notify"
    BY <1>2 DEF Invoke
  <2>3. \A d \in Calls \ {c} : call'[d] = call[d]
    BY <1>2 DEF Invoke
  <2>4. QED
    BY <2>1, <2>2, <2>3, LifecycleStutter
<1>3. ASSUME NEW c \in Calls,
             Find(c) \/ CasMisses(c) \/ Recheck(c) \/ Return(c)
      PROVE  UNCHANGED Lifecycle!vars
  <2> USE DEF Find, FindSame, FindInvalid, FindValid, CasMisses, Recheck,
              Return, Answer
  <2>1. row'.status = row.status /\ UNCHANGED mailed
    BY <1>3
  <2>2. call'[c].pc # "notify" /\ call[c].pc # "notify"
    BY <1>3
  <2>3. \A d \in Calls \ {c} : call'[d] = call[d]
    BY <1>3
  <2>4. QED
    BY <2>1, <2>2, <2>3, LifecycleStutter
<1>4. ASSUME NEW c \in Calls, Moves(c)
      PROVE  Lifecycle!Next
  BY <1>4, LifecycleMove
<1>5. ASSUME NEW c \in Calls, Notify(c)
      PROVE  Lifecycle!Next
  BY <1>5, LifecycleSettle DEF Notify, NotifySent, NotifyRefused
<1>6. ASSUME NEW c \in Calls, Fail(c)
      PROVE  Lifecycle!Next \/ UNCHANGED Lifecycle!vars
  <2>1. CASE call[c].pc = "notify"
    BY <1>6, <2>1, LifecycleSettle
  <2>2. CASE call[c].pc # "notify"
    <3>1. row'.status = row.status /\ UNCHANGED mailed
      BY <1>6 DEF Fail
    <3>2. call'[c].pc # "notify"
      BY <1>6 DEF Fail
    <3>3. \A d \in Calls \ {c} : call'[d] = call[d]
      BY <1>6 DEF Fail
    <3>4. QED
      BY <2>2, <3>1, <3>2, <3>3, LifecycleStutter
  <2>3. QED
    BY <2>1, <2>2
<1>7. CASE UNCHANGED transitionVars
  BY <1>7, LifecycleStutter DEF transitionVars
<1>8. CASE QuietWrite
  BY <1>8, LifecycleStutter DEF QuietWrite, OtherWrite
<1>9. QED
  BY <1>2, <1>3, <1>4, <1>5, <1>6, <1>7, <1>8
  DEF OwnedNext, TransitionNext, TransitionStep, Moves

LEMMA MailedInvariant ==
  OwnedSpec => []MailedInv
<1>1. TransitionInit => MailedInv
  BY DEF TransitionInit, MailedInv
<1>2. RaceInv /\ MailedInv /\ [OwnedNext]_transitionVars => MailedInv'
  BY MailedInvStep DEF RaceInv
<1>3. QED
  BY <1>1, <1>2, RaceInvariant, PTL DEF OwnedSpec

(***************************************************************************)
(* The customer gets no e-mail twice, however often a transition is asked  *)
(* for and retried.                                                        *)
(***************************************************************************)
THEOREM NeverDuplicateNotice ==
  OwnedSpec => []NoDuplicateNotice
<1>1. TransitionTypeOK /\ MoverInv /\ MailedInv => NoDuplicateNotice
  BY DEF TransitionTypeOK, MoverInv, MailedInv, OneMoverPerStatus,
         NoDuplicateNotice
<1>2. RaceInv => TransitionTypeOK /\ MoverInv
  BY DEF RaceInv, HistoryInv
<1>3. QED
  BY <1>1, <1>2, RaceInvariant, MailedInvariant, PTL

LEMMA LifecycleInit == TransitionInit => Lifecycle!Init
  BY DEF TransitionInit, Lifecycle!Init, IdleCall, FirstRow

(***************************************************************************)
(* TransitionTo implements the lifecycle: when nobody else changes the     *)
(* status, all the interleavings of calls, failures and lost replies look  *)
(* to the customer like one order that moves along the table, one edge at  *)
(* a time, and announces each status at most once.                         *)
(***************************************************************************)
THEOREM Implementation ==
  OwnedSpec => ImplementsLifecycle
<1>1. RaceInv /\ MailedInv /\ [OwnedNext]_transitionVars
        => [Lifecycle!Next]_(Lifecycle!vars)
  BY LifecycleStep
<1>2. QED
  BY <1>1, LifecycleInit, RaceInvariant, MailedInvariant, PTL
  DEF OwnedSpec, ImplementsLifecycle, Lifecycle!Spec

-----------------------------------------------------------------------------
(***************************************************************************)
(* What the lifecycle promises the customer.                               *)
(***************************************************************************)
\* Nothing was announced, or is about to be, of a status yet to come.
RankInv ==
  /\ Lifecycle!TypeOK
  /\ \A s \in Owed \union Told : Rank(s) <= Rank(row.status)
  /\ Lifecycle!ToldOnce

LEMMA LifecycleMoveKeeps ==
  ASSUME RankInv, NEW to \in WorkOrderStatuses, Lifecycle!Move(to)
  PROVE  RankInv'
<1> USE DEF RankInv, Lifecycle!TypeOK, Lifecycle!ToldOnce, Owed, Told
<1>1. /\ row.status \in WorkOrderStatuses
      /\ Owed \subseteq WorkOrderStatuses /\ Told \subseteq WorkOrderStatuses
  BY SameTable
<1>2. /\ IsValidTransition(row.status, to) /\ row'.status = to /\ Told' = Told
      /\ Owed' \subseteq Owed \union {to}
  BY SameTable DEF Lifecycle!Move, IsValidTransition
<1>3. Rank(row.status) < Rank(to) /\ Rank(row.status) \in Nat /\ Rank(to) \in Nat
  BY <1>1, <1>2, RankIncreases
<1>4. ASSUME NEW s \in Owed \union Told
      PROVE  Rank(s) < Rank(to)
  <2>1. Rank(s) \in Nat /\ Rank(s) <= Rank(row.status)
    BY RankType
  <2>2. QED
    BY <1>3, <2>1
<1>5. to \notin Told
  BY <1>3, <1>4
<1>6. ASSUME NEW s \in Owed' \union Told'
      PROVE  Rank(s) <= Rank(row'.status)
  <2>1. s \in Owed \union Told \/ s = to
    BY <1>2
  <2>2. Rank(s) \in Nat
    BY RankType
  <2>3. QED
    BY <1>2, <1>3, <1>4, <2>1, <2>2
<1>7. Owed' \subseteq WorkOrderStatuses /\ Told' \subseteq WorkOrderStatuses
  BY <1>1, <1>2
<1>8. Owed' \intersect Told' = {}
  BY <1>2, <1>5
<1>9. QED
  BY <1>2, <1>6, <1>7, <1>8, SameTable

(***************************************************************************)
(* The lifecycle announces no status twice: the table has no cycle, so     *)
(* that a status just entered was never entered, and never announced,      *)
(* before.                                                                 *)
(***************************************************************************)
THEOREM LifecycleTellsOnce == Lifecycle!Spec => []Lifecycle!ToldOnce
<1>1. Lifecycle!Init => RankInv
  BY TransitionAssumption, SameTable
  DEF Lifecycle!Init, RankInv, Lifecycle!TypeOK, Lifecycle!ToldOnce, Owed, Told
<1>2. ASSUME RankInv, [Lifecycle!Next]_(Lifecycle!vars)
      PROVE  RankInv'
  <2>1. ASSUME NEW to \in WorkOrderStatuses, Lifecycle!Settle(to)
        PROVE  RankInv'
    BY <1>2, <2>1
    DEF RankInv, Lifecycle!TypeOK, Lifecycle!ToldOnce, Owed, Told,
        Lifecycle!Settle, Lifecycle!Tell, Lifecycle!Drop
  <2>2. CASE UNCHANGED Lifecycle!vars
    BY <1>2, <2>2
    DEF RankInv, Lifecycle!TypeOK, Lifecycle!ToldOnce, Owed, Told,
        Lifecycle!vars
  <2>3. QED
    BY <1>2, <2>1, <2>2, LifecycleMoveKeeps, SameTable DEF Lifecycle!Next
<1>3. RankInv => Lifecycle!ToldOnce
  BY DEF RankInv
<1>4. QED
  BY <1>1, <1>2, <1>3, PTL DEF Lifecycle!Spec

(***************************************************************************)
(* So, whatever the calls of TransitionTo race about, no status of the     *)
(* order that the customer was told is ever announced again.               *)
(***************************************************************************)
THEOREM AlwaysToldOnce == OwnedSpec => []Lifecycle!ToldOnce
BY Implementation, LifecycleTellsOnce, PTL DEF ImplementsLifecycle

(***************************************************************************)
(* All of this holds of TransitionTo alone, the specification of           *)
(* StatusTransition: no other handler is the least of the handlers that    *)
(* leave the status to it.                                                 *)
(***************************************************************************)
THEOREM AloneKeepsAll ==
  TransitionSpec =>
    /\ StatusFollowsTable /\ ImplementsLifecycle
    /\ [](OneMoverPerStatus /\ ConflictMeansOvertaken /\ NoDuplicateNotice)
BY AloneIsOwned, StatusAlwaysFollowsTable, Implementation, AlwaysOneMover,
   ConflictAlwaysOvertaken, NeverDuplicateNotice, PTL
=============================================================================
