--------------------------- MODULE MailOutboxProofs ---------------------------
(***************************************************************************)
(* Theorems about MailOutbox for every number of rows, Subscribers and     *)
(* workers and every value of the times.  Most transactions only touch     *)
(* rows in a few harmless ways and leave incidents, workers and provider   *)
(* alone: they are shown once to be QuietSteps, and the invariants are     *)
(* then proved for QuietStep and for the remaining actions.  Alerts are    *)
(* followed through the one action that enqueues them and the three that   *)
(* end what entitles a Subscriber to them.                                 *)
(***************************************************************************)
EXTENDS MailOutbox, TLAPS

\* What a quiet transaction may do to row j.
QuietMove(j) ==
    \/ mail'[j] = mail[j]
    \/ mail[j].status = "absent" /\ mail'[j] = NewRow(j)
    \/ mail[j].status \in Live /\ mail'[j] = Ended(mail[j], "cancelled")
    \/ mail[j].status = "dead_letter" /\ mail'[j] = [mail[j] EXCEPT !.owner = NoSubscriber]
QuietRows ==
    /\ mail' \in [Job -> Row]
    /\ \A j \in Job : QuietMove(j)
QuietStep ==
    /\ QuietRows
    /\ sub' \in [Subscriber -> SubState]
    /\ watching' \subseteq Subscriber
    /\ purge' \in Purge
    /\ outboxUnchanged

QuietAction ==
    \/ \E s \in Subscriber :
          \/ CreateSubscriber(s) \/ ConfirmSubscriber(s) \/ AddWatch(s) \/ RemoveWatch(s)
          \/ DeleteSubscriberDetach(s) \/ EnqueueResendMail(s)
    \/ \E S \in SUBSET watching : RetireWatches(S)
    \/ \E S \in SUBSET Subscriber : SweepRetentionDetach(S)
    \/ \E closed \in SUBSET NotifyReason : ObserveState(closed)
    \/ \E reason \in NotifyReason, closed \in SUBSET NotifyReason, J \in SUBSET Job :
          CommitOpening(reason, closed, J)
    \/ \E J \in SUBSET Job : EnqueueBlindWindow(J)
    \/ ExpireMailOutboxAlerts
    \/ \E j \in Job : EnqueueOperatorMail(j)
-------------------------------------------------------------------------------
(* Rows *)

\* A freshly enqueued row has the type of a row.
LEMMA NewRowType ==
    ASSUME TypeOK, NEW j \in Job
    PROVE  NewRow(j) \in Row
  BY OwnerAssumption DEF TypeOK, NewRow, Row, Status

\* A row given a status keeps its type.
LEMMA EndedType ==
    ASSUME NEW row \in Row, NEW status \in Status
    PROVE  Ended(row, status) \in Row
  BY DEF Ended, Row

\* What Ended changes of a row, and what it keeps.
LEMMA EndedFields ==
    ASSUME NEW row \in Row, NEW status
    PROVE  LET r == Ended(row, status)
           IN  /\ r.status = status /\ r.owner = row.owner /\ r.at = row.at
               /\ r.claimedAt = 0 /\ r.claimToken = 0
  BY DEF Ended, Row

\* What Erased changes of a row, and what it keeps.
LEMMA ErasedFields ==
    ASSUME NEW row \in Row
    PROVE  LET r == Erased(row)
           IN  r.status = "erased" /\ r.at = row.at /\ r.claimedAt = 0 /\ r.claimToken = 0
  BY DEF Erased, Ended, Row

\* Detaching a row from its Subscriber changes nothing else.
LEMMA DetachedFields ==
    ASSUME NEW row \in Row
    PROVE  LET r == [row EXCEPT !.owner = NoSubscriber]
           IN  /\ r.status = row.status /\ r.at = row.at
               /\ r.claimedAt = row.claimedAt /\ r.claimToken = row.claimToken
  BY DEF Row

\* What a claim changes of a row, and what it keeps.
LEMMA ClaimedFields ==
    ASSUME NEW row \in Row, NEW token
    PROVE  LET r == Claimed(row, token)
           IN  /\ r.status = "processing" /\ r.owner = row.owner /\ r.at = row.at
               /\ r.claimedAt = clock /\ r.claimToken = token
  BY DEF Claimed, Row

\* What a deferral changes of a row, and what it keeps.
LEMMA RequeuedFields ==
    ASSUME NEW row \in Row, NEW at
    PROVE  LET r == Requeued(row, at)
           IN  /\ r.status = "queued" /\ r.owner = row.owner /\ r.at = row.at
               /\ r.claimedAt = 0 /\ r.claimToken = 0
  BY DEF Requeued, Row

\* The fields of a freshly enqueued row.
LEMMA NewRowFields ==
    ASSUME NEW j
    PROVE  LET r == NewRow(j)
           IN  /\ r.status = "queued" /\ r.owner = Owner[j] /\ r.at = clock
               /\ r.claimedAt = 0 /\ r.claimToken = 0
  BY DEF NewRow

\* Cancelling live rows is a quiet move of every row.
LEMMA EndAllQuiet ==
    ASSUME TypeOK, NEW S \in SUBSET OpenJobs, mail' = EndAll(S, "cancelled")
    PROVE  QuietRows
  <1>1. mail' \in [Job -> Row]
    BY EndedType DEF TypeOK, EndAll, Status
  <1>2. ASSUME NEW j \in Job PROVE QuietMove(j)
    BY DEF EndAll, QuietMove, OpenJobs
  <1>3. QED BY <1>1, <1>2 DEF QuietRows

\* Enqueuing absent rows is a quiet move of every row.
LEMMA EnqueuedQuiet ==
    ASSUME TypeOK, NEW S \in SUBSET {j \in Job : mail[j].status = "absent"},
           mail' = Enqueued(S)
    PROVE  QuietRows
  <1>1. mail' \in [Job -> Row]
    BY NewRowType DEF TypeOK, Enqueued
  <1>2. ASSUME NEW j \in Job PROVE QuietMove(j)
    BY DEF Enqueued, QuietMove
  <1>3. QED BY <1>1, <1>2 DEF QuietRows

\* Leaving the table alone is a quiet move of every row.
LEMMA UnchangedQuiet == ASSUME TypeOK, mail' = mail PROVE QuietRows
  BY DEF TypeOK, QuietRows, QuietMove

\* Detached keeps a row, or removes the owner of a dead letter.
LEMMA DetachedRow ==
    ASSUME TypeOK, NEW S, NEW j \in Job
    PROVE  /\ Detached(S)[j] \in Row
           /\ \/ Detached(S)[j] = mail[j]
              \/ /\ mail[j].status = "dead_letter"
                 /\ Detached(S)[j] = [mail[j] EXCEPT !.owner = NoSubscriber]
  BY DEF TypeOK, Detached, Protected, Row

\* The detaching statement is a quiet move of every row.
LEMMA DetachedQuiet == ASSUME TypeOK, NEW S, mail' = Detached(S) PROVE QuietRows
  <1>1. mail' \in [Job -> Row]
    BY DetachedRow DEF Detached
  <1>2. ASSUME NEW j \in Job PROVE QuietMove(j)
    BY DetachedRow DEF QuietMove
  <1>3. QED BY <1>1, <1>2 DEF QuietRows
-------------------------------------------------------------------------------
(* Quiet steps *)

\* Fresh rows are absent rows.
LEMMA FreshAbsent == \A kind : Fresh(kind) \subseteq {j \in Job : mail[j].status = "absent"}
  BY DEF Fresh

\* Committing an Opening is a quiet move of every row.
LEMMA ClosingQuiet ==
    ASSUME TypeOK, NEW closed, NEW J \in SUBSET Fresh("alert"),
           mail' = [j \in Job |-> IF j \in J THEN NewRow(j)
                                  ELSE EndAll(ClosedBy(closed), "cancelled")[j]]
    PROVE  QuietRows
  <1>1. ASSUME NEW j \in Job PROVE mail'[j] \in Row /\ QuietMove(j)
    <2>1. CASE j \in J
      BY <2>1, NewRowType, FreshAbsent DEF QuietMove
    <2>2. CASE j \notin J
      BY <2>2, EndedType DEF TypeOK, QuietMove, EndAll, ClosedBy, OpenJobs, Status
    <2>3. QED BY <2>1, <2>2
  <1>2. mail' = [j \in Job |-> mail'[j]]
    OBVIOUS
  <1>3. QED BY <1>1, <1>2 DEF QuietRows

\* The first statements of a retention sweep are a quiet move of every row.
LEMMA RetentionQuiet ==
    ASSUME TypeOK, NEW S,
           mail' = [j \in Job |-> IF j \in AlertsDue THEN Ended(mail[j], "cancelled")
                                  ELSE Detached(S)[j]]
    PROVE  QuietRows
  <1>1. ASSUME NEW j \in Job PROVE mail'[j] \in Row /\ QuietMove(j)
    <2>1. CASE j \in AlertsDue
      BY <2>1, EndedType DEF TypeOK, QuietMove, AlertsDue, OpenJobs, Status
    <2>2. CASE j \notin AlertsDue
      BY <2>2, DetachedRow DEF QuietMove
    <2>3. QED BY <2>1, <2>2
  <1>2. mail' = [j \in Job |-> mail'[j]]
    OBVIOUS
  <1>3. QED BY <1>1, <1>2 DEF QuietRows

\* The actions of the API and of the source workers are quiet steps.
LEMMA QuietSteps == ASSUME TypeOK, QuietAction PROVE QuietStep
  <1> USE DEF QuietStep, SubState
  <1>1. ASSUME NEW s \in Subscriber, CreateSubscriber(s) PROVE QuietStep
    <2>1. CASE s \in suppressed
      BY <1>1, <2>1, UnchangedQuiet DEF CreateSubscriber, TypeOK
    <2>2. CASE s \notin suppressed
      BY <1>1, <2>2, FreshAbsent, EnqueuedQuiet DEF CreateSubscriber, TypeOK
    <2>3. QED BY <2>1, <2>2
  <1>2. ASSUME NEW s \in Subscriber, ConfirmSubscriber(s) PROVE QuietStep
    BY <1>2, UnchangedQuiet DEF ConfirmSubscriber, TypeOK
  <1>3. ASSUME NEW s \in Subscriber, AddWatch(s) PROVE QuietStep
    BY <1>3, UnchangedQuiet DEF AddWatch, TypeOK
  <1>4. ASSUME NEW s \in Subscriber, RemoveWatch(s) PROVE QuietStep
    <2> DEFINE S == {j \in OpenJobs : Kind[j] = "alert" /\ mail[j].owner = s}
    <2>1. QuietRows
      BY <1>4, EndAllQuiet, S \in SUBSET OpenJobs DEF RemoveWatch
    <2>2. QED BY <1>4, <2>1 DEF RemoveWatch, TypeOK
  <1>5. ASSUME NEW s \in Subscriber, DeleteSubscriberDetach(s) PROVE QuietStep
    BY <1>5, DetachedQuiet DEF DeleteSubscriberDetach, TypeOK, Purge
  <1>6. ASSUME NEW s \in Subscriber, EnqueueResendMail(s) PROVE QuietStep
    BY <1>6, FreshAbsent, EnqueuedQuiet DEF EnqueueResendMail, TypeOK
  <1>7. ASSUME NEW S \in SUBSET watching, RetireWatches(S) PROVE QuietStep
    <2>1. QuietRows
      BY <1>7, EndAllQuiet, OpenJobs \cap PerWatch \in SUBSET OpenJobs DEF RetireWatches
    <2>2. QED BY <1>7, <2>1 DEF RetireWatches, TypeOK
  <1>8. ASSUME NEW S \in SUBSET Subscriber, SweepRetentionDetach(S) PROVE QuietStep
    BY <1>8, RetentionQuiet DEF SweepRetentionDetach, TypeOK, Purge
  <1>9. ASSUME NEW closed \in SUBSET NotifyReason, ObserveState(closed) PROVE QuietStep
    <2>1. QuietRows
      BY <1>9, EndAllQuiet, ClosedBy(closed) \in SUBSET OpenJobs DEF ObserveState, ClosedBy
    <2>2. QED BY <1>9, <2>1 DEF ObserveState, TypeOK
  <1>10. ASSUME NEW reason \in NotifyReason, NEW closed \in SUBSET NotifyReason,
                NEW J \in SUBSET Job, CommitOpening(reason, closed, J)
         PROVE QuietStep
    BY <1>10, ClosingQuiet DEF CommitOpening, TypeOK
  <1>11. ASSUME NEW J \in SUBSET Job, EnqueueBlindWindow(J) PROVE QuietStep
    BY <1>11, FreshAbsent, EnqueuedQuiet DEF EnqueueBlindWindow, TypeOK
  <1>12. ASSUME ExpireMailOutboxAlerts PROVE QuietStep
    <2>1. QuietRows
      BY <1>12, EndAllQuiet, AlertsDue \in SUBSET OpenJobs DEF ExpireMailOutboxAlerts, AlertsDue
    <2>2. QED BY <1>12, <2>1 DEF ExpireMailOutboxAlerts, TypeOK
  <1>13. ASSUME NEW j \in Job, EnqueueOperatorMail(j) PROVE QuietStep
    BY <1>13, FreshAbsent, EnqueuedQuiet DEF EnqueueOperatorMail, TypeOK
  <1>14. QED
    BY <1>1, <1>2, <1>3, <1>4, <1>5, <1>6, <1>7, <1>8, <1>9, <1>10, <1>11, <1>12, <1>13
    DEF QuietAction

\* The remaining actions of Next.
LEMMA NextCases ==
    ASSUME [Next]_vars
    PROVE  \/ QuietAction
           \/ Tick
           \/ \E s \in Subscriber : SuppressEmail(s)
           \/ DeleteSubscriberErase \/ \E Old \in SUBSET Job : SweepRetentionErase(Old)
           \/ \E j \in Job : AcknowledgeIncident(j) \/ ResolveIncident(j)
           \/ \E d \in Dispatcher : WorkerStep(d) \/ Crash(d)
           \/ UNCHANGED vars
  BY DEF Next, SubscriberStep, SystemStep, QuietAction
-------------------------------------------------------------------------------
(* Type correctness *)

\* The idle worker has the type of a worker.
LEMMA IdleType == Idle \in Worker
  BY DEF Idle, Worker, Stage

\* Advancing a job keeps the workers typed.
LEMMA AdvanceType ==
    ASSUME TypeOK, NEW d \in Dispatcher, NEW j \in Job, NEW stage \in Stage,
           Advance(d, j, stage)
    PROVE  worker' \in [Dispatcher -> Worker]
  <1> DEFINE work == [worker[d].work EXCEPT ![j] = stage]
             next == IF \A i \in Job : work[i] = "none" THEN Idle
                     ELSE [worker[d] EXCEPT !.work = work]
  <1>1. worker' = [worker EXCEPT ![d] = next]
    BY DEF Advance
  <1>2. worker[d] \in Worker /\ work \in [Job -> Stage]
    BY DEF TypeOK, Worker
  <1>3. next \in Worker
    BY <1>2, IdleType DEF Worker
  <1> HIDE DEF next
  <1>4. QED BY <1>1, <1>3 DEF TypeOK

\* What Advance changes of the workers.
LEMMA AdvanceFields ==
    ASSUME TypeOK, NEW d \in Dispatcher, NEW j \in Job, NEW stage, Advance(d, j, stage)
    PROVE  /\ \A e \in Dispatcher \ {d} : worker'[e] = worker[e]
           /\ worker'[d].work[j] = stage
           /\ \A i \in Job \ {j} : worker'[d].work[i] = worker[d].work[i]
           /\ \/ worker'[d] = Idle
              \/ worker'[d].token = worker[d].token /\ worker'[d].since = worker[d].since
  <1> DEFINE work == [worker[d].work EXCEPT ![j] = stage]
             next == IF \A i \in Job : work[i] = "none" THEN Idle
                     ELSE [worker[d] EXCEPT !.work = work]
  <1>1. worker[d] \in Worker
    BY DEF TypeOK
  <1>2. work[j] = stage /\ \A i \in Job \ {j} : work[i] = worker[d].work[i]
    BY <1>1 DEF Worker
  <1>3. worker' = [worker EXCEPT ![d] = next]
    BY DEF Advance
  <1>4. worker'[d] = next /\ \A e \in Dispatcher \ {d} : worker'[e] = worker[e]
    BY <1>3 DEF TypeOK
  <1> HIDE DEF work
  <1>5. CASE \A i \in Job : work[i] = "none"
    BY <1>2, <1>4, <1>5 DEF Idle
  <1>6. CASE ~\A i \in Job : work[i] = "none"
    BY <1>1, <1>2, <1>4, <1>6 DEF Worker
  <1>7. QED BY <1>5, <1>6

\* Opening incidents keeps the incidents typed.
LEMMA OpenIncidentsType == ASSUME TypeOK, NEW S PROVE OpenIncidents(S) \in [Job -> IncidentState]
  BY DEF TypeOK, OpenIncidents, IncidentState

\* A row swept by a claim has the type of a row.
LEMMA SweptType == ASSUME TypeOK, NEW j \in Job PROVE Swept(j) \in Row
  BY EndedType DEF TypeOK, Swept, Status

\* A claimed row has the type of a row.
LEMMA ClaimedType ==
    ASSUME clock \in Nat, NEW row \in Row, NEW token \in Nat
    PROVE  Claimed(row, token) \in Row
  BY DEF Claimed, Row, Status

\* Taking a batch keeps its variables typed.
LEMMA TakeBatchType ==
    ASSUME TypeOK, NEW d \in Dispatcher, NEW B \in SUBSET Job, TakeBatch(d, B)
    PROVE  /\ mail' \in [Job -> Row]
           /\ worker' \in [Dispatcher -> Worker]
           /\ claims' \in Nat
  <1>1. ASSUME NEW j \in B PROVE Claimed(mail[j], claims + 1) \in Row
    <2>1. mail[j] \in Row /\ claims + 1 \in Nat
      BY DEF TypeOK
    <2>2. QED BY <2>1, ClaimedType DEF TypeOK
  <1>2. mail' \in [Job -> Row]
    BY <1>1, SweptType DEF TakeBatch
  <1>3. [token |-> claims + 1, since |-> clock,
         work |-> [j \in Job |-> IF j \in B THEN "claimed" ELSE "none"]] \in Worker
    BY DEF TypeOK, Worker, Stage
  <1>4. worker' \in [Dispatcher -> Worker]
    BY <1>3 DEF TakeBatch, TypeOK
  <1>5. QED BY <1>2, <1>4 DEF TakeBatch, TypeOK

\* A settlement keeps rows and incidents typed.
LEMMA SettleType ==
    ASSUME TypeOK, NEW d \in Dispatcher, NEW j \in Job, NEW status \in Status,
           SettleAs(d, j, status)
    PROVE  mail' \in [Job -> Row] /\ incident' \in [Job -> IncidentState]
  <1>1. CASE OwnsClaim(d, j)
    BY <1>1, EndedType, OpenIncidentsType DEF SettleAs, EndAll, TypeOK
  <1>2. CASE ~OwnsClaim(d, j)
    BY <1>2 DEF SettleAs, TypeOK
  <1>3. QED BY <1>1, <1>2

\* Erasing Subscribers keeps every variable typed.
LEMMA EraseType ==
    ASSUME TypeOK, NEW Old, EraseSubscribers(Old)
    PROVE  TypeOK'
  <1>1. ASSUME NEW j \in Job PROVE Erased(mail[j]) \in Row
    BY DEF TypeOK, Erased, Ended, Row, Status
  <1>2. mail' \in [Job -> Row]
    BY <1>1 DEF EraseSubscribers, EraseRows, TypeOK
  <1>3. incident' \in [Job -> IncidentState]
    BY DEF EraseSubscribers, EraseRows, TypeOK, IncidentState
  <1>4. sub' \in [Subscriber -> SubState] /\ watching' \subseteq Subscriber /\ purge' \in Purge
    BY DEF EraseSubscribers, TypeOK, SubState, Purge, NoPurge
  <1>5. QED BY <1>2, <1>3, <1>4 DEF EraseSubscribers, TypeOK

\* The provider's answer keeps its records typed.
LEMMA AcceptType == ASSUME TypeOK, NEW j \in Job PROVE Accept(j) \in [Job -> ProviderEntry]
  <1>1. [emails |-> provider[j].emails + 1, firstAt |-> clock] \in ProviderEntry
    BY DEF TypeOK, ProviderEntry
  <1>2. QED BY <1>1 DEF TypeOK, Accept

\* A requeued row has the type of a row.
LEMMA RequeuedType ==
    ASSUME NEW row \in Row, NEW at \in Nat
    PROVE  Requeued(row, at) \in Row
  BY DEF Requeued, Row, Status

\* Every step of a worker keeps every variable typed.
LEMMA WorkerStepType ==
    ASSUME TypeOK, NEW d \in Dispatcher, WorkerStep(d)
    PROVE  TypeOK'
  <1>1. ASSUME ClaimMailBatch(d) PROVE TypeOK'
    <2>1. PICK B \in Pages(Claimable \ (HorizonDue \cup AlertsDue \cup Ineligible)) :
             IF B # {} /\ claims < MaxClaims THEN TakeBatch(d, B) ELSE SweepOnly
      BY <1>1 DEF ClaimMailBatch
    <2>2. B \in SUBSET Job
      BY DEF Pages, Claimable, OpenJobs
    <2>3. /\ mail' \in [Job -> Row]
          /\ worker' \in [Dispatcher -> Worker]
          /\ claims' \in Nat
      <3>1. CASE TakeBatch(d, B)
        BY <3>1, <2>2, TakeBatchType
      <3>2. CASE SweepOnly
        BY <3>2, SweptType DEF SweepOnly, TypeOK
      <3>3. QED BY <2>1, <3>1, <3>2
    <2>4. QED BY <1>1, <2>3, OpenIncidentsType DEF ClaimMailBatch, TypeOK
  <1>2. ASSUME NEW j \in Job, PrepareMail(d, j) PROVE TypeOK'
    <2>1. worker' \in [Dispatcher -> Worker]
      BY <1>2, AdvanceType DEF PrepareMail, Stage, Result
    <2>2. QED BY <1>2, <2>1 DEF PrepareMail, TypeOK
  <1>3. ASSUME NEW j \in Job, SendMail(d, j) PROVE TypeOK'
    <2>1. worker' \in [Dispatcher -> Worker]
      BY <1>3, AdvanceType DEF SendMail, Stage, Result
    <2>2. provider' \in [Job -> ProviderEntry]
      BY <1>3, AcceptType DEF SendMail, TypeOK
    <2>3. QED BY <1>3, <2>1, <2>2 DEF SendMail, TypeOK
  <1>4. ASSUME NEW j \in Job, NEW result, Settling(d, j, result),
               NEW status \in Status, SettleAs(d, j, status)
        PROVE  TypeOK'
    <2>1. worker' \in [Dispatcher -> Worker]
      BY <1>4, AdvanceType DEF Settling, Stage
    <2>2. QED BY <1>4, <2>1, SettleType DEF Settling, TypeOK
  <1>5. ASSUME NEW j \in Job, CompleteMailJob(d, j) PROVE TypeOK'
    BY <1>5, <1>4 DEF CompleteMailJob, Status
  <1>6. ASSUME NEW j \in Job, CancelClaimedMailJob(d, j) PROVE TypeOK'
    BY <1>6, <1>4 DEF CancelClaimedMailJob, Status
  <1>7. ASSUME NEW j \in Job, DeadLetterMailJob(d, j) PROVE TypeOK'
    BY <1>7, <1>4 DEF DeadLetterMailJob, Status
  <1>8. ASSUME NEW j \in Job, NEW delay \in 1..MaxBackoff, DeferMailJob(d, j, delay)
        PROVE  TypeOK'
    <2>1. CASE clock + delay >= Deadline(j)
      BY <1>8, <2>1, <1>4 DEF DeferMailJob, Status
    <2>2. CASE ~(clock + delay >= Deadline(j))
      <3>1. worker' \in [Dispatcher -> Worker]
        BY <1>8, AdvanceType DEF DeferMailJob, Settling, Stage
      <3>2. clock + delay \in Nat
        BY TimeAssumption DEF TypeOK
      <3>3. mail' \in [Job -> Row]
        BY <1>8, <2>2, <3>2, RequeuedType DEF DeferMailJob, TypeOK
      <3>4. QED BY <1>8, <2>2, <3>1, <3>3 DEF DeferMailJob, Settling, TypeOK
    <2>3. QED BY <2>1, <2>2
  <1>9. QED BY <1>1, <1>2, <1>3, <1>5, <1>6, <1>7, <1>8 DEF WorkerStep

\* Every variable keeps its type, for all rows, Subscribers, workers and times.
THEOREM TypeCorrect == Spec => []TypeOK
  <1>1. Init => TypeOK
    BY IdleType DEF Init, TypeOK, NoRow, Row, Status, IncidentState, SubState, Purge, NoPurge,
       ProviderEntry
  <1>2. TypeOK /\ [Next]_vars => TypeOK'
    <2> SUFFICES ASSUME TypeOK, [Next]_vars PROVE TypeOK'
      OBVIOUS
    <2>1. CASE QuietAction
      BY <2>1, QuietSteps DEF QuietStep, QuietRows, outboxUnchanged, TypeOK
    <2>2. CASE Tick
      BY <2>2 DEF Tick, TypeOK
    <2>3. ASSUME NEW s \in Subscriber, SuppressEmail(s) PROVE TypeOK'
      BY <2>3 DEF SuppressEmail, TypeOK
    <2>4. CASE DeleteSubscriberErase
      BY <2>4, EraseType DEF DeleteSubscriberErase
    <2>5. ASSUME NEW Old \in SUBSET Job, SweepRetentionErase(Old) PROVE TypeOK'
      BY <2>5, EraseType DEF SweepRetentionErase
    <2>6. ASSUME NEW j \in Job, AcknowledgeIncident(j) \/ ResolveIncident(j) PROVE TypeOK'
      BY <2>6 DEF AcknowledgeIncident, ResolveIncident, TypeOK, IncidentState
    <2>7. ASSUME NEW d \in Dispatcher, Crash(d) PROVE TypeOK'
      BY <2>7, IdleType DEF Crash, TypeOK
    <2>8. CASE UNCHANGED vars
      BY <2>8 DEF vars, TypeOK
    <2>9. QED
      BY NextCases, WorkerStepType, <2>1, <2>2, <2>3, <2>4, <2>5, <2>6, <2>7, <2>8
  <1>3. QED BY <1>1, <1>2, PTL DEF Spec
-------------------------------------------------------------------------------
(* What any step may do to a row and its incident *)

RowMove(j) ==
    \/ QuietMove(j)
    \/ mail[j].status \in Live /\ \E status \in Terminal : mail'[j] = Ended(mail[j], status)
    \/ mail'[j] = Erased(mail[j])
    \/ /\ j \in Claimable /\ clock < Deadline(j)
       /\ mail'[j] = Claimed(mail[j], claims + 1)
       /\ claims' = claims + 1
    \/ /\ \E at \in Nat : mail'[j] = Requeued(mail[j], at)
       /\ \E d \in Dispatcher : OwnsClaim(d, j) /\ Holds(d, j) /\ worker'[d].work[j] = "none"

IncidentMove(j) ==
    \/ /\ incident'[j] = incident[j]
       /\ mail'[j].status = "dead_letter" <=> mail[j].status = "dead_letter"
    \/ /\ mail[j].status \in Live /\ mail'[j].status = "dead_letter"
       /\ incident'[j] = OpenIncidents({j})[j]
    \/ mail'[j].status = "erased" /\ incident'[j] = "none"
    \/ mail'[j] = mail[j] /\ incident[j] # "none" /\ incident'[j] # "none"

\* The fields of a row after a quiet move.
LEMMA QuietFields ==
    ASSUME TypeOK, NEW j \in Job, QuietMove(j)
    PROVE  \/ mail'[j] = mail[j]
           \/ /\ mail[j].status = "absent" /\ mail'[j].status = "queued"
              /\ mail'[j].owner = Owner[j] /\ mail'[j].at = clock
              /\ mail'[j].claimedAt = 0 /\ mail'[j].claimToken = 0
           \/ /\ mail[j].status \in Live /\ mail'[j].status = "cancelled"
              /\ mail'[j].owner = mail[j].owner /\ mail'[j].at = mail[j].at
              /\ mail'[j].claimedAt = 0 /\ mail'[j].claimToken = 0
           \/ /\ mail[j].status = "dead_letter" /\ mail'[j].status = "dead_letter"
              /\ mail'[j].at = mail[j].at /\ mail'[j].claimedAt = mail[j].claimedAt
              /\ mail'[j].claimToken = mail[j].claimToken
  <1>1. mail[j] \in Row
    BY DEF TypeOK
  <1>2. CASE mail[j].status = "absent" /\ mail'[j] = NewRow(j)
    BY <1>2, NewRowFields
  <1>3. CASE mail[j].status \in Live /\ mail'[j] = Ended(mail[j], "cancelled")
    BY <1>1, <1>3, EndedFields
  <1>4. CASE mail[j].status = "dead_letter" /\ mail'[j] = [mail[j] EXCEPT !.owner = NoSubscriber]
    BY <1>1, <1>4, DetachedFields
  <1>5. QED BY <1>2, <1>3, <1>4 DEF QuietMove

\* What a claim may take has not reached its deadline.
LEMMA UnclaimedDue ==
    ASSUME TypeOK, NEW j \in Claimable \ (HorizonDue \cup AlertsDue \cup Ineligible)
    PROVE  clock < Deadline(j)
  <1>1. j \in Job /\ mail[j] \in Row /\ clock \in Nat
    BY DEF TypeOK, Claimable, OpenJobs
  <1>2. Horizon(j) \in Nat
    BY TimeAssumption DEF Horizon
  <1>3. Deadline(j) \in Nat
    BY <1>1, <1>2 DEF Deadline, Row
  <1>4. ~(Deadline(j) <= clock)
    BY DEF Claimable, HorizonDue, AlertsDue, OpenJobs, Live
  <1>5. QED BY <1>1, <1>3, <1>4

\* A claim moves rows and incidents legally.
LEMMA ClaimMoves ==
    ASSUME TypeOK, NEW d \in Dispatcher, ClaimMailBatch(d), NEW j \in Job
    PROVE  RowMove(j) /\ IncidentMove(j)
  <1>1. PICK B \in Pages(Claimable \ (HorizonDue \cup AlertsDue \cup Ineligible)) :
           IF B # {} /\ claims < MaxClaims THEN TakeBatch(d, B) ELSE SweepOnly
    BY DEF ClaimMailBatch
  <1>2. B \subseteq Claimable \ (HorizonDue \cup AlertsDue \cup Ineligible)
    BY DEF Pages
  <1>3. incident'[j] = IF j \in HorizonDue /\ incident[j] = "none" THEN "unresolved" ELSE incident[j]
    BY DEF ClaimMailBatch, OpenIncidents
  <1>4. mail[j] \in Row
    BY DEF TypeOK
  <1>5. CASE j \in B /\ TakeBatch(d, B)
    <2>1. RowMove(j)
      BY <1>2, <1>5, UnclaimedDue DEF TakeBatch, RowMove
    <2>2. mail[j].status \in Live /\ mail'[j].status = "processing" /\ j \notin HorizonDue
      BY <1>2, <1>4, <1>5 DEF TakeBatch, Claimed, Claimable, OpenJobs, Row
    <2>3. QED BY <1>3, <2>1, <2>2 DEF IncidentMove, Live
  <1>6. CASE mail'[j] = Swept(j)
    <2>1. CASE j \in HorizonDue
      <3>1. mail'[j] = Ended(mail[j], "dead_letter") /\ mail[j].status \in Live
        BY <1>6, <2>1 DEF Swept, HorizonDue, OpenJobs
      <3>2. mail'[j].status = "dead_letter"
        BY <1>4, <3>1 DEF Ended, Row
      <3>3. QED BY <1>3, <2>1, <3>1, <3>2 DEF RowMove, IncidentMove, OpenIncidents, Terminal
    <2>2. CASE j \notin HorizonDue /\ j \in AlertsDue \cup Ineligible
      <3>1. mail'[j] = Ended(mail[j], "cancelled") /\ mail[j].status \in Live
        BY <1>6, <2>2 DEF Swept, AlertsDue, Ineligible, OpenJobs
      <3>2. mail'[j].status = "cancelled"
        BY <1>4, <3>1 DEF Ended, Row
      <3>3. QED BY <1>3, <2>2, <3>1, <3>2 DEF RowMove, IncidentMove, QuietMove, Live
    <2>3. CASE j \notin HorizonDue \cup AlertsDue \cup Ineligible
      <3>1. mail'[j] = mail[j]
        BY <1>6, <2>3 DEF Swept
      <3>2. QED BY <1>3, <2>3, <3>1 DEF RowMove, IncidentMove, QuietMove
    <2>4. QED BY <2>1, <2>2, <2>3
  <1>7. QED BY <1>1, <1>5, <1>6 DEF TakeBatch, SweepOnly

\* A settlement moves rows and incidents legally.
LEMMA SettleMoves ==
    ASSUME TypeOK, NEW d \in Dispatcher, NEW i \in Job, NEW status \in Terminal,
           SettleAs(d, i, status), NEW j \in Job
    PROVE  RowMove(j) /\ IncidentMove(j)
  <1>1. mail[j] \in Row
    BY DEF TypeOK
  <1>2. CASE OwnsClaim(d, i) /\ j = i
    <2>1. mail'[j] = Ended(mail[j], status) /\ mail[j].status \in Live
      BY <1>2 DEF SettleAs, EndAll, OwnsClaim, Live
    <2>2. mail'[j].status = status
      BY <1>1, <2>1 DEF Ended, Row
    <2>3. incident'[j] = IF status = "dead_letter" /\ incident[j] = "none"
                         THEN "unresolved" ELSE incident[j]
      BY <1>2 DEF SettleAs, OpenIncidents
    <2>4. QED BY <2>1, <2>2, <2>3 DEF RowMove, IncidentMove, OpenIncidents, Live
  <1>3. CASE ~(OwnsClaim(d, i) /\ j = i)
    <2>1. mail'[j] = mail[j] /\ incident'[j] = incident[j]
      BY <1>3 DEF SettleAs, EndAll, OpenIncidents, TypeOK
    <2>2. QED BY <2>1 DEF RowMove, IncidentMove, QuietMove
  <1>4. QED BY <1>2, <1>3

\* A deferral moves rows and incidents legally.
LEMMA DeferMoves ==
    ASSUME TypeOK, NEW d \in Dispatcher, NEW i \in Job, NEW delay \in 1..MaxBackoff,
           DeferMailJob(d, i, delay), NEW j \in Job
    PROVE  RowMove(j) /\ IncidentMove(j)
  <1>1. CASE clock + delay >= Deadline(i)
    BY <1>1, SettleMoves DEF DeferMailJob, Terminal
  <1>2. CASE ~(clock + delay >= Deadline(i))
    <2>1. incident'[j] = incident[j]
      BY <1>2 DEF DeferMailJob
    <2>2. CASE OwnsClaim(d, i) /\ j = i
      <3>1. clock + delay \in Nat /\ mail[j] \in Row
        BY TimeAssumption DEF TypeOK
      <3>2. mail'[j] = Requeued(mail[j], clock + delay) /\ mail[j].status = "processing"
        BY <1>2, <2>2 DEF DeferMailJob, OwnsClaim, TypeOK
      <3>3. mail'[j].status = "queued"
        BY <3>1, <3>2 DEF Requeued, Row
      <3>4. Holds(d, j) /\ worker'[d].work[j] = "none"
        BY <2>2, AdvanceFields DEF DeferMailJob, Settling, Holds
      <3>5. QED BY <2>1, <2>2, <3>1, <3>2, <3>3, <3>4 DEF RowMove, IncidentMove
    <2>3. CASE ~(OwnsClaim(d, i) /\ j = i)
      <3>1. mail'[j] = mail[j]
        BY <1>2, <2>3 DEF DeferMailJob, TypeOK
      <3>2. QED BY <2>1, <3>1 DEF RowMove, IncidentMove, QuietMove
    <2>4. QED BY <2>2, <2>3
  <1>3. QED BY <1>1, <1>2

\* Erasing Subscribers moves rows and incidents legally.
LEMMA EraseMoves ==
    ASSUME TypeOK, NEW Old, EraseSubscribers(Old), NEW j \in Job
    PROVE  RowMove(j) /\ IncidentMove(j)
  <1> DEFINE S == {i \in Job : mail[i].owner \in purge.who} \cup Old
  <1>1. CASE j \in S
    <2>1. mail'[j] = Erased(mail[j]) /\ incident'[j] = "none"
      BY <1>1 DEF EraseSubscribers, EraseRows
    <2>2. mail'[j].status = "erased"
      BY <2>1 DEF Erased, Ended, Row, TypeOK
    <2>3. QED BY <2>1, <2>2 DEF RowMove, IncidentMove
  <1>2. CASE j \notin S
    BY <1>2 DEF EraseSubscribers, EraseRows, RowMove, IncidentMove, QuietMove
  <1>3. QED BY <1>1, <1>2

\* A quiet step moves rows and incidents legally.
LEMMA QuietMoves ==
    ASSUME TypeOK, QuietStep, NEW j \in Job
    PROVE  RowMove(j) /\ IncidentMove(j)
  <1>1. mail[j] \in Row /\ incident'[j] = incident[j] /\ QuietMove(j)
    BY DEF TypeOK, QuietStep, QuietRows, outboxUnchanged
  <1>2. mail'[j].status = "dead_letter" <=> mail[j].status = "dead_letter"
    BY <1>1, QuietFields DEF Live
  <1>3. QED BY <1>1, <1>2 DEF RowMove, IncidentMove

\* Leaving a row and its incident alone is legal.
LEMMA UnchangedMoves ==
    ASSUME NEW j \in Job, mail'[j] = mail[j], incident'[j] = incident[j]
    PROVE  RowMove(j) /\ IncidentMove(j)
  BY DEF RowMove, IncidentMove, QuietMove

\* Every step of the system moves rows and incidents legally.
LEMMA StepMoves ==
    ASSUME TypeOK, [Next]_vars, NEW j \in Job
    PROVE  RowMove(j) /\ IncidentMove(j)
  <1>1. CASE QuietAction
    BY <1>1, QuietSteps, QuietMoves
  <1>2. CASE Tick
    BY <1>2, UnchangedMoves DEF Tick
  <1>3. ASSUME NEW s \in Subscriber, SuppressEmail(s) PROVE RowMove(j) /\ IncidentMove(j)
    BY <1>3, UnchangedMoves DEF SuppressEmail
  <1>4. CASE DeleteSubscriberErase
    BY <1>4, EraseMoves DEF DeleteSubscriberErase
  <1>5. ASSUME NEW Old \in SUBSET Job, SweepRetentionErase(Old)
        PROVE  RowMove(j) /\ IncidentMove(j)
    BY <1>5, EraseMoves DEF SweepRetentionErase
  <1>6. ASSUME NEW i \in Job, AcknowledgeIncident(i) \/ ResolveIncident(i)
        PROVE  RowMove(j) /\ IncidentMove(j)
    <2>1. mail'[j] = mail[j]
      BY <1>6 DEF AcknowledgeIncident, ResolveIncident
    <2>2. incident'[j] = incident[j] \/ (incident[j] # "none" /\ incident'[j] # "none")
      <3>1. incident \in [Job -> IncidentState]
        BY DEF TypeOK
      <3>2. CASE AcknowledgeIncident(i)
        BY <3>1, <3>2 DEF AcknowledgeIncident
      <3>3. CASE ResolveIncident(i)
        BY <3>1, <3>3 DEF ResolveIncident, OpenIncident
      <3>4. QED BY <1>6, <3>2, <3>3
    <2>3. QED BY <2>1, <2>2 DEF RowMove, IncidentMove, QuietMove
  <1>7. ASSUME NEW d \in Dispatcher, WorkerStep(d) PROVE RowMove(j) /\ IncidentMove(j)
    <2>1. CASE ClaimMailBatch(d)
      BY <2>1, ClaimMoves
    <2>2. ASSUME NEW i \in Job, PrepareMail(d, i) \/ SendMail(d, i)
          PROVE  RowMove(j) /\ IncidentMove(j)
      BY <2>2, UnchangedMoves DEF PrepareMail, SendMail
    <2>3. ASSUME NEW i \in Job,
                 CompleteMailJob(d, i) \/ CancelClaimedMailJob(d, i) \/ DeadLetterMailJob(d, i)
          PROVE  RowMove(j) /\ IncidentMove(j)
      BY <2>3, SettleMoves DEF CompleteMailJob, CancelClaimedMailJob, DeadLetterMailJob, Terminal
    <2>4. ASSUME NEW i \in Job, NEW delay \in 1..MaxBackoff, DeferMailJob(d, i, delay)
          PROVE  RowMove(j) /\ IncidentMove(j)
      BY <2>4, DeferMoves
    <2>5. QED BY <1>7, <2>1, <2>2, <2>3, <2>4 DEF WorkerStep
  <1>8. ASSUME NEW d \in Dispatcher, Crash(d) PROVE RowMove(j) /\ IncidentMove(j)
    BY <1>8, UnchangedMoves DEF Crash
  <1>9. CASE UNCHANGED vars
    BY <1>9, UnchangedMoves DEF vars
  <1>10. QED BY NextCases, <1>1, <1>2, <1>3, <1>4, <1>5, <1>6, <1>7, <1>8, <1>9
-------------------------------------------------------------------------------
(* Outcomes and incidents *)

\* A row whose outcome is recorded, or that is erased, never becomes live again or
\* changes its outcome.
THEOREM OutcomesAreFinal == Spec => TerminalIsFinal
  <1> DEFINE Final == \A j \in Job : mail[j].status \in Terminal \cup {"erased"} =>
                          mail'[j].status \in {mail[j].status, "erased"}
  <1>1. ASSUME TypeOK, [Next]_vars PROVE Final
    <2> SUFFICES ASSUME NEW j \in Job, mail[j].status \in Terminal \cup {"erased"}
                 PROVE  mail'[j].status \in {mail[j].status, "erased"}
      OBVIOUS
    <2>1. mail[j] \in Row /\ mail[j].status \notin Live /\ mail[j].status # "absent"
      BY <1>1 DEF TypeOK, Terminal, Live
    <2>2. RowMove(j)
      BY <1>1, StepMoves
    <2>3. mail'[j].status = mail[j].status \/ mail'[j] = Erased(mail[j])
      BY <2>1, <2>2, DetachedFields DEF RowMove, QuietMove, Claimable, OpenJobs, OwnsClaim, Live
    <2>4. QED BY <2>1, <2>3, ErasedFields
  <1>2. TypeOK /\ [Next]_vars => [Final]_vars
    BY <1>1
  <1>3. QED BY <1>2, TypeCorrect, PTL DEF Spec, TerminalIsFinal

\* A row has an incident exactly when it is a dead letter.
THEOREM IncidentsMatchDeadLetters == Spec => []OneIncidentPerDeadLetter
  <1>1. Init => OneIncidentPerDeadLetter
    BY DEF Init, NoRow, OneIncidentPerDeadLetter
  <1>2. TypeOK /\ OneIncidentPerDeadLetter /\ [Next]_vars => OneIncidentPerDeadLetter'
    <2> SUFFICES ASSUME TypeOK, OneIncidentPerDeadLetter, [Next]_vars, NEW j \in Job
                 PROVE  incident'[j] # "none" <=> mail'[j].status = "dead_letter"
      BY DEF OneIncidentPerDeadLetter
    <2>1. IncidentMove(j) /\ (incident[j] # "none" <=> mail[j].status = "dead_letter")
      BY StepMoves DEF OneIncidentPerDeadLetter
    <2>2. QED BY <2>1 DEF IncidentMove, OpenIncidents, Live
  <1>3. QED BY <1>1, <1>2, TypeCorrect, PTL DEF Spec

\* The table's CHECK constraints hold for every row.
THEOREM RowsAreWellFormed == Spec => []RowShape
  <1>1. Init => RowShape
    BY DEF Init, NoRow, RowShape, Live
  <1>2. TypeOK /\ RowShape /\ [Next]_vars => RowShape'
    <2> SUFFICES ASSUME TypeOK, RowShape, [Next]_vars, NEW j \in Job
                 PROVE  /\ mail'[j].claimToken # 0 <=> mail'[j].status = "processing"
                        /\ mail'[j].status \in Live \cup {"sent", "cancelled"} =>
                               mail'[j].owner = Owner[j]
      BY DEF RowShape
    <2>1. mail[j] \in Row /\ claims \in Nat
      BY DEF TypeOK
    <2>2. RowMove(j)
      BY StepMoves
    <2>3. /\ mail[j].claimToken # 0 <=> mail[j].status = "processing"
          /\ mail[j].status \in Live \cup {"sent", "cancelled"} => mail[j].owner = Owner[j]
      BY DEF RowShape
    <2>4. CASE QuietMove(j)
      BY <2>1, <2>3, <2>4, QuietFields DEF Live
    <2>5. ASSUME mail[j].status \in Live, NEW status \in Terminal, mail'[j] = Ended(mail[j], status)
          PROVE  mail'[j].claimToken = 0 /\ mail'[j].status = status /\ mail'[j].owner = Owner[j]
      BY <2>1, <2>3, <2>5, EndedFields
    <2>6. CASE mail'[j] = Erased(mail[j])
      BY <2>1, <2>6, ErasedFields DEF Live
    <2>7. CASE j \in Claimable /\ mail'[j] = Claimed(mail[j], claims + 1)
      BY <2>1, <2>3, <2>7, ClaimedFields DEF Claimable, OpenJobs, Live
    <2>8. ASSUME NEW d \in Dispatcher, OwnsClaim(d, j), NEW at \in Nat, mail'[j] = Requeued(mail[j], at)
          PROVE  mail'[j].claimToken = 0 /\ mail'[j].status = "queued" /\ mail'[j].owner = Owner[j]
      BY <2>1, <2>3, <2>8, RequeuedFields DEF Live, OwnsClaim
    <2>9. QED BY <2>2, <2>4, <2>5, <2>6, <2>7, <2>8 DEF RowMove, Terminal
  <1>3. QED BY <1>1, <1>2, TypeCorrect, PTL DEF Spec
-------------------------------------------------------------------------------
(* Alerts and their Watches *)

\* A live row was live under the same Subscriber, or it has just been enqueued.
LEMMA LiveRows ==
    ASSUME TypeOK, [Next]_vars, NEW j \in Job, mail'[j].status \in Live
    PROVE  \/ mail[j].status \in Live /\ mail'[j].owner = mail[j].owner
           \/ mail[j].status = "absent" /\ mail'[j] = NewRow(j)
  <1>1. mail[j] \in Row
    BY DEF TypeOK
  <1>2. RowMove(j)
    BY StepMoves
  <1>3. CASE QuietMove(j)
    BY <1>1, <1>3, QuietFields DEF QuietMove, Live
  <1>4. ASSUME NEW status \in Terminal, mail'[j] = Ended(mail[j], status)
        PROVE  FALSE
    BY <1>1, <1>4, EndedFields DEF Live, Terminal
  <1>5. CASE mail'[j] = Erased(mail[j])
    BY <1>1, <1>5, ErasedFields DEF Live
  <1>6. CASE j \in Claimable /\ mail'[j] = Claimed(mail[j], claims + 1)
    BY <1>1, <1>6, ClaimedFields DEF Claimable, OpenJobs
  <1>7. ASSUME NEW d \in Dispatcher, OwnsClaim(d, j), NEW at \in Nat,
               mail'[j] = Requeued(mail[j], at)
        PROVE  mail[j].status \in Live /\ mail'[j].owner = mail[j].owner
    BY <1>1, <1>7, RequeuedFields DEF OwnsClaim, Live
  <1> QED BY <1>2, <1>3, <1>4, <1>5, <1>6, <1>7 DEF RowMove

\* Of the quiet actions, only an Opening enqueues alerts.
LEMMA QuietAlerts ==
    ASSUME TypeOK, QuietAction, NEW j \in Job, Kind[j] = "alert",
           mail[j].status = "absent", mail'[j] # mail[j]
    PROVE  Eligible(Owner[j]) /\ UNCHANGED <<sub, watching>>
  <1>1. j \notin OpenJobs /\ j \notin AlertsDue
    BY DEF OpenJobs, AlertsDue, Live
  <1>2. \A kind \in MailKind \ {"alert"} : j \notin Fresh(kind)
    BY DEF Fresh
  <1>3. \A S \in SUBSET OpenJobs : EndAll(S, "cancelled")[j] = mail[j]
    BY <1>1 DEF EndAll
  <1>4. \A S : Detached(S)[j] = mail[j]
    BY DEF Detached, Protected
  <1>5. \A kind \in MailKind \ {"alert"} : \A S \in SUBSET Fresh(kind) : Enqueued(S)[j] = mail[j]
    BY <1>2 DEF Enqueued
  <1>6. ASSUME NEW s \in Subscriber, CreateSubscriber(s) PROVE FALSE
    <2>1. PICK S \in SUBSET Fresh("confirmation") : mail' = mail \/ mail' = Enqueued(S)
      BY <1>6 DEF CreateSubscriber
    <2> QED BY <1>5, <2>1 DEF MailKind
  <1>7. ASSUME NEW s \in Subscriber, ConfirmSubscriber(s) \/ AddWatch(s) PROVE FALSE
    BY <1>7 DEF ConfirmSubscriber, AddWatch
  <1>8. ASSUME NEW s \in Subscriber, RemoveWatch(s) PROVE FALSE
    BY <1>3, <1>8 DEF RemoveWatch
  <1>9. ASSUME NEW s \in Subscriber, DeleteSubscriberDetach(s) PROVE FALSE
    BY <1>4, <1>9 DEF DeleteSubscriberDetach
  <1>10. ASSUME NEW s \in Subscriber, EnqueueResendMail(s) PROVE FALSE
    BY <1>5, <1>10 DEF EnqueueResendMail, MailKind
  <1>11. ASSUME NEW S \in SUBSET watching, RetireWatches(S) PROVE FALSE
    BY <1>3, <1>11 DEF RetireWatches
  <1>12. ASSUME NEW S \in SUBSET Subscriber, SweepRetentionDetach(S) PROVE FALSE
    BY <1>1, <1>4, <1>12 DEF SweepRetentionDetach
  <1>13. ASSUME NEW closed \in SUBSET NotifyReason, ObserveState(closed) PROVE FALSE
    BY <1>3, <1>13, ClosedBy(closed) \in SUBSET OpenJobs DEF ObserveState, ClosedBy
  <1>14. ASSUME NEW reason \in NotifyReason, NEW closed \in SUBSET NotifyReason,
                NEW J \in SUBSET Job, CommitOpening(reason, closed, J)
         PROVE  Eligible(Owner[j]) /\ UNCHANGED <<sub, watching>>
    <2>1. EndAll(ClosedBy(closed), "cancelled")[j] = mail[j]
      BY <1>3, ClosedBy(closed) \in SUBSET OpenJobs DEF ClosedBy
    <2>2. j \in J
      BY <1>14, <2>1 DEF CommitOpening
    <2> QED BY <1>14, <2>2 DEF CommitOpening
  <1>15. ASSUME NEW J \in SUBSET Job, EnqueueBlindWindow(J) PROVE FALSE
    BY <1>5, <1>15 DEF EnqueueBlindWindow, MailKind
  <1>16. CASE ExpireMailOutboxAlerts
    BY <1>3, <1>16, AlertsDue \in SUBSET OpenJobs DEF ExpireMailOutboxAlerts, AlertsDue
  <1>17. ASSUME NEW i \in Job, EnqueueOperatorMail(i) PROVE FALSE
    BY <1>5, <1>17 DEF EnqueueOperatorMail, MailKind
  <1> QED
    BY <1>6, <1>7, <1>8, <1>9, <1>10, <1>11, <1>12, <1>13, <1>14, <1>15, <1>16, <1>17
    DEF QuietAction

\* An absent row is enqueued by a quiet action, or erased with its Subscriber.
LEMMA AbsentRows ==
    ASSUME TypeOK, [Next]_vars, NEW j \in Job, mail[j].status = "absent"
    PROVE  \/ QuietAction
           \/ mail'[j] = mail[j]
           \/ mail'[j] = Erased(mail[j]) /\ mail[j].owner \in purge.who
  <1> DEFINE Kept == \/ mail'[j] = mail[j]
                     \/ mail'[j] = Erased(mail[j]) /\ mail[j].owner \in purge.who
  <1>1. mail[j] \in Row /\ j \notin OpenJobs
    BY DEF TypeOK, OpenJobs, Live
  <1>2. ASSUME NEW Old, EraseSubscribers(Old), j \notin Old PROVE Kept
    BY <1>2 DEF EraseSubscribers, EraseRows
  <1>3. CASE DeleteSubscriberErase
    BY <1>2, <1>3 DEF DeleteSubscriberErase
  <1>4. ASSUME NEW Old \in SUBSET Job, SweepRetentionErase(Old) PROVE Kept
    BY <1>2, <1>4 DEF SweepRetentionErase, Terminal
  <1>5. ASSUME NEW d \in Dispatcher, WorkerStep(d) PROVE mail'[j] = mail[j]
    <2>1. Swept(j) = mail[j]
      BY <1>1 DEF Swept, HorizonDue, AlertsDue, Ineligible
    <2>2. CASE ClaimMailBatch(d)
      BY <1>1, <2>1, <2>2 DEF ClaimMailBatch, Pages, Claimable, TakeBatch, SweepOnly
    <2>3. ASSUME NEW i \in Job, PrepareMail(d, i) \/ SendMail(d, i) PROVE mail'[j] = mail[j]
      BY <2>3 DEF PrepareMail, SendMail
    <2>4. ASSUME NEW i \in Job, NEW status, SettleAs(d, i, status) PROVE mail'[j] = mail[j]
      BY <2>4 DEF SettleAs, EndAll, OwnsClaim
    <2>5. ASSUME NEW i \in Job, NEW delay \in 1..MaxBackoff, DeferMailJob(d, i, delay)
          PROVE  mail'[j] = mail[j]
      <3>1. CASE clock + delay >= Deadline(i)
        BY <2>4, <2>5, <3>1 DEF DeferMailJob
      <3>2. CASE ~(clock + delay >= Deadline(i))
        BY <2>5, <3>2 DEF DeferMailJob, OwnsClaim, TypeOK
      <3> QED BY <3>1, <3>2
    <2> QED
      BY <1>5, <2>2, <2>3, <2>4, <2>5
      DEF WorkerStep, CompleteMailJob, CancelClaimedMailJob, DeadLetterMailJob
  <1> QED
    BY NextCases, <1>3, <1>4, <1>5
    DEF Tick, SuppressEmail, AcknowledgeIncident, ResolveIncident, Crash, vars

\* A step that ends what entitles s to alerts ends its live alerts.
LEMMA EligibilityLost ==
    ASSUME TypeOK, [Next]_vars, NEW s \in Subscriber, Eligible(s), ~Eligible(s)',
           NEW j \in OpenJobs, Kind[j] = "alert", mail[j].owner = s
    PROVE  mail'[j].status \notin Live
  <1>1. j \in Job /\ mail[j] \in Row
    BY DEF OpenJobs, TypeOK
  <1>2. /\ Ended(mail[j], "cancelled").status \notin Live
        /\ Erased(mail[j]).status \notin Live
    BY <1>1, EndedFields, ErasedFields DEF Live
  <1>3. CASE RemoveWatch(s)
    BY <1>1, <1>2, <1>3 DEF RemoveWatch, EndAll
  <1>4. ASSUME NEW S \in SUBSET watching, RetireWatches(S) PROVE mail'[j].status \notin Live
    BY <1>1, <1>2, <1>4 DEF RetireWatches, EndAll, PerWatch
  <1>5. ASSUME NEW Old, EraseSubscribers(Old) PROVE mail'[j].status \notin Live
    <2>1. s \in purge.who
      BY <1>5 DEF EraseSubscribers, Eligible, TypeOK
    <2> QED BY <1>1, <1>2, <1>5, <2>1 DEF EraseSubscribers, EraseRows
  <1>6. ASSUME s \in watching', sub'[s] = "confirmed" PROVE FALSE
    BY <1>6 DEF Eligible
  <1>7. ASSUME NEW r \in Subscriber,
               \/ CreateSubscriber(r) \/ ConfirmSubscriber(r) \/ AddWatch(r)
               \/ RemoveWatch(r) /\ r # s
        PROVE  FALSE
    <2>1. s \in watching /\ sub[s] = "confirmed" /\ sub \in [Subscriber -> SubState]
      BY DEF Eligible, TypeOK
    <2> QED
      BY <1>6, <1>7, <2>1 DEF CreateSubscriber, ConfirmSubscriber, AddWatch, RemoveWatch
  <1>8. CASE UNCHANGED <<sub, watching>>
    BY <1>8 DEF Eligible
  <1> QED
    BY NextCases, <1>3, <1>4, <1>5, <1>7, <1>8
    DEF QuietAction, DeleteSubscriberDetach, EnqueueResendMail, SweepRetentionDetach,
        ObserveState, CommitOpening, EnqueueBlindWindow, ExpireMailOutboxAlerts,
        EnqueueOperatorMail, Tick, SuppressEmail, DeleteSubscriberErase, SweepRetentionErase,
        AcknowledgeIncident, ResolveIncident, WorkerStep, ClaimMailBatch, PrepareMail, SendMail,
        CompleteMailJob, CancelClaimedMailJob, DeadLetterMailJob, DeferMailJob, Settling,
        Crash, vars

\* Every alert that can still be sent has a confirmed Subscriber with a live Watch.
THEOREM AlertsHaveWatches == Spec => []AlertBacked
  <1>1. Init => AlertBacked
    BY DEF Init, NoRow, AlertBacked, OpenJobs, Live
  <1>2. TypeOK /\ AlertBacked /\ [Next]_vars => AlertBacked'
    <2> SUFFICES ASSUME TypeOK, AlertBacked, [Next]_vars,
                        NEW j \in Job, mail'[j].status \in Live, Kind[j] = "alert"
                 PROVE  mail'[j].owner \in watching' /\ sub'[mail'[j].owner] = "confirmed"
      BY DEF AlertBacked, OpenJobs, Eligible
    <2>1. CASE mail[j].status \in Live /\ mail'[j].owner = mail[j].owner
      <3>1. PICK s : s = mail[j].owner
        OBVIOUS
      <3>2. j \in OpenJobs /\ Eligible(s) /\ s \in Subscriber
        BY <2>1, <3>1 DEF AlertBacked, OpenJobs, Eligible, TypeOK
      <3>3. Eligible(s)'
        BY <3>1, <3>2, EligibilityLost
      <3> QED BY <2>1, <3>1, <3>3 DEF Eligible
    <2>2. CASE mail[j].status = "absent" /\ mail'[j] = NewRow(j)
      <3>1. mail'[j] # mail[j] /\ mail'[j] # Erased(mail[j])
        BY <2>2, ErasedFields DEF Live, TypeOK
      <3>2. Eligible(Owner[j]) /\ UNCHANGED <<sub, watching>>
        BY <2>2, <3>1, AbsentRows, QuietAlerts
      <3>3. mail'[j].owner = Owner[j]
        BY <2>2, NewRowFields
      <3> QED BY <3>2, <3>3 DEF Eligible
    <2> QED BY <2>1, <2>2, LiveRows
  <1> QED BY <1>1, <1>2, TypeCorrect, PTL DEF Spec

\* An open incident is lost only to an erasing transaction that had detached
\* everything it found.
THEOREM IncidentsSurviveErasure == Spec => IncidentLostOnlyToPurge
  <1> DEFINE Lost == \A j \in Job : OpenIncident(j) /\ incident'[j] = "none" =>
                         mail[j].owner \in purge.who
             Detaches == purge.by = "none" /\ purge'.by # "none" =>
                             \A j \in Job : OpenIncident(j) => mail'[j].owner \notin purge'.who
  <1>1. ASSUME TypeOK, [Next]_vars PROVE Lost
    <2> SUFFICES ASSUME NEW j \in Job, OpenIncident(j), incident'[j] = "none"
                 PROVE  mail[j].owner \in purge.who
      OBVIOUS
    <2>1. incident[j] # "none" /\ incident \in [Job -> IncidentState]
      BY <1>1 DEF OpenIncident, TypeOK
    <2>2. ASSUME NEW Old, EraseSubscribers(Old), ~(j \in Old) PROVE mail[j].owner \in purge.who
      BY <2>1, <2>2 DEF EraseSubscribers, EraseRows
    <2>3. CASE DeleteSubscriberErase
      BY <2>2, <2>3 DEF DeleteSubscriberErase
    <2>4. ASSUME NEW Old \in SUBSET Job, SweepRetentionErase(Old)
          PROVE  mail[j].owner \in purge.who
      BY <2>2, <2>4 DEF SweepRetentionErase
    <2>5. ASSUME NEW i \in Job, AcknowledgeIncident(i) \/ ResolveIncident(i) PROVE FALSE
      BY <2>1, <2>5 DEF AcknowledgeIncident, ResolveIncident
    <2>6. ASSUME NEW S, incident' = OpenIncidents(S) PROVE FALSE
      BY <2>1, <2>6 DEF OpenIncidents
    <2>7. ASSUME UNCHANGED incident PROVE FALSE
      BY <2>1, <2>7
    <2>8. ASSUME NEW d \in Dispatcher, NEW i \in Job, NEW status, SettleAs(d, i, status)
          PROVE  FALSE
      BY <2>6, <2>7, <2>8 DEF SettleAs
    <2>9. ASSUME NEW d \in Dispatcher, WorkerStep(d) PROVE FALSE
      BY <2>6, <2>7, <2>8, <2>9
      DEF WorkerStep, ClaimMailBatch, PrepareMail, SendMail, CompleteMailJob,
          CancelClaimedMailJob, DeadLetterMailJob, DeferMailJob
    <2>10. CASE QuietAction
      BY <1>1, <2>7, <2>10, QuietSteps DEF QuietStep, outboxUnchanged
    <2> QED
      BY <1>1, NextCases, <2>3, <2>4, <2>5, <2>7, <2>9, <2>10 DEF Tick, SuppressEmail, Crash, vars
  <1>2. ASSUME TypeOK, OneIncidentPerDeadLetter, [Next]_vars PROVE Detaches
    <2> SUFFICES ASSUME purge.by = "none", purge'.by # "none", NEW j \in Job, OpenIncident(j)
                 PROVE  mail'[j].owner \notin purge'.who
      OBVIOUS
    <2>1. Protected(j) /\ mail[j] \in Row /\ j \notin AlertsDue
      BY <1>2
      DEF OneIncidentPerDeadLetter, Protected, OpenIncident, TypeOK, AlertsDue, OpenJobs, Live
    <2>2. ASSUME NEW S \in SUBSET Subscriber PROVE Detached(S)[j].owner \notin S
      BY <2>1, OwnerAssumption DEF Detached, Row
    <2>3. ASSUME NEW s \in Subscriber, DeleteSubscriberDetach(s)
          PROVE  mail'[j].owner \notin purge'.who
      BY <2>2, <2>3 DEF DeleteSubscriberDetach
    <2>4. ASSUME NEW S \in SUBSET Subscriber, SweepRetentionDetach(S)
          PROVE  mail'[j].owner \notin purge'.who
      BY <2>1, <2>2, <2>4 DEF SweepRetentionDetach
    <2>5. purge' # purge /\ purge' # NoPurge
      BY DEF NoPurge
    <2> QED
      BY <1>2, NextCases, <2>3, <2>4, <2>5
      DEF QuietAction, CreateSubscriber, ConfirmSubscriber, AddWatch, RemoveWatch,
          EnqueueResendMail, RetireWatches, ObserveState, CommitOpening, EnqueueBlindWindow,
          ExpireMailOutboxAlerts, EnqueueOperatorMail, Tick, SuppressEmail,
          DeleteSubscriberErase, SweepRetentionErase, EraseSubscribers, AcknowledgeIncident,
          ResolveIncident, WorkerStep, ClaimMailBatch, PrepareMail, SendMail, CompleteMailJob,
          CancelClaimedMailJob, DeadLetterMailJob, DeferMailJob, Settling, Crash, vars
  <1>3. TypeOK /\ OneIncidentPerDeadLetter /\ [Next]_vars => [Lost /\ Detaches]_vars
    BY <1>1, <1>2
  <1> QED BY <1>3, TypeCorrect, IncidentsMatchDeadLetters, PTL DEF Spec, IncidentLostOnlyToPurge
===============================================================================
