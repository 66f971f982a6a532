----------------------- MODULE MailOutboxDispatchProofs -----------------------
(***************************************************************************)
(* No row is mailed twice and no claim is shared within its lease, for any *)
(* number of rows and overlapping workers.  The invariant is DispatchInv;  *)
(* a step either leaves the workers alone, only drops work of one of them, *)
(* or gives one idle worker a new batch.                                   *)
(* From the same account of stages: no mail passes a suppression, and the  *)
(* outbox implements MailPromise step by step.                             *)
(***************************************************************************)
EXTENDS MailOutboxProofs

WorkersKept == worker' = worker /\ claims' = claims

\* Worker d gives up jobs or moves them on; what it keeps is the same claim.
Shrinks(d) ==
    /\ claims' = claims /\ clock' = clock
    /\ \A e \in Dispatcher \ {d} : worker'[e] = worker[e]
    /\ worker'[d].token \in {0, worker[d].token}
    /\ \A j \in Job : worker'[d].work[j] # "none" =>
          /\ worker[d].work[j] # "none"
          /\ worker'[d].token = worker[d].token /\ worker'[d].since = worker[d].since
    /\ \A j \in Job : worker'[d].work[j] \in Unsent => worker[d].work[j] \in Unsent

Takes(d) ==
    /\ worker[d] = Idle /\ clock' = clock /\ claims' = claims + 1
    /\ \A e \in Dispatcher \ {d} : worker'[e] = worker[e]
    /\ worker'[d].token = claims + 1 /\ worker'[d].since = clock
    /\ \A j \in Job : worker'[d].work[j] # "none" =>
          /\ j \in Claimable /\ clock < Deadline(j)
          /\ mail'[j] = Claimed(mail[j], claims + 1)

\* Advancing a job that is held only lets go of work.
LEMMA AdvanceShrinks ==
    ASSUME TypeOK, NEW d \in Dispatcher, NEW j \in Job, NEW stage, Advance(d, j, stage),
           claims' = claims, clock' = clock, worker[d].work[j] # "none",
           stage \in Unsent => worker[d].work[j] \in Unsent
    PROVE  Shrinks(d)
  <1>1. Idle.token = 0 /\ \A i \in Job : Idle.work[i] = "none"
    BY DEF Idle
  <1>2. worker'[d].token \in {0, worker[d].token}
    BY <1>1, AdvanceFields
  <1>3. ASSUME NEW i \in Job, worker'[d].work[i] # "none"
        PROVE  /\ worker[d].work[i] # "none"
               /\ worker'[d].token = worker[d].token /\ worker'[d].since = worker[d].since
    BY <1>1, <1>3, AdvanceFields
  <1>4. ASSUME NEW i \in Job, worker'[d].work[i] \in Unsent
        PROVE  worker[d].work[i] \in Unsent
    BY <1>4, AdvanceFields
  <1>5. QED BY <1>2, <1>3, <1>4, AdvanceFields DEF Shrinks

\* A claim takes a new batch or leaves the workers alone.
LEMMA ClaimTakes ==
    ASSUME TypeOK, NEW d \in Dispatcher, ClaimMailBatch(d)
    PROVE  Takes(d) \/ WorkersKept
  <1>1. PICK B \in Pages(Claimable \ (HorizonDue \cup AlertsDue \cup Ineligible)) :
           IF B # {} /\ claims < MaxClaims THEN TakeBatch(d, B) ELSE SweepOnly
    BY DEF ClaimMailBatch
  <1>2. B \subseteq Claimable \ (HorizonDue \cup AlertsDue \cup Ineligible)
    BY DEF Pages
  <1>3. CASE TakeBatch(d, B)
    <2>1. /\ worker'[d] = [token |-> claims + 1, since |-> clock,
                           work |-> [j \in Job |-> IF j \in B THEN "claimed" ELSE "none"]]
          /\ \A e \in Dispatcher \ {d} : worker'[e] = worker[e]
      BY <1>3 DEF TakeBatch, TypeOK
    <2>2. ASSUME NEW j \in Job, worker'[d].work[j] # "none"
          PROVE  /\ j \in Claimable /\ clock < Deadline(j)
                 /\ mail'[j] = Claimed(mail[j], claims + 1)
      BY <1>2, <1>3, <2>1, <2>2, UnclaimedDue DEF TakeBatch
    <2>3. QED BY <1>1, <1>3, <2>1, <2>2 DEF ClaimMailBatch, TakeBatch, Takes
  <1>4. QED BY <1>1, <1>3 DEF SweepOnly, WorkersKept

\* Settling a job only lets go of work.
LEMMA SettlingShrinks ==
    ASSUME TypeOK, NEW d \in Dispatcher, NEW j \in Job, NEW result \in Result,
           Settling(d, j, result)
    PROVE  Shrinks(d)
  BY AdvanceShrinks DEF Settling, Result, Unsent

\* Every step keeps the workers, lets one let go of work, or gives one a batch.
LEMMA WorkerCases ==
    ASSUME TypeOK, [Next]_vars
    PROVE  WorkersKept \/ \E d \in Dispatcher : Shrinks(d) \/ Takes(d)
  <1>1. CASE QuietAction
    BY <1>1, QuietSteps DEF QuietStep, outboxUnchanged, WorkersKept
  <1>2. CASE Tick
    BY <1>2 DEF Tick, WorkersKept
  <1>3. ASSUME NEW s \in Subscriber, SuppressEmail(s) PROVE WorkersKept
    BY <1>3 DEF SuppressEmail, WorkersKept
  <1>4. ASSUME NEW Old, EraseSubscribers(Old) PROVE WorkersKept
    BY <1>4 DEF EraseSubscribers, WorkersKept
  <1>5. ASSUME NEW j \in Job, AcknowledgeIncident(j) \/ ResolveIncident(j) PROVE WorkersKept
    BY <1>5 DEF AcknowledgeIncident, ResolveIncident, WorkersKept
  <1>6. ASSUME NEW d \in Dispatcher, WorkerStep(d) PROVE WorkersKept \/ Shrinks(d) \/ Takes(d)
    <2>1. CASE ClaimMailBatch(d)
      BY <2>1, ClaimTakes
    <2>2. ASSUME NEW j \in Job, PrepareMail(d, j) PROVE Shrinks(d)
      BY <2>2, AdvanceShrinks DEF PrepareMail, Unsent
    <2>3. ASSUME NEW j \in Job, SendMail(d, j) PROVE Shrinks(d)
      BY <2>3, AdvanceShrinks DEF SendMail, Unsent
    <2>4. ASSUME NEW j \in Job,
                 CompleteMailJob(d, j) \/ CancelClaimedMailJob(d, j) \/ DeadLetterMailJob(d, j)
          PROVE  Shrinks(d)
      BY <2>4, SettlingShrinks DEF CompleteMailJob, CancelClaimedMailJob, DeadLetterMailJob, Result
    <2>5. ASSUME NEW j \in Job, NEW delay \in 1..MaxBackoff, DeferMailJob(d, j, delay)
          PROVE  Shrinks(d)
      BY <2>5, SettlingShrinks DEF DeferMailJob, Result
    <2>6. QED BY <1>6, <2>1, <2>2, <2>3, <2>4, <2>5 DEF WorkerStep
  <1>7. ASSUME NEW d \in Dispatcher, Crash(d) PROVE Shrinks(d)
    <2>1. worker'[d] = Idle /\ \A e \in Dispatcher \ {d} : worker'[e] = worker[e]
      BY <1>7 DEF Crash, TypeOK
    <2>2. Idle.token = 0 /\ \A j \in Job : Idle.work[j] = "none"
      BY DEF Idle
    <2>3. QED BY <1>7, <2>1, <2>2 DEF Crash, Shrinks, Unsent
  <1>8. CASE UNCHANGED vars
    BY <1>8 DEF vars, WorkersKept
  <1>9. QED
    BY NextCases, <1>1, <1>2, <1>3, <1>4, <1>5, <1>6, <1>7, <1>8
    DEF DeleteSubscriberErase, SweepRetentionErase

\* Only Tick moves the clock, and no dispatch outlives MaxDispatch.
LEMMA ClockCases ==
    ASSUME TypeOK, [Next]_vars
    PROVE  clock' = clock \/ Tick
  BY NextCases, QuietSteps
  DEF QuietStep, outboxUnchanged, SuppressEmail, DeleteSubscriberErase, SweepRetentionErase,
      EraseSubscribers, AcknowledgeIncident, ResolveIncident, WorkerStep, ClaimMailBatch,
      PrepareMail, SendMail, CompleteMailJob, CancelClaimedMailJob, DeadLetterMailJob,
      DeferMailJob, Settling, Crash, vars

\* Time never runs backwards.
LEMMA ClockGrows ==
    ASSUME TypeOK, [Next]_vars
    PROVE  clock' \in Nat /\ clock <= clock'
  BY ClockCases DEF Tick, TypeOK

\* Only SendMail reaches the provider, and it writes no row.
LEMMA ProviderCases ==
    ASSUME TypeOK, [Next]_vars
    PROVE  \/ provider' = provider
           \/ \E d \in Dispatcher, j \in Job :
                 /\ worker[d].work[j] = "cleared" /\ provider' = Accept(j)
                 /\ UNCHANGED <<clock, mail>>
  BY NextCases, QuietSteps
  DEF QuietStep, outboxUnchanged, Tick, SuppressEmail, DeleteSubscriberErase, SweepRetentionErase,
      EraseSubscribers, AcknowledgeIncident, ResolveIncident, WorkerStep, ClaimMailBatch,
      PrepareMail, SendMail, CompleteMailJob, CancelClaimedMailJob, DeadLetterMailJob,
      DeferMailJob, Settling, Crash, vars

\* A row keeps its creation time, and never becomes absent.
LEMMA RowKeepsTime ==
    ASSUME TypeOK, [Next]_vars, NEW j \in Job
    PROVE  /\ mail'[j].status = "absent" => mail[j].status = "absent"
           /\ mail'[j].at = mail[j].at \/ (mail[j].status = "absent" /\ mail'[j].at = clock)
  <1>1. mail[j] \in Row /\ claims \in Nat
    BY DEF TypeOK
  <1>2. RowMove(j)
    BY StepMoves
  <1>3. CASE QuietMove(j)
    BY <1>3, QuietFields
  <1>4. ASSUME NEW status \in Terminal, mail'[j] = Ended(mail[j], status)
        PROVE  mail'[j].status = status /\ mail'[j].at = mail[j].at
    BY <1>1, <1>4, EndedFields
  <1>5. CASE mail'[j] = Erased(mail[j])
    BY <1>1, <1>5, ErasedFields
  <1>6. CASE mail'[j] = Claimed(mail[j], claims + 1)
    BY <1>1, <1>6, ClaimedFields
  <1>7. ASSUME NEW at \in Nat, mail'[j] = Requeued(mail[j], at)
        PROVE  mail'[j].status = "queued" /\ mail'[j].at = mail[j].at
    BY <1>1, <1>7, RequeuedFields
  <1>8. QED BY <1>2, <1>3, <1>4, <1>5, <1>6, <1>7 DEF RowMove, Terminal
-------------------------------------------------------------------------------
(* The conjuncts of DispatchInv, one lemma each *)

\* What d holds after a step that is not its own batch, it held before under the
\* same claim.
LEMMA StillHolds ==
    ASSUME TypeOK, NEW d \in Dispatcher, NEW j \in Job, worker'[d].work[j] # "none",
           WorkersKept \/ (\E e \in Dispatcher : Shrinks(e) \/ (Takes(e) /\ e # d))
    PROVE  /\ Holds(d, j)
           /\ worker'[d].token = worker[d].token /\ worker'[d].since = worker[d].since
           /\ worker'[d].work[j] \in Unsent => worker[d].work[j] \in Unsent
  BY DEF WorkersKept, Shrinks, Takes, Holds

\* Tokens stay distinct.
LEMMA TokensStep ==
    ASSUME TypeOK, TokensDistinct, [Next]_vars
    PROVE  TokensDistinct'
  <1>1. claims \in Nat /\ claims' \in {claims, claims + 1}
    BY WorkerCases DEF TypeOK, WorkersKept, Shrinks, Takes
  <1>2. ASSUME NEW j \in Job PROVE mail'[j].claimToken <= claims'
    <2>1. mail[j] \in Row /\ mail[j].claimToken \in Nat /\ mail[j].claimToken <= claims
      BY DEF TypeOK, Row, TokensDistinct
    <2>2. CASE QuietMove(j)
      BY <1>1, <2>1, <2>2, QuietFields
    <2>3. ASSUME NEW status \in Terminal, mail'[j] = Ended(mail[j], status)
          PROVE  mail'[j].claimToken = 0
      BY <2>1, <2>3, EndedFields
    <2>4. CASE mail'[j] = Erased(mail[j])
      BY <1>1, <2>1, <2>4, ErasedFields
    <2>5. CASE mail'[j] = Claimed(mail[j], claims + 1) /\ claims' = claims + 1
      BY <1>1, <2>1, <2>5, ClaimedFields
    <2>6. ASSUME NEW at \in Nat, mail'[j] = Requeued(mail[j], at)
          PROVE  mail'[j].claimToken = 0
      BY <2>1, <2>6, RequeuedFields
    <2>7. QED BY <1>1, <2>2, <2>3, <2>4, <2>5, <2>6, StepMoves DEF RowMove
  <1>3. ASSUME NEW d \in Dispatcher PROVE worker'[d].token <= claims'
    <2>1. worker[d].token \in Nat /\ worker[d].token <= claims
      BY DEF TypeOK, Worker, TokensDistinct
    <2>2. worker'[d].token \in {0, worker[d].token} \/ worker'[d].token = claims'
      BY WorkerCases DEF WorkersKept, Shrinks, Takes
    <2>3. QED BY <1>1, <2>1, <2>2
  <1>4. ASSUME NEW d \in Dispatcher, NEW j \in Job, worker'[d].work[j] # "none"
        PROVE  worker'[d].token # 0 /\ mail'[j].status # "absent"
    <2>1. CASE Takes(d)
      <3>1. mail[j] \in Row /\ mail'[j] = Claimed(mail[j], claims + 1)
        BY <1>4, <2>1 DEF Takes, TypeOK
      <3>2. QED BY <1>1, <2>1, <3>1, ClaimedFields DEF Takes
    <2>2. CASE ~Takes(d)
      <3>1. Holds(d, j) /\ worker'[d].token = worker[d].token
        BY <1>4, <2>2, WorkerCases, StillHolds
      <3>2. QED BY <3>1, RowKeepsTime DEF TokensDistinct
    <2>3. QED BY <2>1, <2>2
  <1>5. ASSUME NEW d \in Dispatcher, NEW e \in Dispatcher \ {d}, worker'[d].token # 0
        PROVE  worker'[e].token # worker'[d].token
    <2>1. /\ worker[d].token \in Nat /\ worker[d].token <= claims
          /\ worker[e].token \in Nat /\ worker[e].token <= claims
          /\ worker[d].token # 0 => worker[e].token # worker[d].token
      BY DEF TypeOK, Worker, TokensDistinct
    <2>2. CASE WorkersKept
      BY <1>5, <2>1, <2>2 DEF WorkersKept
    <2>3. ASSUME NEW f \in Dispatcher, Shrinks(f) PROVE worker'[e].token # worker'[d].token
      BY <1>5, <2>1, <2>3 DEF Shrinks
    <2>4. ASSUME NEW f \in Dispatcher, Takes(f) PROVE worker'[e].token # worker'[d].token
      BY <1>1, <1>5, <2>1, <2>4 DEF Takes
    <2>5. QED BY <2>2, <2>3, <2>4, WorkerCases
  <1>6. QED BY <1>2, <1>3, <1>4, <1>5 DEF TokensDistinct, Holds

\* A row can only be claimed away from a holder whose lease is over.
LEMMA ClaimedAway ==
    ASSUME TypeOK, ClaimsKept, NEW d \in Dispatcher, NEW j \in Claimable, Holds(d, j)
    PROVE  worker[d].since + Lease <= clock
  <1>1. j \in Job /\ mail[j].status \in Live
    BY DEF Claimable, OpenJobs
  <1>2. CASE OwnsClaim(d, j) /\ mail[j].claimedAt = worker[d].since
    BY <1>2 DEF Claimable, OwnsClaim, LeaseExpired
  <1>3. QED BY <1>1, <1>2 DEF ClaimsKept, Live, Terminal

\* A claim stays good until its row is over or its lease is.
LEMMA ClaimsStep ==
    ASSUME TypeOK, TokensDistinct, ClaimsKept, [Next]_vars
    PROVE  ClaimsKept'
  <1> SUFFICES ASSUME NEW d \in Dispatcher, NEW j \in Job, worker'[d].work[j] # "none"
               PROVE  \/ OwnsClaim(d, j)' /\ mail'[j].claimedAt = worker'[d].since
                      \/ mail'[j].status \in Terminal \cup {"erased"}
                      \/ worker'[d].since + Lease <= clock'
    BY DEF ClaimsKept, Holds
  <1>1. mail[j] \in Row /\ clock \in Nat /\ clock' \in Nat /\ clock <= clock' /\ Lease \in Nat
    BY ClockGrows, TimeAssumption DEF TypeOK
  <1>2. CASE Takes(d)
    <2>1. mail'[j] = Claimed(mail[j], claims + 1)
      BY <1>2 DEF Takes
    <2>2. QED BY <1>1, <1>2, <2>1, ClaimedFields DEF Takes, OwnsClaim
  <1>3. CASE ~Takes(d)
    <2>1. Holds(d, j) /\ worker'[d].token = worker[d].token /\ worker'[d].since = worker[d].since
      BY <1>3, WorkerCases, StillHolds
    <2>2. mail[j].status # "absent" /\ worker[d].since \in Nat
      BY <2>1 DEF TokensDistinct, TypeOK, Worker
    <2>3. CASE worker[d].since + Lease <= clock
      BY <1>1, <2>1, <2>2, <2>3
    <2>4. CASE ~(worker[d].since + Lease <= clock)
      <3>1. \/ OwnsClaim(d, j) /\ mail[j].claimedAt = worker[d].since
            \/ mail[j].status \in Terminal \cup {"erased"}
        BY <2>1, <2>4 DEF ClaimsKept
      <3>2. CASE QuietMove(j)
        BY <2>1, <2>2, <3>1, <3>2, QuietFields DEF OwnsClaim, Terminal
      <3>3. ASSUME NEW status \in Terminal, mail'[j] = Ended(mail[j], status)
            PROVE  mail'[j].status \in Terminal
        BY <1>1, <3>3, EndedFields
      <3>4. CASE mail'[j] = Erased(mail[j])
        BY <1>1, <3>4, ErasedFields
      <3>5. j \notin Claimable
        BY <2>1, <2>4, ClaimedAway
      <3>6. ASSUME NEW e \in Dispatcher, OwnsClaim(e, j), Holds(e, j), worker'[e].work[j] = "none"
            PROVE  FALSE
        <4>1. e # d
          BY <3>6
        <4>2. mail[j].status = "processing" /\ mail[j].claimToken = worker[e].token
          BY <3>6 DEF OwnsClaim
        <4>3. mail[j].claimToken = worker[d].token
          BY <3>1, <4>2 DEF OwnsClaim, Terminal
        <4>4. worker[e].token # 0 /\ worker[d].token # worker[e].token
          BY <3>6, <4>1 DEF TokensDistinct
        <4>5. QED BY <4>2, <4>3, <4>4
      <3>7. QED BY <3>2, <3>3, <3>4, <3>5, <3>6, StepMoves DEF RowMove
    <2>5. QED BY <2>3, <2>4
  <1>4. QED BY <1>2, <1>3

\* Two holders of a row stay a lease apart.
LEMMA LeaseStep ==
    ASSUME TypeOK, ClaimsKept, LeaseExclusive, [Next]_vars
    PROVE  LeaseExclusive'
  <1>1. ASSUME NEW d \in Dispatcher, NEW e \in Dispatcher, NEW j \in Job, d # e,
               Takes(d), worker'[d].work[j] # "none", worker'[e].work[j] # "none"
        PROVE  worker'[e].since + Lease <= worker'[d].since
    <2>1. worker'[e] = worker[e] /\ worker'[d].since = clock /\ j \in Claimable
      BY <1>1 DEF Takes
    <2>2. Holds(e, j)
      BY <1>1, <2>1 DEF Holds
    <2>3. QED BY <2>1, <2>2, ClaimedAway
  <1>2. ASSUME NEW d \in Dispatcher, NEW e \in Dispatcher, NEW j \in Job, d # e,
               worker'[d].work[j] # "none", worker'[e].work[j] # "none",
               ~Takes(d), ~Takes(e)
        PROVE  \/ worker'[d].since + Lease <= worker'[e].since
               \/ worker'[e].since + Lease <= worker'[d].since
    <2>1. Holds(d, j) /\ worker'[d].since = worker[d].since
      BY <1>2, WorkerCases, StillHolds
    <2>2. Holds(e, j) /\ worker'[e].since = worker[e].since
      BY <1>2, WorkerCases, StillHolds
    <2>3. QED BY <1>2, <2>1, <2>2 DEF LeaseExclusive
  <1>3. QED BY <1>1, <1>2 DEF LeaseExclusive, Holds

\* No row is created in the future.
LEMMA CreationStep ==
    ASSUME TypeOK, \A j \in Job : mail[j].at <= clock, [Next]_vars
    PROVE  \A j \in Job : mail'[j].at <= clock'
  <1> SUFFICES ASSUME NEW j \in Job PROVE mail'[j].at <= clock'
    OBVIOUS
  <1>1. mail[j].at \in Nat /\ clock \in Nat
    BY DEF TypeOK, Row
  <1>2. QED BY <1>1, RowKeepsTime, ClockGrows

\* A deadline is a time.
LEMMA DeadlineType == ASSUME TypeOK, NEW j \in Job PROVE Horizon(j) \in Nat /\ Deadline(j) \in Nat
  BY TimeAssumption DEF Horizon, Deadline, TypeOK, Row

\* Jobs are sent only soon after a claim made before their deadline.
LEMMA SendsStep ==
    ASSUME TypeOK, TokensDistinct, SendsInTime, [Next]_vars
    PROVE  SendsInTime'
  <1> SUFFICES ASSUME NEW d \in Dispatcher, NEW j \in Job, worker'[d].work[j] \in Unsent
               PROVE  /\ worker'[d].since < Deadline(j)'
                      /\ clock' <= worker'[d].since + MaxDispatch
    BY DEF SendsInTime
  <1>1. /\ clock \in Nat /\ MaxDispatch \in Nat /\ Deadline(j) \in Nat
        /\ worker'[d].work[j] # "none" /\ mail[j] \in Row
    BY DeadlineType, TimeAssumption DEF TypeOK, Unsent
  <1>2. CASE Takes(d)
    <2>1. mail[j].status # "absent" /\ clock < Deadline(j)
      BY <1>1, <1>2 DEF Takes, Claimable, OpenJobs, Live
    <2>2. Deadline(j)' = Deadline(j)
      BY <2>1, RowKeepsTime DEF Deadline, Horizon
    <2>3. QED BY <1>1, <1>2, <2>1, <2>2 DEF Takes
  <1>3. CASE ~Takes(d)
    <2>1. /\ Holds(d, j) /\ worker'[d].since = worker[d].since
          /\ worker[d].work[j] \in Unsent
      BY <1>1, <1>3, WorkerCases, StillHolds
    <2>2. /\ mail[j].status # "absent" /\ worker[d].since \in Nat
          /\ worker[d].since < Deadline(j) /\ clock <= worker[d].since + MaxDispatch
      BY <2>1 DEF TokensDistinct, SendsInTime, TypeOK, Worker
    <2>3. Deadline(j)' = Deadline(j)
      BY <2>2, RowKeepsTime DEF Deadline, Horizon
    <2>4. clock' <= worker[d].since + MaxDispatch
      BY <1>1, <2>1, <2>2, ClockCases DEF Tick
    <2>5. QED BY <2>1, <2>2, <2>3, <2>4
  <1>4. QED BY <1>2, <1>3

\* A job is only ever sent inside the window in which the provider remembers it.
LEMMA SentOnce ==
    ASSUME TypeOK, TokensDistinct, SendsInTime, KeysAfterRows,
           NEW d \in Dispatcher, NEW j \in Job, worker[d].work[j] = "cleared",
           provider[j].emails > 0
    PROVE  Accept(j) = provider
  <1>1. /\ clock \in Nat /\ mail[j].at \in Nat /\ worker[d].since \in Nat
        /\ provider[j].firstAt \in Nat /\ MaxDispatch \in Nat /\ RetryHorizon \in Nat
        /\ AlertExpiry \in Nat /\ ProviderWindow \in Nat
    BY TimeAssumption DEF TypeOK, Row, Worker, ProviderEntry
  <1>2. worker[d].since < Deadline(j) /\ clock <= worker[d].since + MaxDispatch
    BY DEF SendsInTime, Unsent
  <1>3. Deadline(j) <= mail[j].at + RetryHorizon
    BY <1>1, HorizonAssumption DEF Deadline, Horizon
  <1>4. mail[j].at <= provider[j].firstAt
    BY DEF KeysAfterRows
  <1>5. Deadline(j) \in Nat
    BY DeadlineType
  <1>6. clock < provider[j].firstAt + ProviderWindow
    BY <1>1, <1>2, <1>3, <1>4, <1>5, HorizonAssumption
  <1>7. QED BY <1>6 DEF Accept

\* The provider learns a key only after its row exists, and mails it once.
LEMMA ProviderStep ==
    ASSUME TypeOK, TokensDistinct, SendsInTime, KeysAfterRows, AtMostOneEmail,
           \A j \in Job : mail[j].at <= clock, [Next]_vars
    PROVE  KeysAfterRows' /\ AtMostOneEmail'
  <1> SUFFICES ASSUME NEW j \in Job
               PROVE  /\ provider'[j].emails <= 1
                      /\ provider'[j].emails > 0 =>
                             mail'[j].status # "absent" /\ mail'[j].at <= provider'[j].firstAt
    BY DEF KeysAfterRows, AtMostOneEmail
  <1>1. CASE provider'[j] = provider[j]
    BY <1>1, RowKeepsTime DEF KeysAfterRows, AtMostOneEmail
  <1>2. ASSUME NEW d \in Dispatcher, NEW i \in Job,
               worker[d].work[i] = "cleared", provider' = Accept(i), provider'[j] # provider[j]
        PROVE  /\ provider'[j].emails = 1 /\ mail'[j].status # "absent"
               /\ mail'[j].at <= provider'[j].firstAt
    <2>1. i = j
      BY <1>2 DEF Accept, TypeOK
    <2>2. ~(provider[j].emails > 0) /\ provider[j].emails \in Nat
      BY <1>2, <2>1, SentOnce DEF TypeOK, ProviderEntry
    <2>3. provider'[j] = [emails |-> provider[j].emails + 1, firstAt |-> clock]
      BY <1>2, <2>1, <2>2 DEF Accept, TypeOK
    <2>4. mail[j].status # "absent" /\ mail[j].at <= clock
      BY <1>2, <2>1 DEF TokensDistinct, Holds
    <2>5. QED BY <2>2, <2>3, <2>4, RowKeepsTime
  <1>3. QED BY <1>1, <1>2, ProviderCases
-------------------------------------------------------------------------------
\* DispatchInv is inductive.
THEOREM DispatchInvariant == Spec => []DispatchInv
  <1>1. Init => DispatchInv
    BY DEF Init, NoRow, Idle, DispatchInv, TokensDistinct, ClaimsKept, LeaseExclusive,
       SendsInTime, KeysAfterRows, AtMostOneEmail, Holds, Unsent
  <1>2. TypeOK /\ DispatchInv /\ [Next]_vars => DispatchInv'
    BY TokensStep, ClaimsStep, LeaseStep, CreationStep, SendsStep, ProviderStep DEF DispatchInv
  <1>3. QED BY <1>1, <1>2, TypeCorrect, PTL DEF Spec

\* The provider is asked for at most one email per row, whatever the workers,
\* crashes, lost answers and retries.
THEOREM NoRowIsMailedTwice == Spec => []AtMostOneEmail
  BY DispatchInvariant, PTL DEF DispatchInv

\* Two workers hold the same row only across an expired lease.
THEOREM ClaimsAreExclusive == Spec => []LeaseExclusive
  BY DispatchInvariant, PTL DEF DispatchInv

\* No new email leaves for a row later than one dispatch after its deadline.
THEOREM SendsStop == Spec => SendsStopAtDeadline
  <1>1. TypeOK /\ DispatchInv /\ [Next]_vars =>
            [\A j \in Job : provider'[j].emails > provider[j].emails =>
                 clock < Deadline(j) + MaxDispatch]_vars
    <2> SUFFICES ASSUME TypeOK, DispatchInv, [Next]_vars, NEW j \in Job,
                        provider'[j].emails > provider[j].emails
                 PROVE  clock < Deadline(j) + MaxDispatch
      OBVIOUS
    <2>1. provider[j].emails \in Nat
      BY DEF TypeOK, ProviderEntry
    <2>2. PICK d \in Dispatcher, i \in Job :
              worker[d].work[i] = "cleared" /\ provider' = Accept(i)
      BY <2>1, ProviderCases
    <2>3. i = j
      BY <2>1, <2>2 DEF Accept, TypeOK
    <2>4. worker[d].since < Deadline(j) /\ clock <= worker[d].since + MaxDispatch
      BY <2>2, <2>3 DEF DispatchInv, SendsInTime, Unsent
    <2>5. clock \in Nat /\ worker[d].since \in Nat /\ Deadline(j) \in Nat /\ MaxDispatch \in Nat
      BY DeadlineType, TimeAssumption DEF TypeOK, Worker
    <2>6. QED BY <2>4, <2>5
  <1>2. QED BY <1>1, TypeCorrect, DispatchInvariant, PTL DEF SendsStopAtDeadline, Spec
-------------------------------------------------------------------------------
(* Suppression *)

\* A stage past the claim was reached before, or is reached by a prepared or a
\* sent job.
LEMMA StageStep ==
    ASSUME TypeOK, [Next]_vars, NEW d \in Dispatcher, NEW j \in Job,
           worker'[d].work[j] \notin {"none", "claimed"}
    PROVE  \/ worker'[d].work[j] = worker[d].work[j]
           \/ /\ PrepareMail(d, j) \/ SendMail(d, j)
              /\ Advance(d, j, worker'[d].work[j])
  <1> DEFINE Reached == \/ worker'[d].work[j] = worker[d].work[j]
                        \/ /\ PrepareMail(d, j) \/ SendMail(d, j)
                           /\ Advance(d, j, worker'[d].work[j])
  <1>1. ASSUME NEW e \in Dispatcher, NEW i \in Job, NEW stage, Advance(e, i, stage)
        PROVE  IF e = d /\ i = j THEN worker'[d].work[j] = stage
               ELSE worker'[d].work[j] = worker[d].work[j]
    BY <1>1, AdvanceFields
  <1>2. ASSUME NEW e \in Dispatcher, NEW i \in Job, PrepareMail(e, i) \/ SendMail(e, i)
        PROVE  Reached
    <2>1. PICK stage : Advance(e, i, stage)
      BY <1>2 DEF PrepareMail, SendMail
    <2> QED BY <1>1, <1>2, <2>1
  <1>3. ASSUME NEW e \in Dispatcher, NEW i \in Job, NEW result, Settling(e, i, result)
        PROVE  Reached
    BY <1>1, <1>3 DEF Settling
  <1>4. ASSUME NEW e \in Dispatcher, ClaimMailBatch(e) PROVE Reached
    <2>1. PICK B : TakeBatch(e, B) \/ SweepOnly
      BY <1>4 DEF ClaimMailBatch
    <2>2. CASE SweepOnly
      BY <2>2 DEF SweepOnly
    <2>3. CASE TakeBatch(e, B)
      <3>1. /\ worker'[e] = [token |-> claims + 1, since |-> clock,
                             work |-> [i \in Job |-> IF i \in B THEN "claimed" ELSE "none"]]
            /\ \A f \in Dispatcher \ {e} : worker'[f] = worker[f]
        BY <2>3 DEF TakeBatch, TypeOK
      <3> QED BY <3>1
    <2> QED BY <2>1, <2>2, <2>3
  <1>5. ASSUME NEW e \in Dispatcher, Crash(e) PROVE Reached
    BY <1>5 DEF Crash, Idle, TypeOK
  <1>6. ASSUME NEW e \in Dispatcher, WorkerStep(e) PROVE Reached
    BY <1>2, <1>3, <1>4, <1>6
    DEF WorkerStep, CompleteMailJob, CancelClaimedMailJob, DeadLetterMailJob, DeferMailJob
  <1>7. UNCHANGED worker \/ \E e \in Dispatcher : WorkerStep(e) \/ Crash(e)
    BY NextCases, QuietSteps
    DEF QuietStep, outboxUnchanged, Tick, SuppressEmail, DeleteSubscriberErase,
        SweepRetentionErase, EraseSubscribers, AcknowledgeIncident, ResolveIncident, vars
  <1> QED BY <1>5, <1>6, <1>7

\* A job of a suppressed address never passes the suppression check.
LEMMA ClearedStep ==
    ASSUME TypeOK, [Next]_vars, NEW s \in suppressed, NEW d \in Dispatcher,
           NEW j \in SubscriberMail(s), worker'[d].work[j] = "cleared"
    PROVE  worker[d].work[j] = "cleared"
  <1>1. j \in Job /\ Owner[j] = s /\ Kind[j] # "operator"
    BY OwnerAssumption DEF SubscriberMail, TypeOK
  <1>2. ASSUME NEW stage, Advance(d, j, stage) PROVE stage = "cleared"
    BY <1>1, <1>2, AdvanceFields
  <1>3. ~PrepareMail(d, j)
    <2>1. /\ ~Advance(d, j, "suppressed") /\ ~Advance(d, j, "retryable")
          /\ ~Advance(d, j, "permanent")
      BY <1>2
    <2> QED BY <1>1, <2>1 DEF PrepareMail
  <1>4. ~SendMail(d, j)
    <2>1. /\ ~Advance(d, j, "success") /\ ~Advance(d, j, "retryable")
          /\ ~Advance(d, j, "permanent")
      BY <1>2
    <2> QED BY <2>1 DEF SendMail
  <1> QED BY <1>1, <1>3, <1>4, StageStep

\* Once the sends already past their check have drained, no mail of a suppressed
\* address is cleared or accepted.
THEOREM SuppressedMailStops == Spec => SuppressionHolds
  <1> DEFINE Held == \A s \in suppressed : NoneCleared(s) =>
                         /\ NoneCleared(s)'
                         /\ \A j \in SubscriberMail(s) : provider'[j] = provider[j]
  <1>1. ASSUME TypeOK, [Next]_vars PROVE Held
    <2> SUFFICES ASSUME NEW s \in suppressed, NoneCleared(s)
                 PROVE  /\ NoneCleared(s)'
                        /\ \A j \in SubscriberMail(s) : provider'[j] = provider[j]
      OBVIOUS
    <2>1. NoneCleared(s)'
      BY <1>1, ClearedStep DEF NoneCleared, SubscriberMail
    <2>2. ASSUME NEW j \in SubscriberMail(s), NEW d \in Dispatcher, NEW i \in Job,
                 worker[d].work[i] = "cleared", provider' = Accept(i)
          PROVE  provider'[j] = provider[j]
      BY <1>1, <2>2 DEF NoneCleared, Accept, SubscriberMail, TypeOK
    <2> QED BY <1>1, <2>1, <2>2, ProviderCases
  <1>2. TypeOK /\ [Next]_vars => [Held]_vars
    BY <1>1
  <1> QED BY <1>2, TypeCorrect, PTL DEF Spec, SuppressionHolds
-------------------------------------------------------------------------------
(* The promise *)

\* A job reported as sent was accepted by the provider.
AcceptedFirst ==
    \A d \in Dispatcher, j \in Job :
        worker[d].work[j] = "success" => provider[j].emails > 0
\* A row that was never enqueued belongs to nobody.
AbsentUnowned == \A j \in Job : mail[j].status = "absent" => mail[j].owner = NoSubscriber

\* The provider never takes an email back.
LEMMA EmailsGrow ==
    ASSUME TypeOK, [Next]_vars, NEW j \in Job
    PROVE  /\ provider[j].emails \in Nat /\ provider'[j].emails \in Nat
           /\ provider'[j].emails \in {provider[j].emails, provider[j].emails + 1}
  <1>1. provider \in [Job -> ProviderEntry] /\ provider[j].emails \in Nat
    BY DEF TypeOK, ProviderEntry
  <1>2. ASSUME NEW i \in Job, provider' = Accept(i)
        PROVE  provider'[j].emails \in {provider[j].emails, provider[j].emails + 1}
    BY <1>1, <1>2 DEF Accept, ProviderEntry
  <1> QED BY <1>1, <1>2, ProviderCases

\* An accepted key has an email.
LEMMA AcceptMails ==
    ASSUME TypeOK, NEW j \in Job, provider' = Accept(j)
    PROVE  provider'[j].emails > 0
  <1>1. provider \in [Job -> ProviderEntry] /\ provider[j].emails \in Nat
    BY DEF TypeOK, ProviderEntry
  <1> QED BY <1>1 DEF Accept, ProviderEntry

\* A worker learns of success only from the provider.
LEMMA AcceptedStep == TypeOK /\ AcceptedFirst /\ [Next]_vars => AcceptedFirst'
  <1> SUFFICES ASSUME TypeOK, AcceptedFirst, [Next]_vars, NEW d \in Dispatcher, NEW j \in Job,
                      worker'[d].work[j] = "success"
               PROVE  provider'[j].emails > 0
    BY DEF AcceptedFirst
  <1>1. ASSUME NEW stage, Advance(d, j, stage) PROVE stage = "success"
    BY <1>1, AdvanceFields
  <1>2. CASE worker[d].work[j] = "success"
    BY <1>2, EmailsGrow DEF AcceptedFirst
  <1>3. ~PrepareMail(d, j)
    <2>1. /\ ~Advance(d, j, "suppressed") /\ ~Advance(d, j, "retryable")
          /\ ~Advance(d, j, "permanent") /\ ~Advance(d, j, "cleared")
      BY <1>1
    <2> QED BY <2>1 DEF PrepareMail
  <1>4. CASE SendMail(d, j)
    <2>1. ~Advance(d, j, "retryable") /\ ~Advance(d, j, "permanent")
      BY <1>1
    <2>2. provider' = Accept(j)
      BY <1>4, <2>1 DEF SendMail
    <2> QED BY <2>2, AcceptMails
  <1> QED BY <1>2, <1>3, <1>4, StageStep

\* Only enqueuing gives a row an owner.
LEMMA UnownedStep == TypeOK /\ AbsentUnowned /\ [Next]_vars => AbsentUnowned'
  <1> SUFFICES ASSUME TypeOK, AbsentUnowned, [Next]_vars, NEW j \in Job,
                      mail'[j].status = "absent"
               PROVE  mail'[j].owner = NoSubscriber
    BY DEF AbsentUnowned
  <1>1. mail[j].status = "absent" /\ mail[j] \in Row
    BY RowKeepsTime DEF TypeOK
  <1>2. CASE QuietAction
    <2>1. QuietMove(j)
      BY <1>2, QuietSteps DEF QuietStep, QuietRows
    <2> QED BY <1>1, <2>1, QuietFields DEF AbsentUnowned, Live
  <1>3. mail'[j] # Erased(mail[j])
    BY <1>1, ErasedFields
  <1> QED BY <1>1, <1>2, <1>3, AbsentRows DEF AbsentUnowned

\* A row is only recorded as sent when its worker was told so.
LEMMA SentMeansSuccess ==
    ASSUME TypeOK, [Next]_vars, NEW j \in Job, mail[j].status \in Live,
           mail'[j].status = "sent"
    PROVE  \E d \in Dispatcher : worker[d].work[j] = "success"
  <1>1. mail[j] \in Row /\ mail'[j] # mail[j]
    BY DEF TypeOK, Live
  <1>2. ~QuietAction
    <2>1. ASSUME QuietAction PROVE FALSE
      <3>1. QuietMove(j)
        BY <2>1, QuietSteps DEF QuietStep, QuietRows
      <3> QED BY <1>1, <3>1, QuietFields DEF Live
    <2> QED BY <2>1
  <1>3. ASSUME NEW Old, EraseSubscribers(Old) PROVE FALSE
    BY <1>1, <1>3, ErasedFields DEF EraseSubscribers, EraseRows
  <1>4. ASSUME NEW d \in Dispatcher, NEW i \in Job, NEW status, SettleAs(d, i, status)
        PROVE  i = j /\ status = "sent"
    BY <1>1, <1>4, EndedFields DEF SettleAs, EndAll
  <1>5. ASSUME NEW d \in Dispatcher, ClaimMailBatch(d) PROVE FALSE
    <2>1. Swept(j).status # "sent"
      BY <1>1, EndedFields DEF Swept, Live
    <2>2. Claimed(mail[j], claims + 1).status # "sent"
      BY <1>1, ClaimedFields
    <2> QED BY <1>5, <2>1, <2>2 DEF ClaimMailBatch, TakeBatch, SweepOnly
  <1>6. ASSUME NEW d \in Dispatcher, NEW i \in Job, NEW delay \in 1..MaxBackoff,
               DeferMailJob(d, i, delay)
        PROVE  FALSE
    <2>1. CASE clock + delay >= Deadline(i)
      BY <1>4, <1>6, <2>1 DEF DeferMailJob
    <2>2. CASE ~(clock + delay >= Deadline(i))
      <3>1. Requeued(mail[j], clock + delay).status # "sent"
        BY <1>1, RequeuedFields
      <3> QED BY <1>1, <1>6, <2>2, <3>1 DEF DeferMailJob, TypeOK
    <2> QED BY <2>1, <2>2
  <1>7. ASSUME NEW d \in Dispatcher, WorkerStep(d)
        PROVE  worker[d].work[j] = "success"
    <2>1. ASSUME NEW i \in Job, PrepareMail(d, i) \/ SendMail(d, i) PROVE FALSE
      BY <1>1, <2>1 DEF PrepareMail, SendMail
    <2>2. ASSUME NEW i \in Job, CancelClaimedMailJob(d, i) \/ DeadLetterMailJob(d, i) PROVE FALSE
      BY <1>4, <2>2 DEF CancelClaimedMailJob, DeadLetterMailJob
    <2>3. ASSUME NEW i \in Job, CompleteMailJob(d, i) PROVE worker[d].work[j] = "success"
      BY <1>4, <2>3 DEF CompleteMailJob, Settling
    <2> QED BY <1>5, <1>6, <1>7, <2>1, <2>2, <2>3 DEF WorkerStep
  <1> QED
    BY NextCases, <1>1, <1>2, <1>3, <1>7
    DEF Tick, SuppressEmail, DeleteSubscriberErase, SweepRetentionErase, AcknowledgeIncident,
        ResolveIncident, Crash, vars

\* Every step of the outbox is legal for what was promised of every piece of mail.
LEMMA StepIsLegal ==
    ASSUME TypeOK, DispatchInv, AcceptedFirst, AbsentUnowned, [Next]_vars, AtMostOneEmail',
           NEW j \in Job
    PROVE  Promise!Legal(PromiseOf[mail[j].status], provider[j].emails,
                         PromiseOf[mail'[j].status], provider'[j].emails)
  <1> DEFINE p == PromiseOf[mail[j].status]
             q == PromiseOf[mail'[j].status]
             n == provider[j].emails
             m == provider'[j].emails
  <1>1. mail[j] \in Row /\ mail[j].status \in Status
    BY DEF TypeOK, Row
  <1>2. n \in Nat /\ m \in Nat /\ m \in {n, n + 1} /\ n <= 1 /\ m <= 1
    BY EmailsGrow DEF DispatchInv, AtMostOneEmail
  <1>3. CASE m # n
    <2>1. PICK d \in Dispatcher, i \in Job :
              worker[d].work[i] = "cleared" /\ provider' = Accept(i) /\ mail' = mail
      BY <1>3, ProviderCases
    <2>2. i = j
      BY <1>3, <2>1 DEF Accept, TypeOK
    <2>3. mail[j].status # "absent"
      BY <2>1, <2>2 DEF DispatchInv, TokensDistinct, Holds
    <2>4. p # "none" /\ q = p
      BY <1>1, <2>1, <2>3 DEF PromiseOf, Status
    <2> QED BY <1>2, <1>3, <2>4 DEF Promise!Legal
  <1>4. CASE m = n
    <2>1. RowMove(j)
      BY StepMoves
    <2>2. mail[j].status \in Live => p = "owed"
      BY DEF PromiseOf, Live
    <2>3. CASE mail'[j].status = mail[j].status
      BY <1>4, <2>3 DEF Promise!Legal
    <2>4. CASE mail[j].status = "absent" /\ mail'[j].status = "queued"
      BY <1>4, <2>4 DEF PromiseOf, Promise!Legal
    <2>5. CASE mail[j].status \in Live /\ mail'[j].status \in {"cancelled", "dead_letter"}
      BY <1>4, <2>2, <2>5 DEF PromiseOf, Promise!Legal
    <2>6. CASE mail[j].status \in Live /\ mail'[j].status = "sent"
      <3>1. n = 1
        BY <1>2, <2>6, SentMeansSuccess DEF AcceptedFirst
      <3> QED BY <1>4, <2>2, <2>6, <3>1 DEF PromiseOf, Promise!Legal
    <2>7. CASE mail[j].status \in Live /\ mail'[j].status \in Live
      BY <1>4, <2>2, <2>7 DEF PromiseOf, Promise!Legal, Live
    <2>8. CASE mail[j].status # "absent" /\ mail'[j].status = "erased"
      BY <1>1, <1>4, <2>8 DEF PromiseOf, Promise!Legal, Promise!Outcome, Status
    <2>9. CASE mail[j].status = "absent" /\ mail'[j].status = "erased"
      <3>1. mail[j].owner \notin purge.who
        BY <2>9, OwnerAssumption DEF AbsentUnowned, TypeOK, Purge
      <3>2. QuietMove(j)
        BY <2>9, <3>1, AbsentRows, QuietSteps DEF QuietStep, QuietRows
      <3> QED BY <2>9, <3>2, QuietFields DEF Live
    <2>10. CASE QuietMove(j)
      BY <2>3, <2>4, <2>5, <2>10, QuietFields
    <2>11. ASSUME mail[j].status \in Live, NEW status \in Terminal,
                  mail'[j] = Ended(mail[j], status)
           PROVE  mail'[j].status = status
      BY <1>1, <2>11, EndedFields
    <2>12. CASE mail'[j] = Erased(mail[j])
      BY <1>1, <2>8, <2>9, <2>12, ErasedFields
    <2>13. CASE j \in Claimable /\ mail'[j] = Claimed(mail[j], claims + 1)
      BY <1>1, <2>7, <2>13, ClaimedFields DEF Claimable, OpenJobs, Live
    <2>14. ASSUME NEW d \in Dispatcher, OwnsClaim(d, j), NEW at \in Nat,
                  mail'[j] = Requeued(mail[j], at)
           PROVE  mail[j].status \in Live /\ mail'[j].status \in Live
      BY <1>1, <2>14, RequeuedFields DEF OwnsClaim, Live
    <2> QED
      BY <2>1, <2>5, <2>6, <2>7, <2>10, <2>11, <2>12, <2>13, <2>14 DEF RowMove, Terminal
  <1> QED BY <1>3, <1>4

\* MailOutbox implements MailPromise: every piece of mail is owed until it is
\* delivered, withdrawn, escalated or erased, and is delivered at most once.
THEOREM OutboxKeepsPromise == Spec => PromiseKept
  <1>1. Init => Promise!Init
    BY DEF Init, NoRow, PromiseOf, Promise!Init
  <1>2. Init => AcceptedFirst /\ AbsentUnowned
    BY DEF Init, Idle, NoRow, AcceptedFirst, AbsentUnowned
  <1>3. TypeOK /\ AcceptedFirst /\ AbsentUnowned /\ [Next]_vars
            => (AcceptedFirst /\ AbsentUnowned)'
    BY AcceptedStep, UnownedStep
  <1>4. TypeOK /\ TypeOK' /\ DispatchInv /\ DispatchInv' /\ AcceptedFirst /\ AbsentUnowned
            /\ [Next]_vars => [Promise!Next]_(Promise!vars)
    <2> SUFFICES ASSUME TypeOK, TypeOK', DispatchInv, DispatchInv', AcceptedFirst, AbsentUnowned,
                        [Next]_vars
                 PROVE  Promise!Next
      OBVIOUS
    <2>1. \A j \in Job : mail'[j].status \in Status /\ provider'[j].emails \in 0..1
      <3> SUFFICES ASSUME NEW j \in Job
                   PROVE  mail'[j].status \in Status /\ provider'[j].emails \in 0..1
        OBVIOUS
      <3>1. mail'[j] \in Row /\ provider'[j] \in ProviderEntry
        BY DEF TypeOK
      <3>2. provider'[j].emails <= 1
        BY DEF DispatchInv, AtMostOneEmail
      <3> QED BY <3>1, <3>2 DEF Row, ProviderEntry
    <2>2. \A status \in Status :
              PromiseOf[status] \in {"none", "owed", "erased"} \cup Promise!Outcome
      BY DEF PromiseOf, Status, Promise!Outcome
    <2>3. \A j \in Job : Promise!Legal(PromiseOf[mail[j].status], provider[j].emails,
                                       PromiseOf[mail'[j].status], provider'[j].emails)
      BY StepIsLegal DEF DispatchInv
    <2>4. [j \in Job |-> PromiseOf[mail[j].status]]'
              \in [Job -> {"none", "owed", "erased"} \cup Promise!Outcome]
      BY <2>1, <2>2
    <2>5. [j \in Job |-> provider[j].emails]' \in [Job -> 0..1]
      BY <2>1
    <2> QED BY <2>3, <2>4, <2>5 DEF Promise!Next
  <1> QED
    BY <1>1, <1>2, <1>3, <1>4, TypeCorrect, DispatchInvariant, PTL
    DEF Spec, PromiseKept, Promise!Spec
===============================================================================
