------------------------------ MODULE MailOutbox ------------------------------
(***************************************************************************)
(* The durable mail outbox: table mail_outbox (with the dead_letter_       *)
(* incidents that hang off it), the transactions of src/db/repo.ts that    *)
(* insert, claim, settle and erase its rows, and the dispatch workers of   *)
(* src/worker/v04.ts and src/notify/dispatcher.ts that turn rows into      *)
(* provider requests.  Two workers may overlap while an advisory lease     *)
(* moves from one to the other, so Dispatcher is a set.                    *)
(*                                                                         *)
(* One Section is modelled: every statement that touches the Watches or    *)
(* the Alerts of a Section is keyed by its class_key.  One transaction is  *)
(* one step, except the two that erase Subscribers: they run READ          *)
(* COMMITTED in two statements with other transactions between them.       *)
(***************************************************************************)
EXTENDS Naturals, FiniteSets

CONSTANTS
    Job,            \* identities of mail_outbox rows
    Kind,           \* [Job -> MailKind]
    Owner,          \* [Job -> Subscriber \cup {NoSubscriber}], NoSubscriber for operator mail
    Reason,         \* [Job -> NotifyReason], read on alerts only
    Subscriber,
    NoSubscriber,   \* subscriber_id NULL
    Dispatcher,     \* worker processes
    AlertExpiry,    \* MAIL_ALERT_EXPIRY_MS, 1 h
    RetryHorizon,   \* MAIL_RETRY_HORIZON_MS, 23 h
    Lease,          \* OUTBOX_CLAIM_LEASE_SECONDS
    MaxDispatch,    \* longest time from a claim to the provider's answer
    BatchSize,      \* OUTBOX_BATCH_SIZE
    MaxBackoff,     \* longest retry delay a settlement asks for
    ProviderWindow, \* how long the provider remembers an idempotency key, 24 h
    MaxTime,        \* bound: the clock stops here
    LastEnqueue,    \* bound: no mail is enqueued after this time
    MaxClaims,      \* bound: non-empty claim batches
    MaxCrashes      \* bound: worker crashes

MailKind == {"alert", "confirmation", "manage-link", "operator", "blind-window"}
NotifyReason == {"seats-open", "waitlist-open"}

ASSUME KindAssumption == Kind \in [Job -> MailKind]
ASSUME OwnerAssumption ==
    /\ NoSubscriber \notin Subscriber
    /\ Owner \in [Job -> Subscriber \cup {NoSubscriber}]
    /\ \A j \in Job : Owner[j] = NoSubscriber <=> Kind[j] = "operator"
ASSUME ReasonAssumption == Reason \in [Job -> NotifyReason]
ASSUME TimeAssumption ==
    /\ AlertExpiry \in Nat \ {0}
    /\ RetryHorizon \in Nat \ {0}
    /\ Lease \in Nat \ {0}
    /\ MaxDispatch \in Nat
    /\ BatchSize \in Nat \ {0}
    /\ MaxBackoff \in Nat \ {0}
    /\ ProviderWindow \in Nat
ASSUME BoundAssumption ==
    /\ MaxTime \in Nat /\ LastEnqueue \in Nat
    /\ MaxClaims \in Nat /\ MaxCrashes \in Nat
\* The 23 h horizon leaves an hour of the provider's 24 h for the last dispatch.
ASSUME HorizonAssumption ==
    /\ AlertExpiry <= RetryHorizon
    /\ RetryHorizon + MaxDispatch <= ProviderWindow

VARIABLES
    clock,      \* database and worker time
    mail,       \* [Job -> Row]
    incident,   \* [Job -> IncidentState], the incident of a dead letter
    sub,        \* [Subscriber -> SubState]
    watching,   \* Subscribers with a live Watch on the Section
    suppressed, \* Subscribers whose address is in suppressions
    purge,      \* the Subscriber-erasing transaction between its two statements
    worker,     \* [Dispatcher -> batch in memory]
    provider,   \* [Job -> what the mail provider has done for the job's key]
    claims,     \* number of claim batches so far; the newest claim_token
    crashes

vars == <<clock, mail, incident, sub, watching, suppressed, purge, worker,
          provider, claims, crashes>>

-------------------------------------------------------------------------------
(* Types *)

Status == {"absent", "queued", "processing", "sent", "cancelled", "dead_letter", "erased"}
Live == {"queued", "processing"}
Terminal == {"sent", "cancelled", "dead_letter"}

\* at is created_at, and opened_at on an alert; claimToken 0 is NULL.
Row == [status : Status, owner : Subscriber \cup {NoSubscriber}, at : Nat,
        availableAt : Nat, claimedAt : Nat, claimToken : Nat]
NoRow == [status |-> "absent", owner |-> NoSubscriber, at |-> 0,
          availableAt |-> 0, claimedAt |-> 0, claimToken |-> 0]

IncidentState == {"none", "unresolved", "acknowledged", "resolved"}
SubState == {"absent", "pending", "confirmed", "erased"}
Purge == [by : {"none", "unsubscribe", "retention"}, who : SUBSET Subscriber]
NoPurge == [by |-> "none", who |-> {}]

\* The stages of a claimed job inside dispatchBatch; the last four are results.
Result == {"success", "suppressed", "permanent", "retryable"}
Stage == {"none", "claimed", "cleared"} \cup Result
Unsent == {"claimed", "cleared"}
Worker == [token : Nat, since : Nat, work : [Job -> Stage]]
Idle == [token |-> 0, since |-> 0, work |-> [j \in Job |-> "none"]]

ProviderEntry == [emails : Nat, firstAt : Nat]

TypeOK ==
    /\ clock \in Nat
    /\ mail \in [Job -> Row]
    /\ incident \in [Job -> IncidentState]
    /\ sub \in [Subscriber -> SubState]
    /\ watching \subseteq Subscriber
    /\ suppressed \subseteq Subscriber
    /\ purge \in Purge
    /\ worker \in [Dispatcher -> Worker]
    /\ provider \in [Job -> ProviderEntry]
    /\ claims \in Nat
    /\ crashes \in Nat
-------------------------------------------------------------------------------
(* The predicates of the SQL statements *)

Horizon(j) == IF Kind[j] = "alert" THEN AlertExpiry ELSE RetryHorizon
Deadline(j) == mail[j].at + Horizon(j)
\* Mutants: a lease that is ignored, and one that never ends.
LeaseExpired_Ignored(j) == mail[j].claimedAt <= clock
LeaseExpired_Never(j) == FALSE
LeaseExpired(j) == mail[j].claimedAt + Lease <= clock
Eligible(s) == s \in watching /\ sub[s] = "confirmed"
OpenIncident(j) == incident[j] \in {"unresolved", "acknowledged"}
\* Mutant: acknowledging an incident gives up its protection.
Protected_UnresolvedOnly(j) == mail[j].status = "dead_letter" /\ incident[j] = "unresolved"
Protected(j) == mail[j].status = "dead_letter" /\ OpenIncident(j)
PerWatch == {j \in Job : Kind[j] \in {"alert", "blind-window"}}
OpenJobs == {j \in Job : mail[j].status \in Live}

\* Mutant: the expiry comparison is off by one.
AlertsDue_Late == {j \in OpenJobs : Kind[j] = "alert" /\ Deadline(j) < clock}
\* Alerts that expireMailOutboxAlerts cancels now.
AlertsDue == {j \in OpenJobs : Kind[j] = "alert" /\ Deadline(j) <= clock}

\* Mutant: rows abandoned in processing escape the horizon.
HorizonDue_QueuedOnly ==
    {j \in OpenJobs : Kind[j] # "alert" /\ Deadline(j) <= clock /\ mail[j].status = "queued"}
\* Mail that expireMailOutboxRetryHorizonInTransaction dead-letters now.
HorizonDue ==
    {j \in OpenJobs : /\ Kind[j] # "alert"
                      /\ Deadline(j) <= clock
                      /\ mail[j].status = "queued" \/ LeaseExpired(j)}

\* Per-Watch mail whose Watch or confirmed Subscriber is missing.
Ineligible == {j \in OpenJobs \cap PerWatch : ~Eligible(mail[j].owner)}

Claimable ==
    {j \in OpenJobs : IF mail[j].status = "queued" THEN mail[j].availableAt <= clock
                      ELSE LeaseExpired(j)}

\* ORDER BY available_at, created_at LIMIT BatchSize, over the set C.
Before(a, b) ==
    \/ mail[a].availableAt < mail[b].availableAt
    \/ mail[a].availableAt = mail[b].availableAt /\ mail[a].at < mail[b].at
Pages(C) ==
    {B \in SUBSET C :
        /\ IF Cardinality(C) <= BatchSize THEN B = C ELSE Cardinality(B) = BatchSize
        /\ \A a \in B, b \in C \ B : ~Before(b, a)}

(* Row updates *)

Ended(row, status) == [row EXCEPT !.status = status, !.claimedAt = 0, !.claimToken = 0]
EndAll(S, status) == [j \in Job |-> IF j \in S THEN Ended(mail[j], status) ELSE mail[j]]

\* Erasing a row keeps its times, for properties about mail already in flight.
Erased(row) == [Ended(row, "erased") EXCEPT !.owner = NoSubscriber, !.availableAt = 0]

\* Mutant: the incident takes its first state from the outbox's vocabulary.
OpenIncidents_Queued(S) ==
    [j \in Job |-> IF j \in S /\ incident[j] = "none" THEN "queued" ELSE incident[j]]
\* openDeadLetterIncidents: a conflict on mail_job_id inserts nothing.
OpenIncidents(S) ==
    [j \in Job |-> IF j \in S /\ incident[j] = "none" THEN "unresolved" ELSE incident[j]]

NewRow(j) == [status |-> "queued", owner |-> Owner[j], at |-> clock,
              availableAt |-> clock, claimedAt |-> 0, claimToken |-> 0]
Enqueued(S) == [j \in Job |-> IF j \in S THEN NewRow(j) ELSE mail[j]]
Fresh(kind) == {j \in Job : mail[j].status = "absent" /\ Kind[j] = kind /\ clock <= LastEnqueue}

\* lockWatchTableForActivation and lockWatchTableForObservation wait for a purge.
WatchesUnlocked == purge.by = "none"
-------------------------------------------------------------------------------
Init ==
    /\ clock = 0
    /\ mail = [j \in Job |-> NoRow]
    /\ incident = [j \in Job |-> "none"]
    /\ sub \in [Subscriber -> {"absent", "pending", "confirmed"}]
    /\ watching \in SUBSET {s \in Subscriber : sub[s] # "absent"}
    /\ suppressed = {}
    /\ purge = NoPurge
    /\ worker = [d \in Dispatcher |-> Idle]
    /\ provider = [j \in Job |-> [emails |-> 0, firstAt |-> 0]]
    /\ claims = 0
    /\ crashes = 0

\* Time passes; a dispatch in progress answers within MaxDispatch of its claim.
Tick ==
    /\ clock < MaxTime
    /\ \A d \in Dispatcher, j \in Job :
          worker[d].work[j] \in Unsent => clock < worker[d].since + MaxDispatch
    /\ clock' = clock + 1
    /\ UNCHANGED <<mail, incident, sub, watching, suppressed, purge, worker,
                   provider, claims, crashes>>
-------------------------------------------------------------------------------
(* Subscribers and Watches: src/db/repo.ts, called by the HTTP API *)

outboxUnchanged == UNCHANGED <<clock, incident, suppressed, worker, provider, claims, crashes>>

\* createSubscriberWithWatches: a Pending Subscriber with staged Watches; the
\* confirmation mail is left out for a suppressed address.
CreateSubscriber(s) ==
    /\ WatchesUnlocked
    /\ sub[s] = "absent"
    /\ sub' = [sub EXCEPT ![s] = "pending"]
    /\ watching' \in {watching, watching \cup {s}}
    /\ IF s \in suppressed
       THEN mail' = mail
       ELSE \E j \in Fresh("confirmation") : Owner[j] = s /\ mail' = Enqueued({j})
    /\ UNCHANGED purge
    /\ outboxUnchanged

ConfirmSubscriber(s) ==
    /\ WatchesUnlocked
    /\ sub[s] = "pending"
    /\ sub' = [sub EXCEPT ![s] = "confirmed"]
    /\ UNCHANGED <<mail, watching, purge>>
    /\ outboxUnchanged

\* addWatchWithFreshness: a new Watch or the revival of a retired one.
AddWatch(s) ==
    /\ WatchesUnlocked
    /\ sub[s] \in {"pending", "confirmed"} /\ s \notin watching
    /\ watching' = watching \cup {s}
    /\ UNCHANGED <<mail, sub, purge>>
    /\ outboxUnchanged

\* Mutant: removeWatch leaves the alerts of the Watch queued.
RemoveWatch_KeepsAlerts(s) ==
    /\ WatchesUnlocked
    /\ sub[s] \in {"pending", "confirmed"}
    /\ watching' = watching \ {s}
    /\ UNCHANGED <<mail, sub, purge>>
    /\ outboxUnchanged

\* removeWatch deletes the Watch and cancels its alerts, and only its alerts.
RemoveWatch(s) ==
    /\ WatchesUnlocked
    /\ sub[s] \in {"pending", "confirmed"}
    /\ watching' = watching \ {s}
    /\ mail' = EndAll({j \in OpenJobs : Kind[j] = "alert" /\ mail[j].owner = s}, "cancelled")
    /\ UNCHANGED <<sub, purge>>
    /\ outboxUnchanged

\* retireWatchesForClass: the Section is gone from the source.  S holds the
\* Watches at or below the activation cutoff; all per-Watch mail is cancelled.
RetireWatches(S) ==
    /\ WatchesUnlocked
    /\ watching' = watching \ S
    /\ mail' = EndAll(OpenJobs \cap PerWatch, "cancelled")
    /\ UNCHANGED <<sub, purge>>
    /\ outboxUnchanged

\* suppressEmail, from the provider's bounce and complaint webhook.
SuppressEmail(s) ==
    /\ suppressed' = suppressed \cup {s}
    /\ UNCHANGED <<clock, mail, incident, sub, watching, purge, worker, provider,
                   claims, crashes>>

\* First statement of deleteSubscriber (detachProtectedDeadLettersForSubscriber).
Detached(S) ==
    [j \in Job |-> IF Protected(j) /\ mail[j].owner \in S
                   THEN [mail[j] EXCEPT !.owner = NoSubscriber] ELSE mail[j]]
DeleteSubscriberDetach(s) ==
    /\ WatchesUnlocked
    /\ sub[s] \in {"pending", "confirmed"}
    /\ mail' = Detached({s})
    /\ purge' = [by |-> "unsubscribe", who |-> {s}]
    /\ UNCHANGED <<sub, watching>>
    /\ outboxUnchanged

\* DELETE FROM subscribers cascades to watches, mail_outbox and, through
\* mail_job_id, to dead_letter_incidents; Old are the rows a sweep removes too.
EraseRows(S) ==
    /\ mail' = [j \in Job |-> IF j \in S THEN Erased(mail[j]) ELSE mail[j]]
    /\ incident' = [j \in Job |-> IF j \in S THEN "none" ELSE incident[j]]
EraseSubscribers(Old) ==
    /\ sub' = [s \in Subscriber |-> IF s \in purge.who THEN "erased" ELSE sub[s]]
    /\ watching' = watching \ purge.who
    /\ EraseRows({j \in Job : mail[j].owner \in purge.who} \cup Old)
    /\ purge' = NoPurge
    /\ UNCHANGED <<clock, suppressed, worker, provider, claims, crashes>>
DeleteSubscriberErase ==
    /\ purge.by = "unsubscribe"
    /\ EraseSubscribers({})

\* sweepRetention, up to and from the deletion of old Pending Subscribers.  S
\* and Old stand for the rows past the 72 h and 90 d cutoffs.
SweepRetentionDetach(S) ==
    /\ WatchesUnlocked
    /\ \A s \in S : sub[s] = "pending"
    /\ mail' = [j \in Job |-> IF j \in AlertsDue THEN Ended(mail[j], "cancelled")
                              ELSE Detached(S)[j]]
    /\ purge' = [by |-> "retention", who |-> S]
    /\ UNCHANGED <<sub, watching>>
    /\ outboxUnchanged
SweepRetentionErase(Old) ==
    /\ purge.by = "retention"
    /\ \A j \in Old : mail[j].status \in Terminal /\ ~OpenIncident(j)
    /\ EraseSubscribers(Old)
-------------------------------------------------------------------------------
(* Producers of mail *)

\* cancelDeliveriesClosedByState, run by upsertClassState for every observation.
ClosedBy(closed) == {j \in OpenJobs : Kind[j] = "alert" /\ Reason[j] \in closed}
ObserveState(closed) ==
    /\ WatchesUnlocked
    /\ mail' = EndAll(ClosedBy(closed), "cancelled")
    /\ UNCHANGED <<sub, watching, purge>>
    /\ outboxUnchanged

\* commitOpeningAndEnqueueMail: J is one new alert for each Subscriber whose
\* Watch was visible to the observation; older alerts that closed are cancelled.
CommitOpening(reason, closed, J) ==
    /\ WatchesUnlocked
    /\ reason \notin closed
    /\ J \subseteq {j \in Fresh("alert") : Reason[j] = reason /\ Eligible(Owner[j])}
    /\ \A i, j \in J : Owner[i] = Owner[j] => i = j
    /\ mail' = [j \in Job |-> IF j \in J THEN NewRow(j)
                              ELSE EndAll(ClosedBy(closed), "cancelled")[j]]
    /\ UNCHANGED <<sub, watching, purge>>
    /\ outboxUnchanged

\* enqueueBlindWindowDisclosures; it takes no table lock.
EnqueueBlindWindow(J) ==
    /\ J \subseteq {j \in Fresh("blind-window") : Eligible(Owner[j])}
    /\ mail' = Enqueued(J)
    /\ UNCHANGED <<sub, watching, purge>>
    /\ outboxUnchanged

\* enqueueResendMailByEmail: confirmation while Pending, else manage-link.
EnqueueResendMail(s) ==
    /\ sub[s] \in {"pending", "confirmed"}
    /\ s \notin suppressed
    /\ \E j \in Fresh(IF sub[s] = "pending" THEN "confirmation" ELSE "manage-link") :
          Owner[j] = s /\ mail' = Enqueued({j})
    /\ UNCHANGED <<sub, watching, purge>>
    /\ outboxUnchanged

EnqueueOperatorMail(j) ==
    /\ j \in Fresh("operator")
    /\ mail' = Enqueued({j})
    /\ UNCHANGED <<sub, watching, purge>>
    /\ outboxUnchanged
-------------------------------------------------------------------------------
(* The dispatch worker *)

Holds(d, j) == worker[d].work[j] # "none"
\* Mutant: settlement writes are not fenced.
OwnsClaim_Always(d, j) == TRUE
OwnsClaim(d, j) == mail[j].status = "processing" /\ mail[j].claimToken = worker[d].token

\* First step of runOutboxDispatchCycle.
ExpireMailOutboxAlerts ==
    /\ mail' = EndAll(AlertsDue, "cancelled")
    /\ UNCHANGED <<sub, watching, purge>>
    /\ outboxUnchanged

\* claimMailBatch: expire, dead-letter at the horizon, cancel the ineligible,
\* then take a page of what can be claimed under a fresh claim_token.
Swept(j) ==
    IF j \in HorizonDue THEN Ended(mail[j], "dead_letter")
    ELSE IF j \in AlertsDue \cup Ineligible THEN Ended(mail[j], "cancelled")
    ELSE mail[j]
\* Mutant: a reclaimed row keeps the start of the lease that ran out.
Claimed_KeepsClaimedAt(row, token) ==
    [row EXCEPT !.status = "processing", !.claimToken = token,
                !.claimedAt = IF row.status = "queued" THEN clock ELSE @]
Claimed(row, token) ==
    [row EXCEPT !.status = "processing", !.claimedAt = clock, !.claimToken = token]
TakeBatch(d, B) ==
    /\ mail' = [j \in Job |-> IF j \in B THEN Claimed(mail[j], claims + 1) ELSE Swept(j)]
    /\ worker' = [worker EXCEPT ![d] =
                     [token |-> claims + 1, since |-> clock,
                      work |-> [j \in Job |-> IF j \in B THEN "claimed" ELSE "none"]]]
    /\ claims' = claims + 1
SweepOnly ==
    /\ mail' = [j \in Job |-> Swept(j)]
    /\ UNCHANGED <<worker, claims>>
ClaimMailBatch(d) ==
    /\ worker[d] = Idle
    /\ \E B \in Pages(Claimable \ (HorizonDue \cup AlertsDue \cup Ineligible)) :
          IF B # {} /\ claims < MaxClaims THEN TakeBatch(d, B) ELSE SweepOnly
    /\ incident' = OpenIncidents(HorizonDue)
    /\ UNCHANGED <<clock, sub, watching, suppressed, purge, provider, crashes>>

\* What a step of dispatchBatch or of settlement makes of d's job.
Advance(d, j, stage) ==
    LET work == [worker[d].work EXCEPT ![j] = stage]
    IN  worker' = [worker EXCEPT ![d] =
                      IF \A i \in Job : work[i] = "none" THEN Idle
                      ELSE [worker[d] EXCEPT !.work = work]]

\* Mutant: only alerts are checked against the suppression list.
PrepareMail_AlertsOnly(d, j) ==
    /\ worker[d].work[j] = "claimed"
    /\ \/ Kind[j] = "alert" /\ Owner[j] \in suppressed /\ Advance(d, j, "suppressed")
       \/ Kind[j] = "alert" /\ Advance(d, j, "retryable")
       \/ Advance(d, j, "permanent")
       \/ (Kind[j] # "alert" \/ Owner[j] \notin suppressed) /\ Advance(d, j, "cleared")
    /\ UNCHANGED <<clock, mail, incident, sub, watching, suppressed, purge, provider,
                   claims, crashes>>

\* prepare: operator mail skips the suppression check; the check may fail, and
\* a row that does not validate is a permanent failure.
PrepareMail(d, j) ==
    /\ worker[d].work[j] = "claimed"
    /\ \/ Kind[j] # "operator" /\ Owner[j] \in suppressed /\ Advance(d, j, "suppressed")
       \/ Kind[j] # "operator" /\ Advance(d, j, "retryable")
       \/ Advance(d, j, "permanent")
       \/ (Kind[j] = "operator" \/ Owner[j] \notin suppressed) /\ Advance(d, j, "cleared")
    /\ UNCHANGED <<clock, mail, incident, sub, watching, suppressed, purge, provider,
                   claims, crashes>>

\* External: the provider mails a key once while it remembers it.
Accept(j) ==
    IF provider[j].emails > 0 /\ clock < provider[j].firstAt + ProviderWindow
    THEN provider
    ELSE [provider EXCEPT ![j] = [emails |-> @.emails + 1, firstAt |-> clock]]

\* sendOne, after every job of the batch is prepared.  A timeout or a dropped
\* answer is retryable although the provider may have accepted the mail.
SendMail(d, j) ==
    /\ worker[d].work[j] = "cleared"
    /\ \A i \in Job : worker[d].work[i] # "claimed"
    /\ \/ provider' = Accept(j) /\ Advance(d, j, "success")
       \/ provider' = Accept(j) /\ Advance(d, j, "retryable")
       \/ UNCHANGED provider /\ Advance(d, j, "retryable")
       \/ UNCHANGED provider /\ Advance(d, j, "permanent")
    /\ UNCHANGED <<clock, mail, incident, sub, watching, suppressed, purge, claims, crashes>>

\* settleMailJob, after every result of the batch is in; each write is fenced
\* by the claim_token and changes nothing when the claim was lost.
Settling(d, j, result) ==
    /\ worker[d].work[j] = result
    /\ \A i \in Job : worker[d].work[i] \notin Unsent
    /\ Advance(d, j, "none")
    /\ UNCHANGED <<clock, sub, watching, suppressed, purge, provider, claims, crashes>>
\* Mutant: settling a dead letter forgets its incident.
SettleAs_NoIncident(d, j, status) ==
    /\ mail' = IF OwnsClaim(d, j) THEN EndAll({j}, status) ELSE mail
    /\ UNCHANGED incident
SettleAs(d, j, status) ==
    IF OwnsClaim(d, j)
    THEN /\ mail' = EndAll({j}, status)
         /\ incident' = OpenIncidents(IF status = "dead_letter" THEN {j} ELSE {})
    ELSE UNCHANGED <<mail, incident>>
CompleteMailJob(d, j) == Settling(d, j, "success") /\ SettleAs(d, j, "sent")
\* Mutant: withheld mail is recorded as sent.
CancelClaimedMailJob_AsSent(d, j) == Settling(d, j, "suppressed") /\ SettleAs(d, j, "sent")
CancelClaimedMailJob(d, j) == Settling(d, j, "suppressed") /\ SettleAs(d, j, "cancelled")
DeadLetterMailJob(d, j) == Settling(d, j, "permanent") /\ SettleAs(d, j, "dead_letter")

\* deferMailJob: back to the queue, or terminal when the next attempt would
\* cross the deadline.
Requeued(row, at) ==
    [row EXCEPT !.status = "queued", !.availableAt = at, !.claimedAt = 0, !.claimToken = 0]
DeferMailJob(d, j, delay) ==
    /\ Settling(d, j, "retryable")
    /\ IF clock + delay >= Deadline(j)
       THEN SettleAs(d, j, IF Kind[j] = "alert" THEN "cancelled" ELSE "dead_letter")
       ELSE /\ mail' = IF OwnsClaim(d, j)
                       THEN [mail EXCEPT ![j] = Requeued(@, clock + delay)] ELSE mail
            /\ UNCHANGED incident

\* The process dies, or a settlement write throws and the batch is abandoned.
Crash(d) ==
    /\ crashes < MaxCrashes
    /\ worker[d] # Idle
    /\ worker' = [worker EXCEPT ![d] = Idle]
    /\ crashes' = crashes + 1
    /\ UNCHANGED <<clock, mail, incident, sub, watching, suppressed, purge, provider, claims>>

(* The Operator's incident CLI *)

AcknowledgeIncident(j) ==
    /\ incident[j] = "unresolved"
    /\ incident' = [incident EXCEPT ![j] = "acknowledged"]
    /\ UNCHANGED <<clock, mail, sub, watching, suppressed, purge, worker, provider,
                   claims, crashes>>
ResolveIncident(j) ==
    /\ OpenIncident(j)
    /\ incident' = [incident EXCEPT ![j] = "resolved"]
    /\ UNCHANGED <<clock, mail, sub, watching, suppressed, purge, worker, provider,
                   claims, crashes>>
-------------------------------------------------------------------------------
SubscriberStep ==
    \/ \E s \in Subscriber :
          \/ CreateSubscriber(s) \/ ConfirmSubscriber(s) \/ AddWatch(s) \/ RemoveWatch(s)
          \/ SuppressEmail(s) \/ DeleteSubscriberDetach(s) \/ EnqueueResendMail(s)
    \/ DeleteSubscriberErase

WorkerStep(d) ==
    \/ ClaimMailBatch(d)
    \/ \E j \in Job :
          \/ PrepareMail(d, j) \/ SendMail(d, j)
          \/ CompleteMailJob(d, j) \/ CancelClaimedMailJob(d, j) \/ DeadLetterMailJob(d, j)
          \/ \E delay \in 1..MaxBackoff : DeferMailJob(d, j, delay)

SystemStep ==
    \/ \E S \in SUBSET watching : RetireWatches(S)
    \/ \E S \in SUBSET Subscriber : SweepRetentionDetach(S)
    \/ \E Old \in SUBSET Job : SweepRetentionErase(Old)
    \/ \E closed \in SUBSET NotifyReason : ObserveState(closed)
    \/ \E reason \in NotifyReason, closed \in SUBSET NotifyReason, J \in SUBSET Job :
          CommitOpening(reason, closed, J)
    \/ \E J \in SUBSET Job : EnqueueBlindWindow(J)
    \/ ExpireMailOutboxAlerts
    \/ \E j \in Job : EnqueueOperatorMail(j) \/ AcknowledgeIncident(j) \/ ResolveIncident(j)

Next ==
    \/ Tick
    \/ SubscriberStep
    \/ SystemStep
    \/ \E d \in Dispatcher : WorkerStep(d) \/ Crash(d)

Spec == Init /\ [][Next]_vars

\* Time passes, and a running worker's loop never stops taking its next step.
Fairness == WF_vars(Tick) /\ \A d \in Dispatcher : WF_vars(WorkerStep(d))
FairSpec == Spec /\ Fairness
-------------------------------------------------------------------------------
(* Properties *)

\* The mail provider is asked for at most one email per outbox row, whatever
\* crashes, lost answers, lease takeovers and retries happen: every attempt uses
\* the row's provider key inside the provider's idempotency window (repo.ts
\* MAIL_RETRY_HORIZON_MS, claimMailBatch, deferMailJob).
AtMostOneEmail == \A j \in Job : provider[j].emails <= 1

\* Two workers hold the same row only when the later claim was made at least a
\* lease after the earlier one (claimMailBatch's reclaim condition).
LeaseExclusive ==
    \A d, e \in Dispatcher, j \in Job :
        d # e /\ Holds(d, j) /\ Holds(e, j) =>
            \/ worker[d].since + Lease <= worker[e].since
            \/ worker[e].since + Lease <= worker[d].since

\* A row has an incident exactly when it is a dead letter (openDeadLetterIncidents
\* in all three transitions to dead_letter, and the cascade when it is erased).
OneIncidentPerDeadLetter ==
    \A j \in Job : incident[j] # "none" <=> mail[j].status = "dead_letter"

\* The table's CHECK constraints: a claim is complete or absent, and only
\* operator mail and dead letters have no Subscriber (schema.ts mail_outbox).
RowShape ==
    \A j \in Job :
        /\ mail[j].claimToken # 0 <=> mail[j].status = "processing"
        /\ mail[j].status \in Live \cup {"sent", "cancelled"} => mail[j].owner = Owner[j]

\* An alert that can still be sent belongs to a confirmed Subscriber with a live
\* Watch (removeWatch, retireWatchesForClass, deleteSubscriber).
AlertBacked ==
    \A j \in OpenJobs : Kind[j] = "alert" => Eligible(mail[j].owner)

\* A terminal row never becomes live or changes its outcome; a stale worker, an
\* expiry or a closing Opening comes too late (the claim fence and the status
\* conditions of every UPDATE).
TerminalIsFinal ==
    [][\A j \in Job : mail[j].status \in Terminal \cup {"erased"} =>
           mail'[j].status \in {mail[j].status, "erased"}]_vars

\* No new email leaves for a row later than one dispatch after its deadline:
\* one hour for an alert, 23 hours for other mail.
SendsStopAtDeadline ==
    [][\A j \in Job : provider'[j].emails > provider[j].emails =>
           clock < Deadline(j) + MaxDispatch]_vars

\* Once an address is suppressed and the sends already past their suppression
\* check have drained, its mail never passes the check again and no email of it
\* is accepted (dispatcher.ts prepare, FR-12).
SubscriberMail(s) == {j \in Job : Owner[j] = s}
NoneCleared(s) == \A d \in Dispatcher, j \in SubscriberMail(s) : worker[d].work[j] # "cleared"
SuppressionHolds ==
    [][\A s \in suppressed : NoneCleared(s) =>
           /\ NoneCleared(s)'
           /\ \A j \in SubscriberMail(s) : provider'[j] = provider[j]]_vars

\* An open incident is lost only to a Subscriber-erasing transaction that had
\* already detached what it found; and that first statement leaves no open
\* incident with an owner it is about to erase (deleteSubscriber, sweepRetention).
IncidentLostOnlyToPurge ==
    [][/\ \A j \in Job : OpenIncident(j) /\ incident'[j] = "none" => mail[j].owner \in purge.who
       /\ purge.by = "none" /\ purge'.by # "none" =>
              \A j \in Job : OpenIncident(j) => mail'[j].owner \notin purge'.who]_vars

\* Why the three invariants above hold, as one inductive invariant.  Tokens are
\* never shared; a claim is good and dates from its batch, or its row is over, or
\* its lease is; a job is only sent soon after a claim made before its deadline;
\* and the provider never saw a key before its row existed.
TokensDistinct ==
    /\ \A j \in Job : mail[j].claimToken <= claims
    /\ \A d \in Dispatcher :
          /\ worker[d].token <= claims
          /\ \A j \in Job : Holds(d, j) => worker[d].token # 0 /\ mail[j].status # "absent"
          /\ \A e \in Dispatcher \ {d} : worker[d].token # 0 => worker[e].token # worker[d].token
ClaimsKept ==
    \A d \in Dispatcher, j \in Job : Holds(d, j) =>
        \/ OwnsClaim(d, j) /\ mail[j].claimedAt = worker[d].since
        \/ mail[j].status \in Terminal \cup {"erased"}
        \/ worker[d].since + Lease <= clock
SendsInTime ==
    \A d \in Dispatcher, j \in Job : worker[d].work[j] \in Unsent =>
        worker[d].since < Deadline(j) /\ clock <= worker[d].since + MaxDispatch
KeysAfterRows ==
    \A j \in Job : provider[j].emails > 0 =>
        mail[j].status # "absent" /\ mail[j].at <= provider[j].firstAt
DispatchInv ==
    /\ TokensDistinct /\ ClaimsKept /\ LeaseExclusive
    /\ \A j \in Job : mail[j].at <= clock
    /\ SendsInTime /\ KeysAfterRows /\ AtMostOneEmail

\* The outbox implements MailPromise: an outcome is recorded only once, "sent"
\* only after the provider accepted the mail, and at most one email is delivered.
PromiseOf ==
    [absent |-> "none", queued |-> "owed", processing |-> "owed", sent |-> "fulfilled",
     cancelled |-> "withdrawn", dead_letter |-> "escalated", erased |-> "erased"]
Promise == INSTANCE MailPromise WITH
    promise <- [j \in Job |-> PromiseOf[mail[j].status]],
    emails <- [j \in Job |-> provider[j].emails]
PromiseKept == Promise!Spec

\* Every row the outbox accepts becomes terminal (or is erased with its
\* Subscriber), whether or not the provider ever answers.
EventuallySettled ==
    \A j \in Job : mail[j].status \in Live ~> mail[j].status \in Terminal \cup {"erased"}
=============================================================================
