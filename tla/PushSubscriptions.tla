---------------------------- MODULE PushSubscriptions ----------------------------
(***************************************************************************)
(* Browser push: registering a browser under the per-Subscriber ceiling    *)
(* (src/db/repo.ts), the fan-out of one Alert to the browsers of its       *)
(* Subscriber (src/notify/dispatcher.ts, src/notify/transports/push.ts),   *)
(* and pruning the subscriptions that the push service says are gone, all  *)
(* while browsers subscribe, unsubscribe and change hands.                 *)
(***************************************************************************)
EXTENDS Naturals, FiniteSets

CONSTANTS
    Holder,        \* Confirmed Subscribers
    Endpoint,      \* push endpoints, each of one browser
    PushJob,       \* Alert jobs of the outbox
    MaxPush,       \* MAX_PUSH_SUBSCRIPTIONS_PER_SUBSCRIBER
    MaxKeys,       \* bound: key pairs a browser ever makes for its endpoint
    MaxAddresses,  \* public addresses a push host resolves to
    MaxRecent      \* MAX_RECENT_PUSH_JOBS: a process forgets older jobs

ASSUME PushAssumption ==
    /\ IsFiniteSet(Endpoint)
    /\ IsFiniteSet(PushJob) /\ Cardinality(PushJob) <= MaxRecent  \* bound: none is forgotten
    /\ MaxPush \in Nat \ {0} /\ MaxKeys \in Nat \ {0} /\ MaxAddresses \in Nat \ {0}
    /\ MaxRecent \in Nat
    /\ "free" \notin Endpoint /\ "none" \notin Holder

VARIABLES
    holders,    \* Subscribers whose row exists
    holderLock, \* [Holder -> the request that holds the row FOR UPDATE]
    pushRows,   \* [Endpoint -> row of push_subscriptions]
    issued,     \* [Endpoint -> key pairs made so far]
    current,    \* [Endpoint -> the key pair the push service accepts, 0 for none]
    enabling,   \* [Endpoint -> the browser's registration request]
    wanted,     \* history: [Endpoint -> the registration last answered 201]
    sends,      \* deliveries of pushAlert under way
    pushJobs,   \* jobs this process remembers to have fanned out
    notified    \* [PushJob -> [Endpoint -> notifications accepted in this process]]

pushVars == <<holders, holderLock, pushRows, issued, current, enabling, wanted, sends,
              pushJobs, notified>>

directoryVars == <<holders, holderLock, pushRows, enabling, wanted>>
browserVars == <<issued, current>>
fanoutVars == <<sends, pushJobs, notified>>
-------------------------------------------------------------------------------
Registration == [owner : Holder \cup {"none"}, key : 0..MaxKeys]
NoRegistration == [owner |-> "none", key |-> 0]

Enabling == [at : {"idle", "called", "locked", "checked"}, by : Holder \cup {"none"},
             key : 0..MaxKeys]
NotEnabling == [at |-> "idle", by |-> "none", key |-> 0]

Target == [job : PushJob, endpoint : Endpoint, row : Registration,
           tries : 0..MaxAddresses, at : {"sending", "gone"}]

PushTypeOK ==
    /\ holders \subseteq Holder
    /\ holderLock \in [Holder -> Endpoint \cup {"free"}]
    /\ pushRows \in [Endpoint -> Registration]
    /\ issued \in [Endpoint -> 0..MaxKeys]
    /\ current \in [Endpoint -> 0..MaxKeys]
    /\ enabling \in [Endpoint -> Enabling]
    /\ wanted \in [Endpoint -> Registration]
    /\ sends \subseteq Target
    /\ pushJobs \subseteq PushJob
    /\ notified \in [PushJob -> [Endpoint -> Nat]]

NoNotification == [j \in PushJob |-> [e \in Endpoint |-> 0]]

PushInit ==
    /\ holders = Holder
    /\ holderLock = [h \in Holder |-> "free"]
    /\ pushRows = [e \in Endpoint |-> NoRegistration]
    /\ issued = [e \in Endpoint |-> 0]
    /\ current = [e \in Endpoint |-> 0]
    /\ enabling = [e \in Endpoint |-> NotEnabling]
    /\ wanted = [e \in Endpoint |-> NoRegistration]
    /\ sends = {}
    /\ pushJobs = {}
    /\ notified = NoNotification

OwnedBy(h) == {e \in Endpoint : pushRows[e].owner = h}
-------------------------------------------------------------------------------
(* The browser (src/client/push.ts) and, external, its push manager. *)

\* pushManager.subscribe, for a browser without a subscription.
SubscribeBrowser(e) ==
    /\ current[e] = 0
    /\ issued[e] < MaxKeys
    /\ issued' = [issued EXCEPT ![e] = @ + 1]
    /\ current' = [current EXCEPT ![e] = issued'[e]]
    /\ UNCHANGED <<directoryVars, fanoutVars>>

\* subscription.unsubscribe, or the push service drops the subscription.
UnsubscribeBrowser(e) ==
    /\ current[e] # 0
    /\ current' = [current EXCEPT ![e] = 0]
    /\ UNCHANGED <<directoryVars, issued, fanoutVars>>

\* enableBrowserPush posts the subscription; the route looked the Subscriber up.
EnablePush(e, h) ==
    /\ enabling[e].at = "idle"
    /\ current[e] # 0
    /\ h \in holders
    /\ enabling' = [enabling EXCEPT ![e] = [at |-> "called", by |-> h, key |-> current[e]]]
    /\ UNCHANGED <<holders, holderLock, pushRows, wanted, browserVars, fanoutVars>>

\* DELETE /api/subscriptions/:token/push: only a row of the same Subscriber.
DisablePush(e, h) ==
    /\ h \in holders
    /\ pushRows[e].owner = h
    /\ pushRows' = [pushRows EXCEPT ![e] = NoRegistration]
    /\ wanted' = [wanted EXCEPT ![e] = NoRegistration]
    /\ UNCHANGED <<holders, holderLock, enabling, browserVars, fanoutVars>>
-------------------------------------------------------------------------------
(* upsertPushSubscription, statement by statement. *)

\* Mutant: the Subscriber is read without a lock.
X_LockHolder(e) ==
    /\ enabling[e].at = "called"
    /\ enabling' = [enabling EXCEPT ![e] = IF @.by \in holders THEN [@ EXCEPT !.at = "locked"]
                                           ELSE NotEnabling]
    /\ UNCHANGED <<holders, holderLock, pushRows, wanted, browserVars, fanoutVars>>

\* SELECT ... FOR UPDATE on the Subscriber, which may be gone by now.
LockHolder(e) ==
    LET h == enabling[e].by
    IN  /\ enabling[e].at = "called"
        /\ holderLock[h] = "free"
        /\ IF h \in holders
           THEN /\ holderLock' = [holderLock EXCEPT ![h] = e]
                /\ enabling' = [enabling EXCEPT ![e].at = "locked"]
           ELSE /\ enabling' = [enabling EXCEPT ![e] = NotEnabling]
                /\ UNCHANGED holderLock
        /\ UNCHANGED <<holders, pushRows, wanted, browserVars, fanoutVars>>

\* Whose endpoint it is, and how many the Subscriber owns unless it is theirs.
CountPushes(e) ==
    LET h == enabling[e].by
    IN  /\ enabling[e].at = "locked"
        /\ IF pushRows[e].owner = h \/ Cardinality(OwnedBy(h)) < MaxPush
           THEN /\ enabling' = [enabling EXCEPT ![e].at = "checked"]
                /\ UNCHANGED holderLock
           ELSE /\ enabling' = [enabling EXCEPT ![e] = NotEnabling]
                /\ holderLock' = [holderLock EXCEPT ![h] = "free"]
        /\ UNCHANGED <<holders, pushRows, wanted, browserVars, fanoutVars>>

\* INSERT ... ON CONFLICT (endpoint) DO UPDATE, commit, 201.
UpsertPush(e) ==
    LET row == [owner |-> enabling[e].by, key |-> enabling[e].key]
    IN  /\ enabling[e].at = "checked"
        /\ pushRows' = [pushRows EXCEPT ![e] = row]
        /\ wanted' = [wanted EXCEPT ![e] = row]
        /\ holderLock' = [holderLock EXCEPT ![row.owner] = "free"]
        /\ enabling' = [enabling EXCEPT ![e] = NotEnabling]
        /\ UNCHANGED <<holders, browserVars, fanoutVars>>

\* The connection breaks: the transaction rolls back.
AbortEnable(e) ==
    /\ enabling[e].at # "idle"
    /\ holderLock' = [h \in Holder |-> IF holderLock[h] = e THEN "free" ELSE holderLock[h]]
    /\ enabling' = [enabling EXCEPT ![e] = NotEnabling]
    /\ UNCHANGED <<holders, pushRows, wanted, browserVars, fanoutVars>>

\* deleteSubscriber waits for the row lock; the rows cascade.
DeleteHolder(h) ==
    /\ h \in holders
    /\ holderLock[h] = "free"
    /\ holders' = holders \ {h}
    /\ pushRows' = [e \in Endpoint |-> IF pushRows[e].owner = h THEN NoRegistration
                                       ELSE pushRows[e]]
    /\ wanted' = [e \in Endpoint |-> IF wanted[e].owner = h THEN NoRegistration ELSE wanted[e]]
    /\ UNCHANGED <<holderLock, enabling, browserVars, fanoutVars>>
-------------------------------------------------------------------------------
(* startPush and pushAlert. *)

\* Mutant: a retried job fans out again.
X_StartPush(j, h) ==
    /\ pushJobs' = pushJobs \cup {j}
    /\ sends' = sends \cup
           {[job |-> j, endpoint |-> e, row |-> pushRows[e], tries |-> 0, at |-> "sending"] :
                e \in OwnedBy(h)}
    /\ UNCHANGED <<directoryVars, browserVars, notified>>

\* Every attempt of the job reaches startPush; the first one of a process lists
\* the browsers.
StartPush(j, h) ==
    /\ j \notin pushJobs
    /\ pushJobs' = pushJobs \cup {j}
    /\ sends' = sends \cup
           {[job |-> j, endpoint |-> e, row |-> pushRows[e], tries |-> 0, at |-> "sending"] :
                e \in OwnedBy(h)}
    /\ UNCHANGED <<directoryVars, browserVars, notified>>

Finish(t) == sends' = sends \ {t}

\* Mutant: it goes on after the last address.
X_AddressFails(t) ==
    /\ t.at = "sending"
    /\ sends' = (sends \ {t}) \cup {[t EXCEPT !.tries = @ + 1]}
    /\ UNCHANGED <<directoryVars, browserVars, pushJobs, notified>>

\* tryPreparedPushAddress failed before TLS: the next address, if there is one.
AddressFails(t) ==
    /\ t.at = "sending"
    /\ sends' = (sends \ {t}) \cup
           {u \in {[t EXCEPT !.tries = @ + 1]} : u.tries < MaxAddresses}
    /\ UNCHANGED <<directoryVars, browserVars, pushJobs, notified>>

\* External: the push service takes the notification.  Its answer may be lost,
\* and a connected attempt is not repeated.
ServiceAccepts(t) ==
    /\ t.at = "sending"
    /\ t.row.key = current[t.endpoint]
    /\ notified' = [notified EXCEPT ![t.job][t.endpoint] = @ + 1]
    /\ Finish(t)
    /\ UNCHANGED <<directoryVars, browserVars, pushJobs>>

\* It refuses or cuts the connection.
ServiceFails(t) ==
    /\ t.at = "sending"
    /\ Finish(t)
    /\ UNCHANGED <<directoryVars, browserVars, pushJobs, notified>>

\* 404 or 410: it no longer knows that subscription.
ServiceGone(t) ==
    /\ t.at = "sending"
    /\ t.row.key # current[t.endpoint]
    /\ sends' = (sends \ {t}) \cup {[t EXCEPT !.at = "gone"]}
    /\ UNCHANGED <<directoryVars, browserVars, pushJobs, notified>>

\* Mutant: the endpoint alone says which row to prune.
X_PrunePush(t) ==
    /\ t.at = "gone"
    /\ Finish(t)
    /\ pushRows' = [pushRows EXCEPT ![t.endpoint] = NoRegistration]
    /\ UNCHANGED <<holders, holderLock, enabling, wanted, browserVars, pushJobs, notified>>

\* deletePushSubscriptionIfMatches: Subscriber, endpoint and both keys of the
\* delivery's snapshot.
PrunePush(t) ==
    /\ t.at = "gone"
    /\ Finish(t)
    /\ pushRows' = [e \in Endpoint |-> IF e = t.endpoint /\ pushRows[e] = t.row
                                       THEN NoRegistration ELSE pushRows[e]]
    /\ UNCHANGED <<holders, holderLock, enabling, wanted, browserVars, pushJobs, notified>>

\* Fan-outs are memory; notified counts per process.
RestartDispatcher ==
    /\ sends' = {}
    /\ pushJobs' = {}
    /\ notified' = NoNotification
    /\ UNCHANGED <<directoryVars, browserVars>>
-------------------------------------------------------------------------------
BrowserStep(e) == \/ SubscribeBrowser(e) \/ UnsubscribeBrowser(e)
                  \/ \E h \in Holder : EnablePush(e, h) \/ DisablePush(e, h)

UpsertStep(e) == LockHolder(e) \/ CountPushes(e) \/ UpsertPush(e) \/ AbortEnable(e)

DeliveryStep(t) == \/ AddressFails(t) \/ ServiceAccepts(t) \/ ServiceFails(t) \/ ServiceGone(t)
                   \/ PrunePush(t)

PushNext ==
    \/ \E e \in Endpoint : BrowserStep(e) \/ UpsertStep(e)
    \/ \E h \in Holder : DeleteHolder(h)
    \/ \E j \in PushJob, h \in Holder : StartPush(j, h)
    \/ \E t \in sends : DeliveryStep(t)
    \/ RestartDispatcher

PushSpec == PushInit /\ [][PushNext]_pushVars
-------------------------------------------------------------------------------
\* Concurrent registrations, reassignments of an endpoint and deletions leave no
\* Subscriber with more browsers than the cap, although upsertPushSubscription
\* counts in one statement and inserts in a later one.
PushCapHeld == \A h \in Holder : Cardinality(OwnedBy(h)) <= MaxPush

\* A browser whose registration was answered 201, that nobody disabled or took
\* over since and whose subscription the push service still accepts, is still
\* registered: the late 404 or 410 of an older delivery does not prune it.
EnabledBrowserKept ==
    \A e \in Endpoint :
        wanted[e].owner # "none" /\ wanted[e].key = current[e] => pushRows[e] = wanted[e]

\* However often a job is retried, its push host has several addresses or an
\* answer is lost, one process notifies a browser of one Alert at most once.
OneNotificationPerJob == \A j \in PushJob, e \in Endpoint : notified[j][e] <= 1
===============================================================================
