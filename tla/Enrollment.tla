-------------------------------- MODULE Enrollment --------------------------------
(***************************************************************************)
(* Subscribers and Watches under concurrent API requests: the routes of    *)
(* src/server/app.ts and the transactions of src/db/repo.ts they call.     *)
(* Every ceiling (Subscribers of the pilot, live Watches per Subscriber,   *)
(* Sections in demand) is counted in one statement and used in a later one *)
(* of a READ COMMITTED transaction, so each transaction is Lock, Check,    *)
(* Commit, with the watches table lock held from the first to the last.    *)
(*                                                                         *)
(* The mail that these commits also queue, cancel or detach is             *)
(* MailOutbox's.                                                           *)
(***************************************************************************)
EXTENDS Naturals, FiniteSets

CONSTANTS
    Client,            \* API requests under way at once
    Email,
    Section,
    MaxIds,            \* bound: Subscriber rows ever inserted
    MaxWatches,        \* MAX_WATCHES_PER_SUBSCRIBER
    PilotLimit,        \* PILOT_SUBSCRIBER_LIMIT
    MaxSections        \* the source capacity in unique Sections

ASSUME EnrollmentAssumption ==
    /\ IsFiniteSet(Section)
    /\ MaxIds \in Nat /\ MaxWatches \in Nat \ {0}
    /\ PilotLimit \in Nat \ {0} /\ MaxSections \in Nat \ {0}
    /\ "free" \notin Client

VARIABLES
    admission,   \* ADMISSION_MODE
    accounts,    \* [Id -> row of subscribers, NoAccount when there is none]
    watches,     \* [Id -> [Section -> row of watches]]
    born,        \* Subscriber ids handed out so far
    request,     \* [Client -> the API request and its transaction]
    watchesLock  \* who holds SHARE ROW EXCLUSIVE on watches

enrollmentVars == <<admission, accounts, watches, born, request, watchesLock>>
-------------------------------------------------------------------------------
Id == 1..MaxIds

Account == [state : {"absent", "pending", "confirmed"}, email : Email \cup {"none"}]
NoAccount == [state |-> "absent", email |-> "none"]

\* staged is a live Watch with NULL activation fields.
WatchState == {"none", "staged", "active", "retired"}

Live(w) == w \in {"staged", "active"}

Request == [op : {"none", "create", "confirm", "add", "remove", "delete"},
            at : {"idle", "called", "locked", "checked"},
            id : 0..MaxIds, email : Email \cup {"none"}, keys : SUBSET Section]

Idle == [op |-> "none", at |-> "idle", id |-> 0, email |-> "none", keys |-> {}]

EnrollmentTypeOK ==
    /\ admission \in {"closed", "pilot", "public"}
    /\ accounts \in [Id -> Account]
    /\ watches \in [Id -> [Section -> WatchState]]
    /\ born \in 0..MaxIds
    /\ request \in [Client -> Request]
    /\ watchesLock \in Client \cup {"free"}

EnrollmentInit ==
    /\ admission \in {"closed", "pilot", "public"}
    /\ accounts = [i \in Id |-> NoAccount]
    /\ watches = [i \in Id |-> [s \in Section |-> "none"]]
    /\ born = 0
    /\ request = [c \in Client |-> Idle]
    /\ watchesLock = "free"

Present(i) == i # 0 /\ accounts[i].state # "absent"

Registered == {i \in Id : accounts[i].state # "absent"}

LiveSections(i) == {s \in Section : Live(watches[i][s])}

\* Activated live Watches of Confirmed Subscribers: what the poller requests.
InDemand(s) == \E i \in Id : accounts[i].state = "confirmed" /\ watches[i][s] = "active"

UniqueSections == {s \in Section : InDemand(s)}

\* assertUniqueSectionCapacity.
SectionsFit(keys) ==
    keys = {} \/ Cardinality(UniqueSections)
                   + (Cardinality(keys) - Cardinality({s \in keys : InDemand(s)})) <= MaxSections

Answer(c) == request' = [request EXCEPT ![c] = Idle]

\* A refusal rolls back and frees the lock.
Refuse(c) ==
    /\ Answer(c)
    /\ watchesLock' = "free"
    /\ UNCHANGED <<admission, accounts, watches, born>>
-------------------------------------------------------------------------------
(* The routes, up to their call of the repository. *)

Call(c, r) ==
    /\ request[c].at = "idle"
    /\ request' = [request EXCEPT ![c] = r]
    /\ UNCHANGED <<admission, accounts, watches, born, watchesLock>>

\* POST /api/subscriptions: admissionAllowsCreate, the schema's cap on keys.
PostSubscription(c) ==
    /\ admission # "closed"
    /\ \E e \in Email, keys \in SUBSET Section \ {{}} :
           /\ Cardinality(keys) <= MaxWatches
           /\ Call(c, [op |-> "create", at |-> "called", id |-> 0, email |-> e, keys |-> keys])

\* POST /api/subscriptions/:token/confirm, from any link ever mailed.
PostConfirm(c) ==
    \E i \in 1..born :
        Call(c, [op |-> "confirm", at |-> "called", id |-> i, email |-> "none", keys |-> {}])

\* Add and remove a Watch: getSubscriberById first, 404 when there is none.
ChangeWatch(c) ==
    \E i \in 1..born, s \in Section, op \in {"add", "remove"} :
        /\ Present(i)
        /\ Call(c, [op |-> op, at |-> "called", id |-> i, email |-> "none", keys |-> {s}])

\* DELETE /api/subscriptions/:token and the one-click unsubscribe.
Unsubscribe(c) ==
    \E i \in 1..born :
        /\ Present(i)
        /\ Call(c, [op |-> "delete", at |-> "called", id |-> i, email |-> "none", keys |-> {}])
-------------------------------------------------------------------------------
(* The transactions. *)

\* Mutant: the transactions do not wait for each other.
X_LockWatches(c) ==
    /\ request[c].at = "called"
    /\ watchesLock' = c
    /\ request' = [request EXCEPT ![c].at = "locked"]
    /\ UNCHANGED <<admission, accounts, watches, born>>

\* lockWatchTableForActivation, the first statement of each.
LockWatches(c) ==
    /\ request[c].at = "called"
    /\ watchesLock = "free"
    /\ watchesLock' = c
    /\ request' = [request EXCEPT ![c].at = "locked"]
    /\ UNCHANGED <<admission, accounts, watches, born>>

\* assertSubscriberCapacity.
SubscribersFit == admission # "pilot" \/ Cardinality(Registered) < PilotLimit

\* What each transaction reads before it writes; a Confirmed Subscriber is
\* answered already_confirmed whatever the capacity.
Admits(r) ==
    CASE r.op = "create"  -> SubscribersFit /\ born < MaxIds
      [] r.op = "confirm" -> accounts[r.id].state = "pending" /\ SectionsFit(LiveSections(r.id))
      [] r.op = "add"     -> /\ Present(r.id)
                             /\ r.keys \cap LiveSections(r.id) = {}
                             /\ Cardinality(LiveSections(r.id)) < MaxWatches
                             /\ accounts[r.id].state = "confirmed" => SectionsFit(r.keys)
      [] OTHER            -> TRUE

Check(c) ==
    /\ request[c].at = "locked"
    /\ IF Admits(request[c])
       THEN /\ request' = [request EXCEPT ![c].at = "checked"]
            /\ UNCHANGED <<admission, accounts, watches, born, watchesLock>>
       ELSE Refuse(c)

Commit(c, op) ==
    /\ request[c].at = "checked"
    /\ request[c].op = op
    /\ Answer(c)
    /\ watchesLock' = "free"
    /\ UNCHANGED admission

\* createSubscriberWithWatches: insert-only, Watches staged.
CreateSubscriber(c) ==
    /\ Commit(c, "create")
    /\ \A i \in Registered : accounts[i].email # request[c].email
    /\ born' = born + 1
    /\ accounts' = [accounts EXCEPT ![born'] = [state |-> "pending", email |-> request[c].email]]
    /\ watches' = [watches EXCEPT ![born'] =
           [s \in Section |-> IF s \in request[c].keys THEN "staged" ELSE "none"]]

\* The insert met the unique index on the address: DuplicateSubscriberError.
RefuseDuplicateSubscriber(c) ==
    /\ Commit(c, "create")
    /\ \E i \in Registered : accounts[i].email = request[c].email
    /\ UNCHANGED <<accounts, watches, born>>

\* confirmSubscriber: confirmed_at, and every live Watch activated.
ConfirmSubscriber(c) ==
    /\ Commit(c, "confirm")
    /\ LET i == request[c].id
       IN  /\ accounts' = [accounts EXCEPT ![i].state = "confirmed"]
           /\ watches' = [watches EXCEPT ![i] =
                  [s \in Section |-> IF Live(watches[i][s]) THEN "active" ELSE watches[i][s]]]
    /\ UNCHANGED born

\* Mutant: activation is left to the confirmation.
X_AddWatch(c) ==
    /\ Commit(c, "add")
    /\ watches' = [watches EXCEPT ![request[c].id] =
           [s \in Section |-> IF s \in request[c].keys THEN "staged" ELSE @[s]]]
    /\ UNCHANGED <<accounts, born>>

\* addWatchWithFreshness: revive a retired row or insert one, activated exactly
\* when the Subscriber is Confirmed.
AddWatch(c) ==
    /\ Commit(c, "add")
    /\ LET i == request[c].id
           now == IF accounts[i].state = "confirmed" THEN "active" ELSE "staged"
       IN  watches' = [watches EXCEPT ![i] =
               [s \in Section |-> IF s \in request[c].keys THEN now ELSE watches[i][s]]]
    /\ UNCHANGED <<accounts, born>>

RemoveWatch(c) ==
    /\ Commit(c, "remove")
    /\ watches' = [watches EXCEPT ![request[c].id] =
           [s \in Section |-> IF s \in request[c].keys THEN "none" ELSE @[s]]]
    /\ UNCHANGED <<accounts, born>>

\* The rows of the Subscribers in gone, and by cascade their Watches, are deleted.
Erase(gone) ==
    /\ accounts' = [i \in Id |-> IF i \in gone THEN NoAccount ELSE accounts[i]]
    /\ watches' = [i \in Id |-> IF i \in gone THEN [s \in Section |-> "none"] ELSE watches[i]]

DeleteSubscriber(c) ==
    /\ Commit(c, "delete")
    /\ Erase({request[c].id})
    /\ UNCHANGED born

\* The process of the API dies, or its connection: the transaction rolls back.
AbortRequest(c) ==
    /\ request[c].at # "idle"
    /\ Answer(c)
    /\ watchesLock' = IF watchesLock = c THEN "free" ELSE watchesLock
    /\ UNCHANGED <<admission, accounts, watches, born>>
-------------------------------------------------------------------------------
(* The worker's transactions, which take the same lock. *)

\* retireWatchesForClass, for the Watches the cycle's cutoff lets it see.
RetireWatches(s) ==
    /\ watchesLock = "free"
    /\ \E gone \in SUBSET {i \in Id : Live(watches[i][s])} :
           /\ gone # {}
           /\ \A i \in Id : watches[i][s] = "staged" => i \in gone
           /\ watches' = [i \in Id |-> IF i \in gone THEN [watches[i] EXCEPT ![s] = "retired"]
                                       ELSE watches[i]]
    /\ UNCHANGED <<admission, accounts, born, request, watchesLock>>

\* sweepRetention: Pending Subscribers and retired Watches past their retention.
SweepRetention ==
    /\ watchesLock = "free"
    /\ \E gone \in SUBSET {i \in Id : accounts[i].state = "pending"} : Erase(gone)
    /\ UNCHANGED <<admission, born, request, watchesLock>>

SweepRetiredWatch(i, s) ==
    /\ watchesLock = "free"
    /\ watches[i][s] = "retired"
    /\ watches' = [watches EXCEPT ![i][s] = "none"]
    /\ UNCHANGED <<admission, accounts, born, request, watchesLock>>
-------------------------------------------------------------------------------
RouteStep(c) == PostSubscription(c) \/ PostConfirm(c) \/ ChangeWatch(c) \/ Unsubscribe(c)

TransactionStep(c) == \/ LockWatches(c) \/ Check(c) \/ CreateSubscriber(c)
                      \/ RefuseDuplicateSubscriber(c) \/ ConfirmSubscriber(c) \/ AddWatch(c)
                      \/ RemoveWatch(c) \/ DeleteSubscriber(c) \/ AbortRequest(c)

EnrollmentNext ==
    \/ \E c \in Client : RouteStep(c) \/ TransactionStep(c)
    \/ \E s \in Section : RetireWatches(s)
    \/ SweepRetention
    \/ \E i \in Id, s \in Section : SweepRetiredWatch(i, s)

EnrollmentSpec == EnrollmentInit /\ [][EnrollmentNext]_enrollmentVars
-------------------------------------------------------------------------------
\* However requests interleave, no ceiling that some transaction counted is
\* exceeded by what it wrote: the pilot's Subscribers, the live Watches of each
\* Subscriber, and the distinct Sections the poller has to request.
CapacityHeld ==
    /\ admission = "pilot" => Cardinality(Registered) <= PilotLimit
    /\ \A i \in Id : Cardinality(LiveSections(i)) <= MaxWatches
    /\ Cardinality(UniqueSections) <= MaxSections

\* A live Watch is activated exactly when its Subscriber is Confirmed: a
\* confirmation, also a second one after a refusal for capacity, activates every
\* live Watch at once, nothing activates one for a Pending Subscriber, and no
\* Confirmed Subscriber is left with a Watch that is never polled.
ActivatedIffConfirmed ==
    \A i \in Id, s \in Section :
        Live(watches[i][s]) => (watches[i][s] = "active" <=> accounts[i].state = "confirmed")
===============================================================================
