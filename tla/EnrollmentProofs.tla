---------------------------- MODULE EnrollmentProofs ----------------------------
(***************************************************************************)
(* Proofs about Enrollment, for any number of concurrent requests,         *)
(* Subscribers and Sections and any ceilings: its types, that no ceiling   *)
(* is exceeded, and that a Watch is activated exactly when its Subscriber  *)
(* is Confirmed.                                                           *)
(*                                                                         *)
(* What a transaction read is still true when it writes, because it holds  *)
(* the lock on watches in between (LockExclusive, CheckedAdmits).          *)
(***************************************************************************)
EXTENDS Enrollment, FiniteSetTheorems, TLAPS

\* A transaction past its first statement holds the lock, and only that one.
LockExclusive ==
    \A c \in Client : request[c].at \in {"locked", "checked"} <=> watchesLock = c

\* What the routes let through to the transactions.
RequestSound(r) ==
    /\ r.op = "create" => Cardinality(r.keys) <= MaxWatches
    /\ r.op \in {"confirm", "add", "remove", "delete"} => r.id \in Id
    /\ r.op \in {"add", "remove"} => \E s \in Section : r.keys = {s}

RequestsSound == \A c \in Client : RequestSound(request[c])

\* The check of a transaction that is about to write still holds.
CheckedAdmits == \A c \in Client : request[c].at = "checked" => Admits(request[c])

EnrollmentInv ==
    /\ EnrollmentTypeOK
    /\ LockExclusive
    /\ RequestsSound
    /\ CheckedAdmits
    /\ CapacityHeld
    /\ ActivatedIffConfirmed

-------------------------------------------------------------------------------
(* The counted sets. *)

\* Every set that is counted is finite, before and after a step.
LEMMA CountedSetsFinite ==
    /\ IsFiniteSet(Registered) /\ IsFiniteSet(Registered')
    /\ IsFiniteSet(UniqueSections) /\ IsFiniteSet(UniqueSections')
    /\ \A i : IsFiniteSet(LiveSections(i)) /\ IsFiniteSet(LiveSections(i)')
  <1>1. IsFiniteSet(Id)
    BY EnrollmentAssumption, FS_Interval DEF Id
  <1>2. Registered \in SUBSET Id /\ Registered' \in SUBSET Id
    BY DEF Registered
  <1>3. UniqueSections \in SUBSET Section /\ UniqueSections' \in SUBSET Section
    BY DEF UniqueSections
  <1>4. \A i : LiveSections(i) \in SUBSET Section /\ LiveSections(i)' \in SUBSET Section
    BY DEF LiveSections
  <1> QED BY <1>1, <1>2, <1>3, <1>4, EnrollmentAssumption, FS_Subset

\* A part of a finite set counts no more than the whole.
LEMMA FewerCount ==
    ASSUME NEW S, IsFiniteSet(S), NEW T, T \subseteq S
    PROVE  /\ Cardinality(S) \in Nat /\ Cardinality(T) \in Nat
           /\ Cardinality(T) <= Cardinality(S)
  BY FS_Subset, FS_CardinalityType

\* A step that only takes Subscribers, Watches and demand away exceeds nothing.
LEMMA ShrinkKeepsCapacity ==
    ASSUME CapacityHeld, UNCHANGED admission, Registered' \subseteq Registered,
           \A i \in Id : LiveSections(i)' \subseteq LiveSections(i),
           UniqueSections' \subseteq UniqueSections
    PROVE  CapacityHeld'
  <1>1. Cardinality(Registered') <= Cardinality(Registered)
        /\ Cardinality(Registered') \in Nat /\ Cardinality(Registered) \in Nat
    BY CountedSetsFinite, FewerCount
  <1>2. Cardinality(UniqueSections') <= Cardinality(UniqueSections)
        /\ Cardinality(UniqueSections') \in Nat /\ Cardinality(UniqueSections) \in Nat
    BY CountedSetsFinite, FewerCount
  <1>3. \A i \in Id : /\ Cardinality(LiveSections(i)') <= Cardinality(LiveSections(i))
                       /\ Cardinality(LiveSections(i)') \in Nat
                       /\ Cardinality(LiveSections(i)) \in Nat
    BY CountedSetsFinite, FewerCount
  <1>4. MaxWatches \in Nat /\ PilotLimit \in Nat /\ MaxSections \in Nat
    BY EnrollmentAssumption
  <1> QED BY <1>1, <1>2, <1>3, <1>4 DEF CapacityHeld

\* Demand that fits is still within the ceiling once it is added.
LEMMA FittingDemand ==
    ASSUME NEW keys \in SUBSET Section, SectionsFit(keys),
           Cardinality(UniqueSections) <= MaxSections,
           UniqueSections' \subseteq UniqueSections \cup keys
    PROVE  Cardinality(UniqueSections') <= MaxSections
  <1>1. IsFiniteSet(keys) /\ IsFiniteSet(UniqueSections) /\ IsFiniteSet(UniqueSections')
    BY CountedSetsFinite, EnrollmentAssumption, FS_Subset
  <1>2. {s \in keys : InDemand(s)} = keys \cap UniqueSections
    BY DEF UniqueSections
  <1>3. /\ IsFiniteSet(UniqueSections \cup keys)
        /\ Cardinality(UniqueSections \cup keys)
              = Cardinality(UniqueSections) + Cardinality(keys) - Cardinality(UniqueSections \cap keys)
    BY <1>1, FS_Union
  <1>4. /\ Cardinality(UniqueSections') <= Cardinality(UniqueSections \cup keys)
        /\ Cardinality(UniqueSections') \in Nat /\ Cardinality(UniqueSections \cup keys) \in Nat
    BY <1>3, FewerCount
  <1>5. /\ Cardinality(UniqueSections) \in Nat /\ Cardinality(keys) \in Nat
        /\ Cardinality(UniqueSections \cap keys) \in Nat
    BY <1>1, FewerCount
  <1>6. CASE keys = {}
    BY <1>1, <1>5, <1>6, FewerCount, EnrollmentAssumption
  <1>7. CASE keys # {}
    <2>1. keys \cap UniqueSections = UniqueSections \cap keys
      OBVIOUS
    <2>2. Cardinality(UniqueSections)
             + (Cardinality(keys) - Cardinality(UniqueSections \cap keys)) <= MaxSections
      BY <1>2, <1>7, <2>1 DEF SectionsFit
    <2> QED BY <1>3, <1>4, <1>5, <2>2, EnrollmentAssumption
  <1> QED BY <1>6, <1>7

-------------------------------------------------------------------------------
(* The steps. *)

\* A step that leaves the tables alone keeps what is said about them.
LEMMA TablesUnchanged ==
    ASSUME EnrollmentInv, UNCHANGED <<admission, accounts, watches, born>>
    PROVE  /\ CapacityHeld' /\ ActivatedIffConfirmed'
           /\ \A r : Admits(r)' <=> Admits(r)
  <1>1. Registered' = Registered /\ UniqueSections' = UniqueSections
    BY DEF Registered, UniqueSections, InDemand
  <1>2. \A i : LiveSections(i)' = LiveSections(i)
    BY DEF LiveSections
  <1>3. CapacityHeld'
    BY <1>1, <1>2 DEF EnrollmentInv, CapacityHeld
  <1>4. ActivatedIffConfirmed'
    BY DEF EnrollmentInv, ActivatedIffConfirmed
  <1>5. \A keys : SectionsFit(keys)' <=> SectionsFit(keys)
    BY <1>1 DEF SectionsFit, InDemand
  <1>6. \A i : Present(i)' <=> Present(i)
    BY DEF Present
  <1>7. SubscribersFit' <=> SubscribersFit
    BY <1>1 DEF SubscribersFit
  <1>8. \A r : Admits(r)' <=> Admits(r)
    BY <1>2, <1>5, <1>6, <1>7 DEF Admits
  <1> QED BY <1>3, <1>4, <1>8

\* A route puts a sound request in the place of none.
LEMMA CallKeepsInv ==
    ASSUME EnrollmentInv, NEW c \in Client, NEW r \in Request, RequestSound(r),
           r.at = "called", Call(c, r)
    PROVE  EnrollmentInv'
  <1>1. /\ request' \in [Client -> Request] /\ request'[c] = r
        /\ \A d \in Client \ {c} : request'[d] = request[d]
        /\ request[c].at = "idle"
        /\ UNCHANGED <<admission, accounts, watches, born, watchesLock>>
    BY DEF EnrollmentInv, EnrollmentTypeOK, Call
  <1>2. EnrollmentTypeOK' /\ LockExclusive'
    BY <1>1 DEF EnrollmentInv, EnrollmentTypeOK, LockExclusive
  <1>3. \A d \in Client : RequestSound(request'[d])
    BY <1>1 DEF EnrollmentInv, RequestsSound
  <1>4. RequestsSound'
    BY <1>3 DEF RequestsSound, RequestSound
  <1>5. \A d \in Client : request'[d].at = "checked" => Admits(request[d])' /\ request'[d] = request[d]
    BY <1>1, TablesUnchanged DEF EnrollmentInv, CheckedAdmits
  <1>6. CheckedAdmits'
    BY <1>5 DEF CheckedAdmits, Admits
  <1> QED BY <1>1, <1>2, <1>4, <1>6, TablesUnchanged DEF EnrollmentInv

\* The four routes.
LEMMA RouteStepKeepsInv ==
    ASSUME EnrollmentInv, NEW c \in Client, RouteStep(c)
    PROVE  EnrollmentInv'
  <1>0. 1..born \subseteq Id /\ born \in Nat /\ \A i \in 1..born : i \in 0..MaxIds
    BY EnrollmentAssumption DEF EnrollmentInv, EnrollmentTypeOK, Id
  <1>1. CASE PostSubscription(c)
    <2>1. PICK e \in Email, keys \in SUBSET Section \ {{}} :
              /\ Cardinality(keys) <= MaxWatches
              /\ Call(c, [op |-> "create", at |-> "called", id |-> 0, email |-> e, keys |-> keys])
      BY <1>1 DEF PostSubscription
    <2> DEFINE r == [op |-> "create", at |-> "called", id |-> 0, email |-> e, keys |-> keys]
    <2>2. 0 \in 0..MaxIds
      BY EnrollmentAssumption
    <2>3. r \in Request /\ RequestSound(r) /\ r.at = "called"
      BY <2>1, <2>2 DEF Request, RequestSound
    <2> QED BY <2>1, <2>3, CallKeepsInv
  <1>2. CASE PostConfirm(c)
    <2>1. PICK i \in 1..born :
              Call(c, [op |-> "confirm", at |-> "called", id |-> i, email |-> "none", keys |-> {}])
      BY <1>2 DEF PostConfirm
    <2> DEFINE r == [op |-> "confirm", at |-> "called", id |-> i, email |-> "none", keys |-> {}]
    <2>2. r \in Request /\ RequestSound(r) /\ r.at = "called"
      BY <1>0 DEF Request, RequestSound
    <2> QED BY <2>1, <2>2, CallKeepsInv
  <1>3. CASE ChangeWatch(c)
    <2>1. PICK i \in 1..born, s \in Section, op \in {"add", "remove"} :
              Call(c, [op |-> op, at |-> "called", id |-> i, email |-> "none", keys |-> {s}])
      BY <1>3 DEF ChangeWatch
    <2> DEFINE r == [op |-> op, at |-> "called", id |-> i, email |-> "none", keys |-> {s}]
    <2>2. r \in Request /\ RequestSound(r) /\ r.at = "called"
      BY <1>0 DEF Request, RequestSound
    <2> QED BY <2>1, <2>2, CallKeepsInv
  <1>4. CASE Unsubscribe(c)
    <2>1. PICK i \in 1..born :
              Call(c, [op |-> "delete", at |-> "called", id |-> i, email |-> "none", keys |-> {}])
      BY <1>4 DEF Unsubscribe
    <2> DEFINE r == [op |-> "delete", at |-> "called", id |-> i, email |-> "none", keys |-> {}]
    <2>2. r \in Request /\ RequestSound(r) /\ r.at = "called"
      BY <1>0 DEF Request, RequestSound
    <2> QED BY <2>1, <2>2, CallKeepsInv
  <1> QED BY <1>1, <1>2, <1>3, <1>4 DEF RouteStep

\* A request that takes the lock, or passes its check.
LEMMA LockAndCheckKeepInv ==
    ASSUME EnrollmentInv, NEW c \in Client,
           LockWatches(c) \/ (Check(c) /\ Admits(request[c]))
    PROVE  EnrollmentInv'
  <1>1. CASE LockWatches(c)
    <2>1. /\ request' = [request EXCEPT ![c] = [request[c] EXCEPT !.at = "locked"]]
          /\ request' \in [Client -> Request]
          /\ watchesLock = "free" /\ watchesLock' = c
          /\ UNCHANGED <<admission, accounts, watches, born>>
      BY <1>1 DEF LockWatches, EnrollmentInv, EnrollmentTypeOK, Request
    <2>2. /\ request'[c].at = "locked" /\ RequestSound(request'[c])
          /\ \A d \in Client \ {c} : request'[d] = request[d] /\ request[d].at \notin {"locked", "checked"}
      BY <2>1, EnrollmentAssumption
      DEF EnrollmentInv, EnrollmentTypeOK, LockExclusive, RequestsSound, RequestSound, Request
    <2>3. EnrollmentTypeOK' /\ LockExclusive' /\ CheckedAdmits'
      BY <2>1, <2>2 DEF EnrollmentInv, EnrollmentTypeOK, LockExclusive, CheckedAdmits
    <2>4. \A d \in Client : RequestSound(request'[d])
      BY <2>2 DEF EnrollmentInv, RequestsSound
    <2>5. RequestsSound'
      BY <2>4 DEF RequestsSound, RequestSound
    <2> QED BY <2>1, <2>3, <2>5, TablesUnchanged DEF EnrollmentInv
  <1>2. CASE Check(c) /\ Admits(request[c])
    <2>1. /\ request' = [request EXCEPT ![c] = [request[c] EXCEPT !.at = "checked"]]
          /\ request' \in [Client -> Request]
          /\ request[c].at = "locked"
          /\ UNCHANGED <<admission, accounts, watches, born, watchesLock>>
      <3>1. /\ request' = [request EXCEPT ![c] = [request[c] EXCEPT !.at = "checked"]]
            /\ request[c].at = "locked"
            /\ UNCHANGED <<admission, accounts, watches, born, watchesLock>>
        BY <1>2 DEF Check
      <3>2. [request[c] EXCEPT !.at = "checked"] \in Request
        BY DEF EnrollmentInv, EnrollmentTypeOK, Request
      <3> QED BY <3>1, <3>2 DEF EnrollmentInv, EnrollmentTypeOK
    <2>2. /\ request'[c].at = "checked" /\ RequestSound(request'[c])
          /\ \A d \in Client \ {c} : request'[d] = request[d]
      BY <2>1 DEF EnrollmentInv, EnrollmentTypeOK, RequestsSound, RequestSound, Request
    <2>3. EnrollmentTypeOK' /\ LockExclusive'
      BY <2>1, <2>2 DEF EnrollmentInv, EnrollmentTypeOK, LockExclusive
    <2>4. \A d \in Client : RequestSound(request'[d])
      BY <2>2 DEF EnrollmentInv, RequestsSound
    <2>5. RequestsSound'
      BY <2>4 DEF RequestsSound, RequestSound
    <2>6. Admits(request'[c])
      BY <1>2, <2>1 DEF Admits, EnrollmentInv, EnrollmentTypeOK, Request
    <2>7. \A d \in Client : request'[d].at = "checked" => Admits(request'[d])
      BY <2>2, <2>6 DEF EnrollmentInv, CheckedAdmits
    <2>8. \A d \in Client : Admits(request'[d]) => Admits(request[d])'
      BY <2>1, TablesUnchanged DEF Admits
    <2>9. CheckedAdmits'
      BY <2>7, <2>8 DEF CheckedAdmits, Admits
    <2> QED BY <2>1, <2>3, <2>5, <2>9, TablesUnchanged DEF EnrollmentInv
  <1> QED BY <1>1, <1>2

\* A transaction that holds the lock gives it back, with the tables in order.
LEMMA UnlockKeepsInv ==
    ASSUME EnrollmentInv, NEW c \in Client, request[c].at \in {"locked", "checked"},
           Answer(c), watchesLock' = "free", UNCHANGED admission,
           accounts' \in [Id -> Account], watches' \in [Id -> [Section -> WatchState]],
           born' \in 0..MaxIds, CapacityHeld', ActivatedIffConfirmed'
    PROVE  EnrollmentInv'
  <1>1. Idle \in Request /\ RequestSound(Idle) /\ Idle.at = "idle"
    BY EnrollmentAssumption DEF Idle, Request, RequestSound
  <1>2. /\ request' \in [Client -> Request] /\ request'[c] = Idle
        /\ \A d \in Client \ {c} : request'[d] = request[d] /\ request[d].at \notin {"locked", "checked"}
    BY <1>1 DEF Answer, EnrollmentInv, EnrollmentTypeOK, LockExclusive
  <1>3. EnrollmentTypeOK' /\ LockExclusive' /\ CheckedAdmits'
    BY <1>1, <1>2, EnrollmentAssumption
    DEF EnrollmentInv, EnrollmentTypeOK, LockExclusive, CheckedAdmits
  <1>4. \A d \in Client : RequestSound(request'[d])
    BY <1>1, <1>2 DEF EnrollmentInv, RequestsSound
  <1>5. RequestsSound'
    BY <1>4 DEF RequestsSound, RequestSound
  <1> QED BY <1>3, <1>5 DEF EnrollmentInv

\* A request that ends without a write, by a refusal or by the death of its process.
LEMMA NothingWrittenKeepsInv ==
    ASSUME EnrollmentInv, NEW c \in Client, AbortRequest(c) \/ (Check(c) /\ Refuse(c))
    PROVE  EnrollmentInv'
  <1>0. Answer(c) /\ UNCHANGED <<admission, accounts, watches, born>>
    BY DEF AbortRequest, Refuse
  <1>1. CASE request[c].at \in {"locked", "checked"}
    <2>1. watchesLock' = "free"
      BY <1>1 DEF AbortRequest, Refuse, EnrollmentInv, LockExclusive
    <2> QED BY <1>0, <1>1, <2>1, UnlockKeepsInv, TablesUnchanged DEF EnrollmentInv, EnrollmentTypeOK
  <1>2. CASE request[c].at \notin {"locked", "checked"}
    <2>1. UNCHANGED watchesLock
      BY <1>2 DEF AbortRequest, Check, EnrollmentInv, LockExclusive
    <2>2. Idle \in Request /\ RequestSound(Idle) /\ Idle.at = "idle"
      BY EnrollmentAssumption DEF Idle, Request, RequestSound
    <2>3. /\ request' \in [Client -> Request] /\ request'[c] = Idle
          /\ \A d \in Client \ {c} : request'[d] = request[d]
      BY <1>0, <2>2 DEF Answer, EnrollmentInv, EnrollmentTypeOK
    <2>4. EnrollmentTypeOK' /\ LockExclusive'
      BY <1>0, <1>2, <2>1, <2>2, <2>3 DEF EnrollmentInv, EnrollmentTypeOK, LockExclusive
    <2>5. \A d \in Client : RequestSound(request'[d])
      BY <2>2, <2>3 DEF EnrollmentInv, RequestsSound
    <2>6. RequestsSound'
      BY <2>5 DEF RequestsSound, RequestSound
    <2>7. \A d \in Client : request'[d].at = "checked" => Admits(request[d])' /\ request'[d] = request[d]
      BY <1>0, <2>2, <2>3, TablesUnchanged DEF EnrollmentInv, CheckedAdmits
    <2>8. CheckedAdmits'
      BY <2>7 DEF CheckedAdmits, Admits
    <2> QED BY <1>0, <2>4, <2>6, <2>8, TablesUnchanged DEF EnrollmentInv
  <1> QED BY <1>1, <1>2

\* What a transaction about to write knows.
LEMMA CommitKnows ==
    ASSUME EnrollmentInv, NEW c \in Client, NEW op, Commit(c, op)
    PROVE  /\ request[c].at = "checked" /\ request[c].op = op /\ request[c] \in Request
           /\ Admits(request[c]) /\ RequestSound(request[c])
           /\ Answer(c) /\ watchesLock' = "free" /\ UNCHANGED admission
  BY DEF Commit, EnrollmentInv, EnrollmentTypeOK, CheckedAdmits, RequestsSound

\* createSubscriberWithWatches: the row is new, its Watches few and in no demand.
LEMMA CreateKeepsInv ==
    ASSUME EnrollmentInv, NEW c \in Client, CreateSubscriber(c)
    PROVE  EnrollmentInv'
  <1>1. /\ request[c].at = "checked" /\ request[c].op = "create" /\ request[c] \in Request
        /\ Admits(request[c]) /\ RequestSound(request[c])
        /\ Answer(c) /\ watchesLock' = "free" /\ UNCHANGED admission
    BY CommitKnows DEF CreateSubscriber
  <1>0. SubscribersFit /\ born + 1 \in Id /\ born' = born + 1 /\ born + 1 \in 0..MaxIds
    BY <1>1, EnrollmentAssumption
    DEF Admits, CreateSubscriber, EnrollmentInv, EnrollmentTypeOK, Id
  <1>2. PICK n \in Id : SubscribersFit /\ n = born + 1 /\ born' = n /\ n \in 0..MaxIds
    BY <1>0
  <1>20. PICK keys : keys = request[c].keys
    OBVIOUS
  <1> DEFINE staged == [s \in Section |-> IF s \in keys THEN "staged" ELSE "none"]
  <1>3. /\ accounts' = [accounts EXCEPT ![n] = [state |-> "pending", email |-> request[c].email]]
        /\ watches' = [watches EXCEPT ![n] = staged]
    BY <1>2, <1>20 DEF CreateSubscriber
  <1>4. keys \in SUBSET Section /\ Cardinality(keys) <= MaxWatches
    BY <1>1, <1>20 DEF Request, RequestSound
  <1>5. [state |-> "pending", email |-> request[c].email] \in Account
    BY <1>1 DEF Request, Account
  <1>6. staged \in [Section -> WatchState]
    BY DEF WatchState
  <1>7. accounts' \in [Id -> Account] /\ watches' \in [Id -> [Section -> WatchState]]
    BY <1>2, <1>3, <1>5, <1>6 DEF EnrollmentInv, EnrollmentTypeOK
  <1> HIDE DEF staged
  <1>8. /\ accounts'[n].state = "pending" /\ watches'[n] = staged
        /\ \A i \in Id \ {n} : accounts'[i] = accounts[i] /\ watches'[i] = watches[i]
    BY <1>2, <1>3 DEF EnrollmentInv, EnrollmentTypeOK
  <1>9. LiveSections(n)' = keys /\ \A i \in Id \ {n} : LiveSections(i)' = LiveSections(i)
    <2>1. LiveSections(n)' = {s \in Section : Live(staged[s])}
      BY <1>8 DEF LiveSections, Live
    <2>2. \A s \in Section : Live(staged[s]) <=> s \in keys
      BY DEF Live, staged
    <2>3. \A i \in Id \ {n} : LiveSections(i)' = LiveSections(i)
      BY <1>8 DEF LiveSections, Live
    <2> QED BY <1>4, <2>1, <2>2, <2>3
  <1>10. Registered' = Registered \cup {n}
    BY <1>2, <1>8 DEF Registered
  <1>11. UniqueSections' \subseteq UniqueSections
    BY <1>8 DEF UniqueSections, InDemand
  <1>12. Cardinality(Registered') <= Cardinality(Registered) + 1
    <2>1. Cardinality(Registered \cup {n})
             = IF n \in Registered THEN Cardinality(Registered) ELSE Cardinality(Registered) + 1
      BY CountedSetsFinite, FS_AddElement
    <2>2. Cardinality(Registered) \in Nat
      BY CountedSetsFinite, FewerCount
    <2> QED BY <1>10, <2>1, <2>2
  <1>13. Cardinality(UniqueSections') <= Cardinality(UniqueSections)
    BY <1>11, CountedSetsFinite, FewerCount
  <1>14. /\ Cardinality(Registered) \in Nat /\ Cardinality(Registered') \in Nat
         /\ Cardinality(UniqueSections) \in Nat /\ Cardinality(UniqueSections') \in Nat
         /\ PilotLimit \in Nat /\ MaxSections \in Nat
    BY CountedSetsFinite, FewerCount, EnrollmentAssumption
  <1>15. admission = "pilot" => Cardinality(Registered') <= PilotLimit
    BY <1>2, <1>12, <1>14 DEF SubscribersFit
  <1>16. \A i \in Id : Cardinality(LiveSections(i)') <= MaxWatches
    BY <1>4, <1>9 DEF EnrollmentInv, CapacityHeld
  <1>17. Cardinality(UniqueSections') <= MaxSections
    BY <1>13, <1>14 DEF EnrollmentInv, CapacityHeld
  <1>18. CapacityHeld'
    BY <1>1, <1>15, <1>16, <1>17 DEF CapacityHeld
  <1>19. ActivatedIffConfirmed'
    BY <1>8 DEF EnrollmentInv, ActivatedIffConfirmed, Live, staged
  <1> QED BY <1>1, <1>2, <1>7, <1>18, <1>19, UnlockKeepsInv

\* confirmSubscriber: every live Watch becomes demand that was checked to fit.
LEMMA ConfirmKeepsInv ==
    ASSUME EnrollmentInv, NEW c \in Client, ConfirmSubscriber(c)
    PROVE  EnrollmentInv'
  <1>1. /\ request[c].at = "checked" /\ request[c].op = "confirm" /\ request[c] \in Request
        /\ Admits(request[c]) /\ RequestSound(request[c])
        /\ Answer(c) /\ watchesLock' = "free" /\ UNCHANGED admission
    BY CommitKnows DEF ConfirmSubscriber
  <1>2. PICK i \in Id : i = request[c].id
    BY <1>1 DEF RequestSound
  <1>3. PICK keys : keys = LiveSections(i)
    OBVIOUS
  <1>4. /\ accounts[i].state = "pending" /\ SectionsFit(keys) /\ keys \in SUBSET Section
        /\ UNCHANGED born
    BY <1>1, <1>2, <1>3 DEF Admits, LiveSections, ConfirmSubscriber
  <1> DEFINE live == [s \in Section |-> IF Live(watches[i][s]) THEN "active" ELSE watches[i][s]]
  <1>5. /\ accounts' = [accounts EXCEPT ![i].state = "confirmed"]
        /\ watches' = [watches EXCEPT ![i] = live]
    BY <1>2 DEF ConfirmSubscriber
  <1>6. live \in [Section -> WatchState]
    BY DEF EnrollmentInv, EnrollmentTypeOK, WatchState
  <1>7. [accounts[i] EXCEPT !.state = "confirmed"] \in Account
    BY DEF EnrollmentInv, EnrollmentTypeOK, Account
  <1>8. accounts' \in [Id -> Account] /\ watches' \in [Id -> [Section -> WatchState]]
    BY <1>5, <1>6, <1>7 DEF EnrollmentInv, EnrollmentTypeOK
  <1>9. /\ accounts'[i].state = "confirmed"
        /\ \A s \in Section : watches'[i][s] = IF Live(watches[i][s]) THEN "active"
                                               ELSE watches[i][s]
        /\ \A j \in Id \ {i} : accounts'[j] = accounts[j] /\ watches'[j] = watches[j]
    BY <1>5 DEF EnrollmentInv, EnrollmentTypeOK, Account
  <1> HIDE DEF live
  <1>10. \A j \in Id : LiveSections(j)' = LiveSections(j)
    BY <1>9 DEF LiveSections, Live
  <1>11. Registered' = Registered
    BY <1>4, <1>9 DEF Registered
  <1>12. UniqueSections' \subseteq UniqueSections \cup keys
    <2>1. SUFFICES ASSUME NEW s \in UniqueSections'
                   PROVE  s \in UniqueSections \cup keys
      OBVIOUS
    <2>2. s \in Section
      BY DEF UniqueSections
    <2>3. PICK j \in Id : accounts'[j].state = "confirmed" /\ watches'[j][s] = "active"
      BY <2>1 DEF UniqueSections, InDemand
    <2>4. CASE j = i
      <3>1. Live(watches[i][s])
        BY <1>9, <2>2, <2>3, <2>4 DEF Live
      <3> QED BY <1>3, <2>2, <3>1 DEF LiveSections
    <2>5. CASE j # i
      BY <1>9, <2>2, <2>3, <2>5 DEF UniqueSections, InDemand
    <2> QED BY <2>4, <2>5
  <1>13. Cardinality(UniqueSections') <= MaxSections
    BY <1>4, <1>12, FittingDemand DEF EnrollmentInv, CapacityHeld
  <1>14. CapacityHeld'
    BY <1>1, <1>10, <1>11, <1>13 DEF EnrollmentInv, CapacityHeld
  <1>15. ActivatedIffConfirmed'
    BY <1>9 DEF EnrollmentInv, ActivatedIffConfirmed, Live
  <1> QED BY <1>1, <1>4, <1>8, <1>14, <1>15, UnlockKeepsInv DEF EnrollmentInv, EnrollmentTypeOK

\* addWatchWithFreshness: one Watch more, in demand only if it was checked to fit.
LEMMA AddKeepsInv ==
    ASSUME EnrollmentInv, NEW c \in Client, AddWatch(c)
    PROVE  EnrollmentInv'
  <1>1. /\ request[c].at = "checked" /\ request[c].op = "add" /\ request[c] \in Request
        /\ Admits(request[c]) /\ RequestSound(request[c])
        /\ Answer(c) /\ watchesLock' = "free" /\ UNCHANGED admission
    BY CommitKnows DEF AddWatch
  <1>2. PICK i \in Id : i = request[c].id
    BY <1>1 DEF RequestSound
  <1>3. PICK t \in Section : request[c].keys = {t}
    BY <1>1 DEF RequestSound
  <1>4. /\ t \notin LiveSections(i) /\ Cardinality(LiveSections(i)) < MaxWatches
        /\ accounts[i].state = "confirmed" => SectionsFit({t})
        /\ UNCHANGED <<accounts, born>>
    BY <1>1, <1>2, <1>3 DEF Admits, AddWatch
  <1>5. PICK now \in {"active", "staged"} :
            /\ now = "active" <=> accounts[i].state = "confirmed"
            /\ watches' = [watches EXCEPT ![i] =
                  [s \in Section |-> IF s \in {t} THEN now ELSE watches[i][s]]]
    BY <1>2, <1>3 DEF AddWatch
  <1>6. [s \in Section |-> IF s \in {t} THEN now ELSE watches[i][s]] \in [Section -> WatchState]
    BY DEF EnrollmentInv, EnrollmentTypeOK, WatchState
  <1>7. watches' \in [Id -> [Section -> WatchState]]
    BY <1>5, <1>6 DEF EnrollmentInv, EnrollmentTypeOK
  <1>8. /\ watches'[i][t] = now
        /\ \A s \in Section \ {t} : watches'[i][s] = watches[i][s]
        /\ \A j \in Id \ {i} : watches'[j] = watches[j]
    BY <1>5 DEF EnrollmentInv, EnrollmentTypeOK
  <1>9. \A j \in Id \ {i} : LiveSections(j)' = LiveSections(j)
    BY <1>8 DEF LiveSections, Live
  <1>10. LiveSections(i)' = LiveSections(i) \cup {t}
    BY <1>8 DEF LiveSections, Live
  <1>11. Cardinality(LiveSections(i)') <= MaxWatches
    <2>1. Cardinality(LiveSections(i) \cup {t}) = Cardinality(LiveSections(i)) + 1
      BY <1>4, CountedSetsFinite, FS_AddElement
    <2>2. Cardinality(LiveSections(i)) \in Nat /\ MaxWatches \in Nat
      BY CountedSetsFinite, FewerCount, EnrollmentAssumption
    <2> QED BY <1>4, <1>10, <2>1, <2>2
  <1>12. Registered' = Registered
    BY <1>4 DEF Registered
  <1>13. Cardinality(UniqueSections') <= MaxSections
    <2>1. CASE accounts[i].state = "confirmed"
      <3>1. UniqueSections' \subseteq UniqueSections \cup {t}
        BY <1>4, <1>8 DEF UniqueSections, InDemand
      <3> QED BY <1>4, <2>1, <3>1, FittingDemand DEF EnrollmentInv, CapacityHeld
    <2>2. CASE accounts[i].state # "confirmed"
      <3>1. UniqueSections' \subseteq UniqueSections
        BY <1>4, <1>8, <2>2 DEF UniqueSections, InDemand
      <3>2. /\ Cardinality(UniqueSections') <= Cardinality(UniqueSections)
            /\ Cardinality(UniqueSections') \in Nat /\ Cardinality(UniqueSections) \in Nat
        BY <3>1, CountedSetsFinite, FewerCount
      <3> QED BY <3>2, EnrollmentAssumption DEF EnrollmentInv, CapacityHeld
    <2> QED BY <2>1, <2>2
  <1>14. CapacityHeld'
    BY <1>1, <1>9, <1>11, <1>12, <1>13 DEF EnrollmentInv, CapacityHeld
  <1>15. ActivatedIffConfirmed'
    BY <1>4, <1>5, <1>8 DEF EnrollmentInv, ActivatedIffConfirmed, Live
  <1> QED BY <1>1, <1>4, <1>7, <1>14, <1>15, UnlockKeepsInv DEF EnrollmentInv, EnrollmentTypeOK

\* Rows that are deleted take their Watches along and exceed nothing.
LEMMA EraseShrinks ==
    ASSUME EnrollmentInv, NEW gone \in SUBSET Id, Erase(gone), UNCHANGED admission
    PROVE  /\ accounts' \in [Id -> Account] /\ watches' \in [Id -> [Section -> WatchState]]
           /\ CapacityHeld' /\ ActivatedIffConfirmed'
  <1>1. NoAccount \in Account /\ [s \in Section |-> "none"] \in [Section -> WatchState]
    BY DEF NoAccount, Account, WatchState
  <1>2. accounts' \in [Id -> Account] /\ watches' \in [Id -> [Section -> WatchState]]
    BY <1>1 DEF Erase, EnrollmentInv, EnrollmentTypeOK
  <1>3. /\ \A i \in gone : accounts'[i] = NoAccount /\ \A s \in Section : watches'[i][s] = "none"
        /\ \A i \in Id \ gone : accounts'[i] = accounts[i] /\ watches'[i] = watches[i]
    BY DEF Erase
  <1>4. \A i \in Id : LiveSections(i)' \subseteq LiveSections(i)
    BY <1>3 DEF LiveSections, Live
  <1>5. Registered' \subseteq Registered /\ UniqueSections' \subseteq UniqueSections
    BY <1>3 DEF Registered, UniqueSections, InDemand, NoAccount
  <1>6. ActivatedIffConfirmed'
    BY <1>3 DEF EnrollmentInv, ActivatedIffConfirmed, Live
  <1> QED BY <1>2, <1>4, <1>5, <1>6, ShrinkKeepsCapacity DEF EnrollmentInv

\* Watches that are removed, retired or swept exceed nothing either.
LEMMA FewerWatchesShrink ==
    ASSUME EnrollmentInv, UNCHANGED <<admission, accounts>>,
           watches' \in [Id -> [Section -> WatchState]],
           \A i \in Id, s \in Section : watches'[i][s] \in {watches[i][s], "none", "retired"}
    PROVE  CapacityHeld' /\ ActivatedIffConfirmed'
  <1>1. \A i \in Id : LiveSections(i)' \subseteq LiveSections(i)
    BY DEF LiveSections, Live
  <1>2. Registered' \subseteq Registered /\ UniqueSections' \subseteq UniqueSections
    BY DEF Registered, UniqueSections, InDemand
  <1>3. ActivatedIffConfirmed'
    BY DEF EnrollmentInv, ActivatedIffConfirmed, Live
  <1> QED BY <1>1, <1>2, <1>3, ShrinkKeepsCapacity DEF EnrollmentInv

\* The transactions of the API.
LEMMA TransactionStepKeepsInv ==
    ASSUME EnrollmentInv, NEW c \in Client, TransactionStep(c)
    PROVE  EnrollmentInv'
  <1>1. CASE Check(c)
    <2>1. Admits(request[c]) \/ Refuse(c)
      BY <1>1 DEF Check
    <2> QED BY <1>1, <2>1, LockAndCheckKeepInv, NothingWrittenKeepsInv
  <1>2. CASE RefuseDuplicateSubscriber(c)
    <2>1. UNCHANGED <<admission, accounts, watches, born>>
      BY <1>2 DEF RefuseDuplicateSubscriber, Commit
    <2> QED BY <1>2, <2>1, CommitKnows, UnlockKeepsInv, TablesUnchanged
        DEF RefuseDuplicateSubscriber, EnrollmentInv, EnrollmentTypeOK
  <1>3. CASE RemoveWatch(c)
    <2>1. /\ request[c].at = "checked" /\ RequestSound(request[c]) /\ request[c].op = "remove"
          /\ Answer(c) /\ watchesLock' = "free" /\ UNCHANGED <<admission, accounts, born>>
      BY <1>3, CommitKnows DEF RemoveWatch
    <2>2. PICK i \in Id : i = request[c].id
      BY <2>1 DEF RequestSound
    <2> DEFINE rest == [s \in Section |-> IF s \in request[c].keys THEN "none" ELSE watches[i][s]]
    <2>3. watches' = [watches EXCEPT ![i] = rest]
      BY <1>3, <2>2 DEF RemoveWatch
    <2>4. rest \in [Section -> WatchState]
      BY DEF EnrollmentInv, EnrollmentTypeOK, WatchState
    <2>5. \A j \in Id, s \in Section : watches'[j][s] \in {watches[j][s], "none", "retired"}
      BY <2>3 DEF EnrollmentInv, EnrollmentTypeOK
    <2>6. watches' \in [Id -> [Section -> WatchState]]
      BY <2>3, <2>4 DEF EnrollmentInv, EnrollmentTypeOK
    <2> HIDE DEF rest
    <2> QED BY <2>1, <2>5, <2>6, FewerWatchesShrink, UnlockKeepsInv
        DEF EnrollmentInv, EnrollmentTypeOK
  <1>4. CASE DeleteSubscriber(c)
    <2>1. /\ request[c].at = "checked" /\ RequestSound(request[c]) /\ request[c].op = "delete"
          /\ Answer(c) /\ watchesLock' = "free" /\ UNCHANGED <<admission, born>>
          /\ Erase({request[c].id})
      BY <1>4, CommitKnows DEF DeleteSubscriber
    <2>2. {request[c].id} \in SUBSET Id
      BY <2>1 DEF RequestSound
    <2> QED BY <2>1, <2>2, EraseShrinks, UnlockKeepsInv DEF EnrollmentInv, EnrollmentTypeOK
  <1> QED BY <1>1, <1>2, <1>3, <1>4, LockAndCheckKeepInv, NothingWrittenKeepsInv, CreateKeepsInv,
             ConfirmKeepsInv, AddKeepsInv DEF TransactionStep

\* The worker's transactions run when no request holds the lock.
LEMMA WorkerTransactionKeepsInv ==
    ASSUME EnrollmentInv,
           \/ \E s \in Section : RetireWatches(s)
           \/ SweepRetention
           \/ \E i \in Id, s \in Section : SweepRetiredWatch(i, s)
    PROVE  EnrollmentInv'
  <1>1. watchesLock = "free" /\ UNCHANGED <<admission, born, request, watchesLock>>
    BY DEF RetireWatches, SweepRetention, SweepRetiredWatch
  <1>2. /\ accounts' \in [Id -> Account] /\ watches' \in [Id -> [Section -> WatchState]]
        /\ CapacityHeld' /\ ActivatedIffConfirmed'
    <2>1. CASE \E s \in Section : RetireWatches(s)
      <3>1. PICK s \in Section, gone \in SUBSET Id :
                watches' = [i \in Id |-> IF i \in gone THEN [watches[i] EXCEPT ![s] = "retired"]
                                         ELSE watches[i]]
        BY <2>1 DEF RetireWatches
      <3>2. /\ watches' \in [Id -> [Section -> WatchState]]
            /\ \A i \in Id, t \in Section : watches'[i][t] \in {watches[i][t], "none", "retired"}
        BY <3>1 DEF EnrollmentInv, EnrollmentTypeOK, WatchState
      <3> QED BY <1>1, <2>1, <3>2, FewerWatchesShrink
          DEF RetireWatches, EnrollmentInv, EnrollmentTypeOK
    <2>2. CASE SweepRetention
      <3>1. PICK gone \in SUBSET Id : Erase(gone)
        BY <2>2 DEF SweepRetention
      <3> QED BY <1>1, <3>1, EraseShrinks
    <2>3. CASE \E i \in Id, s \in Section : SweepRetiredWatch(i, s)
      <3>1. PICK i \in Id, s \in Section : watches' = [watches EXCEPT ![i][s] = "none"]
        BY <2>3 DEF SweepRetiredWatch
      <3>2. /\ watches' \in [Id -> [Section -> WatchState]]
            /\ \A j \in Id, t \in Section : watches'[j][t] \in {watches[j][t], "none", "retired"}
        BY <3>1 DEF EnrollmentInv, EnrollmentTypeOK, WatchState
      <3> QED BY <1>1, <2>3, <3>2, FewerWatchesShrink
          DEF SweepRetiredWatch, EnrollmentInv, EnrollmentTypeOK
    <2> QED BY <2>1, <2>2, <2>3
  <1>3. \A c \in Client : request'[c].at \notin {"locked", "checked"}
    BY <1>1, EnrollmentAssumption DEF EnrollmentInv, LockExclusive
  <1>4. EnrollmentTypeOK' /\ LockExclusive' /\ CheckedAdmits'
    BY <1>1, <1>2, <1>3, EnrollmentAssumption
    DEF EnrollmentInv, EnrollmentTypeOK, LockExclusive, CheckedAdmits
  <1>5. RequestsSound'
    BY <1>1 DEF EnrollmentInv, RequestsSound, RequestSound
  <1> QED BY <1>2, <1>4, <1>5 DEF EnrollmentInv

\* The inductive invariant of the API's transactions.
LEMMA EnrollmentInvariant == EnrollmentSpec => []EnrollmentInv
  <1>1. EnrollmentInit => EnrollmentInv
    <2> SUFFICES ASSUME EnrollmentInit PROVE EnrollmentInv
      OBVIOUS
    <2>1. EnrollmentTypeOK
      BY EnrollmentAssumption
      DEF EnrollmentInit, EnrollmentTypeOK, Account, NoAccount, WatchState, Request, Idle
    <2>2. LockExclusive /\ RequestsSound /\ CheckedAdmits
      BY EnrollmentAssumption
      DEF EnrollmentInit, LockExclusive, RequestsSound, RequestSound, CheckedAdmits, Idle
    <2>3. Registered = {} /\ UniqueSections = {} /\ \A i \in Id : LiveSections(i) = {}
      BY DEF EnrollmentInit, Registered, UniqueSections, InDemand, LiveSections, Live, NoAccount
    <2>4. CapacityHeld
      BY <2>3, FS_EmptySet, EnrollmentAssumption DEF CapacityHeld
    <2>5. ActivatedIffConfirmed
      BY DEF EnrollmentInit, ActivatedIffConfirmed, Live
    <2> QED BY <2>1, <2>2, <2>4, <2>5 DEF EnrollmentInv
  <1>2. EnrollmentInv /\ [EnrollmentNext]_enrollmentVars => EnrollmentInv'
    <2>1. CASE UNCHANGED enrollmentVars
      <3>1. UNCHANGED <<admission, accounts, watches, born, request, watchesLock>>
        BY <2>1 DEF enrollmentVars
      <3>2. EnrollmentInv => EnrollmentTypeOK' /\ LockExclusive'
        BY <3>1 DEF EnrollmentInv, EnrollmentTypeOK, LockExclusive
      <3>3. EnrollmentInv => RequestsSound'
        BY <3>1 DEF EnrollmentInv, RequestsSound, RequestSound
      <3>4. EnrollmentInv => CheckedAdmits'
        <4> SUFFICES ASSUME EnrollmentInv PROVE CheckedAdmits'
          OBVIOUS
        <4>1. \A c \in Client : request'[c].at = "checked" => Admits(request[c])' /\ request'[c] = request[c]
          BY <3>1, TablesUnchanged DEF EnrollmentInv, CheckedAdmits
        <4> QED BY <4>1 DEF CheckedAdmits, Admits
      <3> QED BY <3>1, <3>2, <3>3, <3>4, TablesUnchanged DEF EnrollmentInv
    <2> QED BY <2>1, RouteStepKeepsInv, TransactionStepKeepsInv, WorkerTransactionKeepsInv
        DEF EnrollmentNext
  <1> QED BY <1>1, <1>2, PTL DEF EnrollmentSpec

\* Every variable keeps its type.
THEOREM EnrollmentTypeCorrect == EnrollmentSpec => []EnrollmentTypeOK
  BY EnrollmentInvariant, PTL DEF EnrollmentInv

\* No ceiling is exceeded, however many requests interleave.
THEOREM CapacityIsHeld == EnrollmentSpec => []CapacityHeld
  BY EnrollmentInvariant, PTL DEF EnrollmentInv

\* A live Watch is activated exactly when its Subscriber is Confirmed.
THEOREM ActivationFollowsConfirmation == EnrollmentSpec => []ActivatedIffConfirmed
  BY EnrollmentInvariant, PTL DEF EnrollmentInv
===============================================================================
