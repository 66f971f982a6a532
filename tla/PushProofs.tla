------------------------------- MODULE PushProofs -------------------------------
(***************************************************************************)
(* Proofs about PushSubscriptions, for any Subscribers, browsers and Alert *)
(* jobs, any ceiling and any number of keys and addresses: its types, the  *)
(* ceiling of browsers, that an enabled browser is not pruned, and that a  *)
(* process notifies a browser of one Alert at most once.                   *)
(***************************************************************************)
EXTENDS PushSubscriptions, FiniteSetTheorems, TLAPS

\* A registration past its first statement holds the row of its Subscriber.
RowLocked ==
    \A e \in Endpoint :
        /\ enabling[e].at # "idle" => enabling[e].by \in Holder
        /\ enabling[e].at \in {"locked", "checked"} => holderLock[enabling[e].by] = e

\* A registration that passed the count still has room for its browser.
SlotChecked ==
    \A e \in Endpoint :
        enabling[e].at = "checked" => Cardinality(OwnedBy(enabling[e].by) \ {e}) < MaxPush

CapInv == RowLocked /\ SlotChecked /\ PushCapHeld

\* Every key pair in a row, a request or a delivery was made by the browser.
KeysKnown ==
    \A e \in Endpoint :
        /\ current[e] <= issued[e]
        /\ enabling[e].at # "idle" => enabling[e].key \in 1..issued[e]
        /\ pushRows[e].owner # "none" => pushRows[e].key \in 1..issued[e]
        /\ wanted[e].owner # "none" => wanted[e].key \in 1..issued[e]

\* The same of a delivery, and a key pair the service called gone never returns.
SendsKnown ==
    \A t \in sends :
        /\ t.row.key \in 1..issued[t.endpoint]
        /\ t.at = "gone" => t.row.key # current[t.endpoint]

KeysInv == KeysKnown /\ SendsKnown /\ EnabledBrowserKept

\* A job has one delivery for each browser, which has not notified it yet, and
\* none before its fan-out.
OneDelivery ==
    /\ \A t \in sends : t.job \in pushJobs /\ notified[t.job][t.endpoint] = 0
    /\ \A t, u \in sends : t.job = u.job /\ t.endpoint = u.endpoint => t = u
    /\ \A j \in PushJob \ pushJobs, e \in Endpoint : notified[j][e] = 0

FanoutInv == OneDelivery /\ OneNotificationPerJob
-------------------------------------------------------------------------------
(* Types. *)

\* The record types are closed under the updates the actions make.
LEMMA RecordTypes ==
    /\ NoRegistration \in Registration /\ NotEnabling \in Enabling
    /\ \A r \in Enabling, a \in {"idle", "called", "locked", "checked"} :
           [r EXCEPT !.at = a] \in Enabling
    /\ \A r \in Enabling : [owner |-> r.by, key |-> r.key] \in Registration
  <1>1. 0 \in 0..MaxKeys
    BY PushAssumption
  <1> QED BY <1>1 DEF NoRegistration, Registration, NotEnabling, Enabling

\* The types hold initially.
LEMMA TypeInit == PushInit => PushTypeOK
  <1>1. 0 \in 0..MaxKeys
    BY PushAssumption
  <1> QED BY <1>1, RecordTypes DEF PushInit, PushTypeOK, NoNotification

\* Every step keeps the types.
LEMMA TypeStep == PushTypeOK /\ [PushNext]_pushVars => PushTypeOK'
  <1> SUFFICES ASSUME PushTypeOK, [PushNext]_pushVars PROVE PushTypeOK'
    OBVIOUS
  <1> USE DEF PushTypeOK
  <1>1. CASE UNCHANGED pushVars
    BY <1>1 DEF pushVars
  <1>2. ASSUME NEW e \in Endpoint, SubscribeBrowser(e) PROVE PushTypeOK'
    <2>1. issued[e] + 1 \in 0..MaxKeys
      BY <1>2, PushAssumption DEF SubscribeBrowser
    <2>2. issued' = [issued EXCEPT ![e] = issued[e] + 1] /\ issued'[e] = issued[e] + 1
      BY <1>2 DEF SubscribeBrowser
    <2>3. issued' \in [Endpoint -> 0..MaxKeys] /\ current' \in [Endpoint -> 0..MaxKeys]
      BY <1>2, <2>1, <2>2 DEF SubscribeBrowser
    <2> QED BY <1>2, <2>3 DEF SubscribeBrowser, directoryVars, fanoutVars
  <1>3. ASSUME NEW e \in Endpoint, UnsubscribeBrowser(e) PROVE PushTypeOK'
    <2>1. 0 \in 0..MaxKeys
      BY PushAssumption
    <2> QED BY <1>3, <2>1 DEF UnsubscribeBrowser, directoryVars, fanoutVars
  <1>4. ASSUME NEW e \in Endpoint, NEW h \in Holder, EnablePush(e, h) PROVE PushTypeOK'
    <2>1. [at |-> "called", by |-> h, key |-> current[e]] \in Enabling
      BY DEF Enabling
    <2> QED BY <1>4, <2>1 DEF EnablePush, browserVars, fanoutVars
  <1>5. ASSUME NEW e \in Endpoint, NEW h \in Holder, DisablePush(e, h) PROVE PushTypeOK'
    BY <1>5, RecordTypes DEF DisablePush, browserVars, fanoutVars
  <1>6. ASSUME NEW e \in Endpoint, LockHolder(e) PROVE PushTypeOK'
    <2>1. [enabling[e] EXCEPT !.at = "locked"] \in Enabling /\ NotEnabling \in Enabling
      BY RecordTypes
    <2>2. enabling' \in [Endpoint -> Enabling] /\ holderLock' \in [Holder -> Endpoint \cup {"free"}]
      BY <1>6, <2>1 DEF LockHolder
    <2> QED BY <1>6, <2>2 DEF LockHolder, browserVars, fanoutVars
  <1>7. ASSUME NEW e \in Endpoint, CountPushes(e) PROVE PushTypeOK'
    <2>1. [enabling[e] EXCEPT !.at = "checked"] \in Enabling /\ NotEnabling \in Enabling
      BY RecordTypes
    <2>2. enabling' \in [Endpoint -> Enabling] /\ holderLock' \in [Holder -> Endpoint \cup {"free"}]
      BY <1>7, <2>1 DEF CountPushes
    <2> QED BY <1>7, <2>2 DEF CountPushes, browserVars, fanoutVars
  <1>8. ASSUME NEW e \in Endpoint, UpsertPush(e) PROVE PushTypeOK'
    <2>1. PICK row \in Registration : row = [owner |-> enabling[e].by, key |-> enabling[e].key]
      BY RecordTypes
    <2>2. /\ pushRows' = [pushRows EXCEPT ![e] = row]
          /\ wanted' = [wanted EXCEPT ![e] = row]
          /\ holderLock' = [holderLock EXCEPT ![row.owner] = "free"]
          /\ enabling' = [enabling EXCEPT ![e] = NotEnabling]
      BY <1>8, <2>1 DEF UpsertPush
    <2>3. UNCHANGED <<holders, browserVars, fanoutVars>>
      BY <1>8 DEF UpsertPush
    <2>4. /\ pushRows' \in [Endpoint -> Registration] /\ wanted' \in [Endpoint -> Registration]
          /\ enabling' \in [Endpoint -> Enabling]
          /\ holderLock' \in [Holder -> Endpoint \cup {"free"}]
      BY <2>2, RecordTypes
    <2> QED BY <2>3, <2>4 DEF browserVars, fanoutVars
  <1>9. ASSUME NEW e \in Endpoint, AbortEnable(e) PROVE PushTypeOK'
    BY <1>9, RecordTypes DEF AbortEnable, browserVars, fanoutVars
  <1>10. ASSUME NEW h \in Holder, DeleteHolder(h) PROVE PushTypeOK'
    BY <1>10, RecordTypes DEF DeleteHolder, browserVars, fanoutVars
  <1>11. ASSUME NEW j \in PushJob, NEW h \in Holder, StartPush(j, h) PROVE PushTypeOK'
    <2>1. \A e \in Endpoint : [job |-> j, endpoint |-> e, row |-> pushRows[e], tries |-> 0,
                               at |-> "sending"] \in Target
      BY PushAssumption DEF Target
    <2> QED BY <1>11, <2>1 DEF StartPush, OwnedBy, directoryVars, browserVars
  <1>12. ASSUME NEW t \in sends, AddressFails(t) PROVE PushTypeOK'
    <2>1. t \in Target
      OBVIOUS
    <2>2. t.tries \in Nat /\ MaxAddresses \in Nat
      BY <2>1, PushAssumption DEF Target
    <2>3. t.tries + 1 < MaxAddresses => [t EXCEPT !.tries = t.tries + 1] \in Target
      BY <2>1, <2>2 DEF Target
    <2>4. [t EXCEPT !.tries = t.tries + 1].tries = t.tries + 1
      BY <2>1 DEF Target
    <2> QED BY <1>12, <2>3, <2>4 DEF AddressFails, directoryVars, browserVars
  <1>13. ASSUME NEW t \in sends, ServiceAccepts(t) PROVE PushTypeOK'
    <2>1. t \in Target
      OBVIOUS
    <2>2. t.job \in PushJob /\ t.endpoint \in Endpoint
      BY <2>1 DEF Target
    <2>3. notified' \in [PushJob -> [Endpoint -> Nat]]
      BY <1>13, <2>2 DEF ServiceAccepts
    <2> QED BY <1>13, <2>3 DEF ServiceAccepts, Finish, directoryVars, browserVars
  <1>14. ASSUME NEW t \in sends, ServiceFails(t) PROVE PushTypeOK'
    BY <1>14 DEF ServiceFails, Finish, directoryVars, browserVars
  <1>15. ASSUME NEW t \in sends, ServiceGone(t) PROVE PushTypeOK'
    <2>1. [t EXCEPT !.at = "gone"] \in Target
      BY DEF Target
    <2> QED BY <1>15, <2>1 DEF ServiceGone, directoryVars, browserVars
  <1>16. ASSUME NEW t \in sends, PrunePush(t) PROVE PushTypeOK'
    BY <1>16, RecordTypes DEF PrunePush, Finish, browserVars
  <1>17. CASE RestartDispatcher
    BY <1>17 DEF RestartDispatcher, NoNotification, directoryVars, browserVars
  <1> QED
    BY <1>1, <1>2, <1>3, <1>4, <1>5, <1>6, <1>7, <1>8, <1>9, <1>10, <1>11, <1>12, <1>13,
       <1>14, <1>15, <1>16, <1>17
    DEF PushNext, BrowserStep, UpsertStep, DeliveryStep
-------------------------------------------------------------------------------
(* The ceiling. *)

\* Subsets of Endpoint are finite, and a smaller one has no more members.
LEMMA EndpointSets ==
    ASSUME NEW A \in SUBSET Endpoint, NEW B \in SUBSET A
    PROVE  /\ IsFiniteSet(A) /\ Cardinality(A) \in Nat /\ Cardinality(B) \in Nat
           /\ Cardinality(B) <= Cardinality(A) /\ MaxPush \in Nat
  BY PushAssumption, FS_Subset, FS_CardinalityType

\* With one browser more, a Subscriber that had room is within the ceiling.
LEMMA RoomForOne ==
    ASSUME NEW A \in SUBSET Endpoint, NEW e \in Endpoint, Cardinality(A \ {e}) < MaxPush
    PROVE  Cardinality(A \cup {e}) <= MaxPush
  <1>1. A \cup {e} = (A \ {e}) \cup {e} /\ IsFiniteSet(A \ {e})
    BY EndpointSets
  <1>2. Cardinality(A \cup {e}) = Cardinality(A \ {e}) + 1
    BY <1>1, FS_AddElement
  <1>3. Cardinality(A \ {e}) \in Nat /\ MaxPush \in Nat
    BY EndpointSets
  <1> QED BY <1>2, <1>3

\* Of a set within the ceiling, one member less leaves room.
LEMMA RoomWithoutOne ==
    ASSUME NEW A \in SUBSET Endpoint, NEW e \in Endpoint,
           e \in A, Cardinality(A) <= MaxPush
    PROVE  Cardinality(A \ {e}) < MaxPush
  <1>1. Cardinality(A \ {e}) = Cardinality(A) - 1 /\ Cardinality(A) \in Nat
    BY EndpointSets, FS_RemoveElement
  <1>2. MaxPush \in Nat /\ Cardinality(A) \in Nat
    BY EndpointSets
  <1> QED BY <1>1, <1>2

\* Steps that only take rows away, and touch no registration.
LEMMA FewerRowsKeepCap ==
    ASSUME PushTypeOK, CapInv, UNCHANGED <<enabling, holderLock>>,
           \A e \in Endpoint : pushRows'[e] = pushRows[e] \/ pushRows'[e] = NoRegistration
    PROVE  CapInv'
  <1>1. \A h \in Holder : OwnedBy(h)' \in SUBSET OwnedBy(h) /\ OwnedBy(h) \in SUBSET Endpoint
    BY PushAssumption DEF OwnedBy, NoRegistration
  <1>2. PushCapHeld'
    <2>1. SUFFICES ASSUME NEW h \in Holder PROVE Cardinality(OwnedBy(h)') <= MaxPush
      BY DEF PushCapHeld
    <2>2. Cardinality(OwnedBy(h)) <= MaxPush
      BY DEF CapInv, PushCapHeld
    <2> QED BY <1>1, <2>2, EndpointSets
  <1>3. SlotChecked'
    <2>1. SUFFICES ASSUME NEW e \in Endpoint, enabling[e].at = "checked"
                   PROVE  Cardinality(OwnedBy(enabling[e].by)' \ {e}) < MaxPush
      BY DEF SlotChecked
    <2>2. PICK h \in Holder : h = enabling[e].by
      BY <2>1 DEF CapInv, RowLocked
    <2>3. Cardinality(OwnedBy(h) \ {e}) < MaxPush
      BY <2>1, <2>2 DEF CapInv, SlotChecked
    <2>4. /\ OwnedBy(h)' \ {e} \in SUBSET (OwnedBy(h) \ {e})
          /\ OwnedBy(h) \ {e} \in SUBSET Endpoint
      BY <1>1
    <2>5. Cardinality(OwnedBy(h)' \ {e}) < MaxPush
      BY <2>3, <2>4, EndpointSets
    <2> QED BY <2>2, <2>5
  <1>4. RowLocked'
    BY DEF CapInv, RowLocked
  <1> QED BY <1>2, <1>3, <1>4 DEF CapInv

\* A registration moves on, or is over, without writing a row.
LEMMA RequestKeepsCap ==
    ASSUME PushTypeOK, CapInv, UNCHANGED pushRows, NEW e \in Endpoint,
           \A f \in Endpoint \ {e} : enabling'[f] = enabling[f],
           \A h \in Holder : \/ holderLock'[h] = holderLock[h]
                             \/ holderLock[h] \in {"free", e},
           enabling'[e].at # "idle" => enabling'[e].by \in Holder,
           enabling'[e].at \in {"locked", "checked"} => holderLock'[enabling'[e].by] = e,
           enabling'[e].at = "checked"
              => Cardinality(OwnedBy(enabling'[e].by) \ {e}) < MaxPush
    PROVE  CapInv'
  <1>1. \A h : OwnedBy(h)' = OwnedBy(h)
    BY DEF OwnedBy
  <1>2. PushCapHeld'
    BY <1>1 DEF CapInv, PushCapHeld
  <1>3. SlotChecked'
    BY <1>1 DEF CapInv, SlotChecked
  <1>4. RowLocked'
    <2>1. SUFFICES ASSUME NEW f \in Endpoint
                   PROVE  /\ enabling'[f].at # "idle" => enabling'[f].by \in Holder
                          /\ enabling'[f].at \in {"locked", "checked"}
                                => holderLock'[enabling'[f].by] = f
      BY DEF RowLocked
    <2>2. CASE f = e
      BY <2>2
    <2>3. CASE f # e
      BY <2>3, PushAssumption DEF CapInv, RowLocked
    <2> QED BY <2>2, <2>3
  <1> QED BY <1>2, <1>3, <1>4 DEF CapInv

\* upsertPushSubscription: what was counted still fits, as the row is held.
LEMMA UpsertKeepsCap ==
    ASSUME PushTypeOK, CapInv, NEW e \in Endpoint, UpsertPush(e)
    PROVE  CapInv'
  <1>1. PICK h \in Holder : h = enabling[e].by
    BY DEF UpsertPush, CapInv, RowLocked
  <1>2. /\ enabling[e].at = "checked" /\ enabling' = [enabling EXCEPT ![e] = NotEnabling]
        /\ holderLock' = [holderLock EXCEPT ![h] = "free"]
        /\ pushRows' = [pushRows EXCEPT ![e] = [owner |-> h, key |-> enabling[e].key]]
    BY <1>1 DEF UpsertPush
  <1>3. holderLock[h] = e /\ Cardinality(OwnedBy(h) \ {e}) < MaxPush
    BY <1>1, <1>2 DEF CapInv, RowLocked, SlotChecked
  <1>4. /\ enabling'[e].at = "idle"
        /\ \A f \in Endpoint \ {e} : enabling'[f] = enabling[f]
        /\ \A g \in Holder \ {h} : holderLock'[g] = holderLock[g]
    BY <1>2 DEF PushTypeOK, NotEnabling
  <1>5. /\ pushRows'[e].owner = h
        /\ \A f \in Endpoint \ {e} : pushRows'[f] = pushRows[f]
    BY <1>2 DEF PushTypeOK
  <1>6. /\ OwnedBy(h)' = OwnedBy(h) \cup {e}
        /\ \A g \in Holder \ {h} : OwnedBy(g)' \in SUBSET OwnedBy(g)
        /\ \A g \in Holder : OwnedBy(g) \in SUBSET Endpoint
    BY <1>5 DEF OwnedBy
  <1>7. PushCapHeld'
    <2>1. SUFFICES ASSUME NEW g \in Holder PROVE Cardinality(OwnedBy(g)') <= MaxPush
      BY DEF PushCapHeld
    <2>2. CASE g = h
      BY <1>3, <1>6, <2>2, RoomForOne
    <2>3. CASE g # h
      <3>1. Cardinality(OwnedBy(g)) <= MaxPush
        BY DEF CapInv, PushCapHeld
      <3> QED BY <1>6, <2>3, <3>1, EndpointSets
    <2> QED BY <2>2, <2>3
  <1>8. \A f \in Endpoint \ {e} : enabling[f].at \in {"locked", "checked"}
                                     => enabling[f].by \in Holder \ {h}
    BY <1>3 DEF CapInv, RowLocked
  <1>9. SlotChecked'
    <2>1. SUFFICES ASSUME NEW f \in Endpoint, enabling'[f].at = "checked"
                   PROVE  (Cardinality(OwnedBy(enabling[f].by) \ {f}) < MaxPush)'
      BY DEF SlotChecked
    <2>2. f # e /\ enabling'[f] = enabling[f]
      BY <1>4, <2>1
    <2>3. PICK g \in Holder \ {h} : g = enabling[f].by
      BY <1>8, <2>1, <2>2
    <2>4. Cardinality(OwnedBy(g) \ {f}) < MaxPush
      BY <2>1, <2>2, <2>3 DEF CapInv, SlotChecked
    <2>5. /\ OwnedBy(g)' \ {f} \in SUBSET (OwnedBy(g) \ {f})
          /\ OwnedBy(g) \ {f} \in SUBSET Endpoint
      BY <1>6
    <2>6. Cardinality(OwnedBy(g)' \ {f}) < MaxPush
      BY <2>4, <2>5, EndpointSets
    <2> QED BY <2>2, <2>3, <2>6 DEF OwnedBy
  <1>10. RowLocked'
    <2>1. SUFFICES ASSUME NEW f \in Endpoint
                   PROVE  /\ enabling'[f].at # "idle" => enabling'[f].by \in Holder
                          /\ enabling'[f].at \in {"locked", "checked"}
                                => holderLock'[enabling'[f].by] = f
      BY DEF RowLocked
    <2>2. CASE f = e
      BY <1>4, <2>2
    <2>3. CASE f # e
      BY <1>4, <1>8, <2>3 DEF CapInv, RowLocked
    <2> QED BY <2>2, <2>3
  <1> QED BY <1>7, <1>9, <1>10 DEF CapInv

\* Every step keeps the ceiling and why it is kept.
LEMMA CapStep == PushTypeOK /\ CapInv /\ [PushNext]_pushVars => CapInv'
  <1> SUFFICES ASSUME PushTypeOK, CapInv, [PushNext]_pushVars PROVE CapInv'
    OBVIOUS
  <1>1. CASE UNCHANGED <<pushRows, enabling, holderLock>>
    BY <1>1, FewerRowsKeepCap
  <1>2. ASSUME NEW e \in Endpoint, NEW h \in Holder, EnablePush(e, h) PROVE CapInv'
    <2>1. /\ enabling'[e].at = "called" /\ enabling'[e].by = h
          /\ \A f \in Endpoint \ {e} : enabling'[f] = enabling[f]
          /\ UNCHANGED <<pushRows, holderLock>>
      BY <1>2 DEF EnablePush, PushTypeOK
    <2> QED BY <2>1, RequestKeepsCap
  <1>3. ASSUME NEW e \in Endpoint, NEW h \in Holder, DisablePush(e, h) PROVE CapInv'
    <2>1. /\ UNCHANGED <<enabling, holderLock>>
          /\ \A f \in Endpoint : pushRows'[f] = pushRows[f] \/ pushRows'[f] = NoRegistration
      BY <1>3 DEF DisablePush, PushTypeOK
    <2> QED BY <2>1, FewerRowsKeepCap
  <1>4. ASSUME NEW e \in Endpoint, LockHolder(e) PROVE CapInv'
    <2>1. PICK h \in Holder : h = enabling[e].by
      BY <1>4 DEF LockHolder, CapInv, RowLocked
    <2>2. /\ holderLock[h] = "free" /\ UNCHANGED pushRows
          /\ \/ /\ holderLock' = [holderLock EXCEPT ![h] = e]
                /\ enabling' = [enabling EXCEPT ![e].at = "locked"]
             \/ enabling' = [enabling EXCEPT ![e] = NotEnabling] /\ UNCHANGED holderLock
      BY <1>4, <2>1 DEF LockHolder
    <2>3. /\ \A f \in Endpoint \ {e} : enabling'[f] = enabling[f]
          /\ \A g \in Holder : holderLock'[g] = holderLock[g] \/ holderLock[g] \in {"free", e}
          /\ \/ enabling'[e].at = "locked" /\ enabling'[e].by = h /\ holderLock'[h] = e
             \/ enabling'[e].at = "idle"
      BY <2>1, <2>2 DEF PushTypeOK, Enabling, NotEnabling
    <2> QED BY <2>2, <2>3, RequestKeepsCap
  <1>5. ASSUME NEW e \in Endpoint, CountPushes(e) PROVE CapInv'
    <2>1. PICK h \in Holder : h = enabling[e].by
      BY <1>5 DEF CountPushes, CapInv, RowLocked
    <2>2. enabling[e].at = "locked" /\ holderLock[h] = e /\ UNCHANGED pushRows
      BY <1>5, <2>1 DEF CountPushes, CapInv, RowLocked
    <2>3. CASE pushRows[e].owner = h \/ Cardinality(OwnedBy(h)) < MaxPush
      <3>1. /\ \A f \in Endpoint \ {e} : enabling'[f] = enabling[f]
            /\ enabling'[e].at = "checked" /\ enabling'[e].by = h
            /\ UNCHANGED holderLock
        BY <1>5, <2>1, <2>3 DEF CountPushes, PushTypeOK, Enabling
      <3>2. Cardinality(OwnedBy(h) \ {e}) < MaxPush
        <4>1. CASE pushRows[e].owner = h
          <5>1. e \in OwnedBy(h) /\ OwnedBy(h) \in SUBSET Endpoint
            BY <4>1 DEF OwnedBy
          <5>2. Cardinality(OwnedBy(h)) <= MaxPush
            BY DEF CapInv, PushCapHeld
          <5> QED BY <5>1, <5>2, RoomWithoutOne
        <4>2. CASE Cardinality(OwnedBy(h)) < MaxPush
          <5>1. OwnedBy(h) \in SUBSET Endpoint /\ OwnedBy(h) \ {e} \in SUBSET OwnedBy(h)
            BY DEF OwnedBy
          <5> QED BY <4>2, <5>1, EndpointSets
        <4> QED BY <2>3, <4>1, <4>2
      <3> QED BY <2>1, <2>2, <3>1, <3>2, RequestKeepsCap
    <2>4. CASE ~(pushRows[e].owner = h \/ Cardinality(OwnedBy(h)) < MaxPush)
      <3>1. /\ enabling' = [enabling EXCEPT ![e] = NotEnabling]
            /\ holderLock' = [holderLock EXCEPT ![h] = "free"]
        BY <1>5, <2>1, <2>4 DEF CountPushes
      <3>2. /\ \A f \in Endpoint \ {e} : enabling'[f] = enabling[f]
            /\ enabling'[e].at = "idle"
            /\ \A g \in Holder : holderLock'[g] = holderLock[g] \/ holderLock[g] \in {"free", e}
        BY <2>2, <3>1 DEF PushTypeOK, NotEnabling
      <3> QED BY <2>2, <3>2, RequestKeepsCap
    <2> QED BY <2>3, <2>4
  <1>6. ASSUME NEW e \in Endpoint, AbortEnable(e) PROVE CapInv'
    <2>1. /\ \A f \in Endpoint \ {e} : enabling'[f] = enabling[f]
          /\ enabling'[e].at = "idle"
          /\ \A g \in Holder : holderLock'[g] = holderLock[g] \/ holderLock[g] \in {"free", e}
          /\ UNCHANGED pushRows
      BY <1>6 DEF AbortEnable, PushTypeOK, NotEnabling
    <2> QED BY <2>1, RequestKeepsCap
  <1>7. ASSUME NEW h \in Holder, DeleteHolder(h) PROVE CapInv'
    <2>1. /\ UNCHANGED <<enabling, holderLock>>
          /\ \A f \in Endpoint : pushRows'[f] = pushRows[f] \/ pushRows'[f] = NoRegistration
      BY <1>7 DEF DeleteHolder, PushTypeOK
    <2> QED BY <2>1, FewerRowsKeepCap
  <1>8. ASSUME NEW t \in sends, PrunePush(t) PROVE CapInv'
    <2>1. /\ UNCHANGED <<enabling, holderLock>>
          /\ \A f \in Endpoint : pushRows'[f] = pushRows[f] \/ pushRows'[f] = NoRegistration
      BY <1>8 DEF PrunePush, PushTypeOK
    <2> QED BY <2>1, FewerRowsKeepCap
  <1> QED
    BY <1>1, <1>2, <1>3, <1>4, <1>5, <1>6, <1>7, <1>8, UpsertKeepsCap
    DEF PushNext, BrowserStep, UpsertStep, DeliveryStep, pushVars, directoryVars,
        SubscribeBrowser, UnsubscribeBrowser, StartPush, AddressFails, ServiceAccepts,
        ServiceFails, ServiceGone, RestartDispatcher
-------------------------------------------------------------------------------
(* Enabled browsers. *)

\* Steps that touch no browser: every row, request and registration that is new
\* carries a key pair already made, and a registration lost or replaced is one
\* the service no longer accepts, or the row follows it.
LEMMA RowsKeepKeys ==
    ASSUME PushTypeOK, KeysInv, UNCHANGED <<browserVars, sends>>,
           \A e \in Endpoint :
               /\ enabling'[e].at # "idle" => enabling'[e].key \in 1..issued[e]
               /\ pushRows'[e].owner # "none" => pushRows'[e].key \in 1..issued[e]
               /\ wanted'[e].owner # "none" => wanted'[e].key \in 1..issued[e]
               /\ wanted'[e].owner # "none" /\ wanted'[e].key = current[e]
                     => pushRows'[e] = wanted'[e]
    PROVE  KeysInv'
  <1>1. UNCHANGED <<issued, current, sends>>
    BY DEF browserVars
  <1> QED BY <1>1 DEF KeysInv, KeysKnown, SendsKnown, EnabledBrowserKept

\* Deliveries that end, or carry on with the snapshot they started from.
LEMMA SendsKeepKeys ==
    ASSUME PushTypeOK, KeysInv, UNCHANGED <<directoryVars, browserVars>>,
           \A t \in sends' : /\ t.row.key \in 1..issued[t.endpoint]
                             /\ t.at = "gone" => t.row.key # current[t.endpoint]
    PROVE  KeysInv'
  <1>1. UNCHANGED <<issued, current, enabling, pushRows, wanted>>
    BY DEF browserVars, directoryVars
  <1> QED BY <1>1 DEF KeysInv, KeysKnown, SendsKnown, EnabledBrowserKept

\* A new subscription has a key pair that nothing carries yet.
LEMMA SubscribeKeepsKeys ==
    ASSUME PushTypeOK, KeysInv, NEW e \in Endpoint, SubscribeBrowser(e)
    PROVE  KeysInv'
  <1>1. PICK k \in Nat : k = issued[e]
    BY DEF PushTypeOK
  <1>2. issued' = [issued EXCEPT ![e] = k + 1] /\ current' = [current EXCEPT ![e] = issued'[e]]
    BY <1>1 DEF SubscribeBrowser
  <1>3. /\ issued'[e] = k + 1 /\ current'[e] = k + 1
        /\ \A f \in Endpoint \ {e} : issued'[f] = issued[f] /\ current'[f] = current[f]
        /\ UNCHANGED <<enabling, pushRows, wanted, sends>>
    BY <1>2 DEF PushTypeOK, SubscribeBrowser, directoryVars, fanoutVars
  <1>4. \A n \in Int : n \in 1..k => n \in 1..(k + 1) /\ n # k + 1
    OBVIOUS
  <1>5. \A f \in Endpoint, n \in Int : n \in 1..issued[f] => n \in 1..issued'[f]
    BY <1>1, <1>3, <1>4
  <1>6. \A f \in Endpoint : /\ enabling[f].key \in Int /\ pushRows[f].key \in Int
                            /\ wanted[f].key \in Int
    BY DEF PushTypeOK, Enabling, Registration
  <1>7. \A t \in sends : t.endpoint \in Endpoint /\ t.row.key \in Int
    BY DEF PushTypeOK, Target, Registration
  <1>8. KeysKnown'
    <2>1. \A f \in Endpoint : current'[f] <= issued'[f]
      BY <1>1, <1>3 DEF KeysInv, KeysKnown
    <2> QED BY <1>3, <1>5, <1>6, <2>1 DEF KeysInv, KeysKnown
  <1>9. SendsKnown'
    <2>1. SUFFICES ASSUME NEW t \in sends
                   PROVE  /\ t.row.key \in 1..issued'[t.endpoint]
                          /\ t.at = "gone" => t.row.key # current'[t.endpoint]
      BY <1>3 DEF SendsKnown
    <2>2. CASE t.endpoint = e
      BY <1>1, <1>3, <1>4, <1>7, <2>2 DEF KeysInv, SendsKnown
    <2>3. CASE t.endpoint # e
      BY <1>3, <1>7, <2>3 DEF KeysInv, SendsKnown
    <2> QED BY <2>2, <2>3
  <1>10. EnabledBrowserKept'
    <2>1. SUFFICES ASSUME NEW f \in Endpoint, wanted[f].owner # "none",
                          wanted[f].key = current'[f]
                   PROVE  pushRows[f] = wanted[f]
      BY <1>3 DEF EnabledBrowserKept
    <2>2. f # e
      BY <1>1, <1>3, <1>4, <1>6, <2>1 DEF KeysInv, KeysKnown
    <2> QED BY <1>3, <2>1, <2>2 DEF KeysInv, EnabledBrowserKept
  <1> QED BY <1>8, <1>9, <1>10 DEF KeysInv

\* After it is dropped, the service accepts no key pair, and 0 is none.
LEMMA UnsubscribeKeepsKeys ==
    ASSUME PushTypeOK, KeysInv, NEW e \in Endpoint, UnsubscribeBrowser(e)
    PROVE  KeysInv'
  <1>1. /\ current'[e] = 0 /\ \A f \in Endpoint \ {e} : current'[f] = current[f]
        /\ UNCHANGED <<issued, enabling, pushRows, wanted, sends>>
    BY DEF UnsubscribeBrowser, PushTypeOK, directoryVars, fanoutVars
  <1>2. \A f \in Endpoint : issued[f] \in Nat /\ 0 \notin 1..issued[f]
    BY DEF PushTypeOK
  <1>3. KeysKnown'
    BY <1>1, <1>2 DEF KeysInv, KeysKnown
  <1>4. SendsKnown'
    <2>1. \A t \in sends : t.endpoint \in Endpoint
      BY DEF PushTypeOK, Target
    <2> QED BY <1>1, <1>2, <2>1 DEF KeysInv, SendsKnown
  <1>5. EnabledBrowserKept'
    BY <1>1, <1>2 DEF KeysInv, KeysKnown, EnabledBrowserKept
  <1> QED BY <1>3, <1>4, <1>5 DEF KeysInv

\* Every step keeps the keys known and enabled browsers registered.
LEMMA KeysStep == PushTypeOK /\ CapInv /\ KeysInv /\ [PushNext]_pushVars => KeysInv'
  <1> SUFFICES ASSUME PushTypeOK, CapInv, KeysInv, [PushNext]_pushVars PROVE KeysInv'
    OBVIOUS
  <1>1. CASE UNCHANGED <<enabling, pushRows, wanted, browserVars, sends>>
    BY <1>1, RowsKeepKeys DEF KeysInv, KeysKnown, EnabledBrowserKept
  <1>2. ASSUME NEW e \in Endpoint, NEW h \in Holder, EnablePush(e, h) PROVE KeysInv'
    <2>1. /\ enabling'[e].key = current[e] /\ current[e] # 0
          /\ \A f \in Endpoint \ {e} : enabling'[f] = enabling[f]
          /\ UNCHANGED <<pushRows, wanted, browserVars, sends>>
      BY <1>2 DEF EnablePush, PushTypeOK, fanoutVars
    <2>2. current[e] \in 1..issued[e]
      BY <2>1 DEF KeysInv, KeysKnown, PushTypeOK
    <2> QED BY <2>1, <2>2, RowsKeepKeys DEF KeysInv, KeysKnown, EnabledBrowserKept
  <1>3. ASSUME NEW e \in Endpoint, NEW h \in Holder, DisablePush(e, h) PROVE KeysInv'
    <2>1. /\ pushRows'[e] = NoRegistration /\ wanted'[e] = NoRegistration
          /\ \A f \in Endpoint \ {e} : pushRows'[f] = pushRows[f] /\ wanted'[f] = wanted[f]
          /\ UNCHANGED <<enabling, browserVars, sends>>
      BY <1>3 DEF DisablePush, PushTypeOK, fanoutVars
    <2> QED BY <2>1, RowsKeepKeys
        DEF KeysInv, KeysKnown, EnabledBrowserKept, NoRegistration
  <1>4. ASSUME NEW e \in Endpoint,
               LockHolder(e) \/ CountPushes(e) \/ AbortEnable(e)
        PROVE  KeysInv'
    <2>1. /\ \A f \in Endpoint \ {e} : enabling'[f] = enabling[f]
          /\ enabling'[e].at = "idle" \/ (enabling[e].at # "idle" /\ enabling'[e].key = enabling[e].key)
          /\ UNCHANGED <<pushRows, wanted, browserVars, sends>>
      BY <1>4 DEF LockHolder, CountPushes, AbortEnable, PushTypeOK, Enabling, NotEnabling,
                  fanoutVars
    <2> QED BY <2>1, RowsKeepKeys DEF KeysInv, KeysKnown, EnabledBrowserKept
  <1>5. ASSUME NEW e \in Endpoint, UpsertPush(e) PROVE KeysInv'
    <2>1. PICK row \in Registration : row = [owner |-> enabling[e].by, key |-> enabling[e].key]
      BY RecordTypes DEF PushTypeOK
    <2>2. /\ pushRows' = [pushRows EXCEPT ![e] = row] /\ wanted' = [wanted EXCEPT ![e] = row]
          /\ enabling' = [enabling EXCEPT ![e] = NotEnabling]
          /\ UNCHANGED <<browserVars, sends>>
      BY <1>5, <2>1 DEF UpsertPush, fanoutVars
    <2>3. /\ pushRows'[e] = row /\ wanted'[e] = row /\ enabling'[e].at = "idle"
          /\ \A f \in Endpoint \ {e} : /\ pushRows'[f] = pushRows[f] /\ wanted'[f] = wanted[f]
                                       /\ enabling'[f] = enabling[f]
      BY <2>2 DEF PushTypeOK, NotEnabling
    <2>4. row.key \in 1..issued[e]
      BY <1>5, <2>1 DEF UpsertPush, KeysInv, KeysKnown
    <2> QED BY <2>2, <2>3, <2>4, RowsKeepKeys DEF KeysInv, KeysKnown, EnabledBrowserKept
  <1>6. ASSUME NEW h \in Holder, DeleteHolder(h) PROVE KeysInv'
    <2>1. /\ \A f \in Endpoint :
                 /\ pushRows'[f] = IF pushRows[f].owner = h THEN NoRegistration ELSE pushRows[f]
                 /\ wanted'[f] = IF wanted[f].owner = h THEN NoRegistration ELSE wanted[f]
          /\ UNCHANGED <<enabling, browserVars, sends>>
      BY <1>6 DEF DeleteHolder, PushTypeOK, fanoutVars
    <2> QED BY <2>1, RowsKeepKeys
        DEF KeysInv, KeysKnown, EnabledBrowserKept, NoRegistration
  <1>7. ASSUME NEW j \in PushJob, NEW h \in Holder, StartPush(j, h) PROVE KeysInv'
    <2>1. \A e \in OwnedBy(h) : e \in Endpoint /\ pushRows[e].key \in 1..issued[e]
      BY PushAssumption DEF OwnedBy, KeysInv, KeysKnown
    <2>2. \A t \in sends' : /\ t.row.key \in 1..issued[t.endpoint]
                            /\ t.at = "gone" => t.row.key # current[t.endpoint]
      BY <1>7, <2>1 DEF StartPush, KeysInv, SendsKnown
    <2> QED BY <1>7, <2>2, SendsKeepKeys DEF StartPush
  <1>8. ASSUME NEW t \in sends, AddressFails(t) PROVE KeysInv'
    <2>1. \A u : u = [t EXCEPT !.tries = @ + 1]
                   => u.row = t.row /\ u.endpoint = t.endpoint /\ u.at = t.at
      BY DEF PushTypeOK, Target
    <2>2. \A u \in sends' : /\ u.row.key \in 1..issued[u.endpoint]
                            /\ u.at = "gone" => u.row.key # current[u.endpoint]
      BY <1>8, <2>1 DEF AddressFails, KeysInv, SendsKnown
    <2> QED BY <1>8, <2>2, SendsKeepKeys DEF AddressFails
  <1>9. ASSUME NEW t \in sends, ServiceGone(t) PROVE KeysInv'
    <2>1. \A u : u = [t EXCEPT !.at = "gone"] => u.row = t.row /\ u.endpoint = t.endpoint
      BY DEF PushTypeOK, Target
    <2>2. \A u \in sends' : /\ u.row.key \in 1..issued[u.endpoint]
                            /\ u.at = "gone" => u.row.key # current[u.endpoint]
      BY <1>9, <2>1 DEF ServiceGone, KeysInv, SendsKnown
    <2> QED BY <1>9, <2>2, SendsKeepKeys DEF ServiceGone
  <1>10. ASSUME NEW t \in sends, ServiceAccepts(t) \/ ServiceFails(t) PROVE KeysInv'
    <2>1. \A u \in sends' : /\ u.row.key \in 1..issued[u.endpoint]
                            /\ u.at = "gone" => u.row.key # current[u.endpoint]
      BY <1>10 DEF ServiceAccepts, ServiceFails, Finish, KeysInv, SendsKnown
    <2> QED BY <1>10, <2>1, SendsKeepKeys DEF ServiceAccepts, ServiceFails
  <1>11. ASSUME NEW t \in sends, PrunePush(t) PROVE KeysInv'
    <2>1. /\ \A f \in Endpoint :
                 pushRows'[f] = IF f = t.endpoint /\ pushRows[f] = t.row THEN NoRegistration
                                ELSE pushRows[f]
          /\ sends' = sends \ {t} /\ UNCHANGED <<enabling, wanted, issued, current>>
      BY <1>11 DEF PrunePush, Finish, PushTypeOK, browserVars
    <2>2. t.row.key # current[t.endpoint]
      BY <1>11 DEF PrunePush, KeysInv, SendsKnown
    <2>3. KeysKnown' /\ SendsKnown'
      BY <2>1 DEF KeysInv, KeysKnown, SendsKnown, NoRegistration
    <2>4. EnabledBrowserKept'
      BY <2>1, <2>2 DEF KeysInv, EnabledBrowserKept
    <2> QED BY <2>3, <2>4 DEF KeysInv
  <1>12. CASE RestartDispatcher
    BY <1>12, SendsKeepKeys DEF RestartDispatcher
  <1> QED
    BY <1>1, <1>2, <1>3, <1>4, <1>5, <1>6, <1>7, <1>8, <1>9, <1>10, <1>11, <1>12,
       SubscribeKeepsKeys, UnsubscribeKeepsKeys
    DEF PushNext, BrowserStep, UpsertStep, DeliveryStep, pushVars, browserVars
-------------------------------------------------------------------------------
(* One notification. *)

\* Deliveries end one by one, or carry on in one successor each.
LEMMA DeliveryKeepsFanout ==
    ASSUME PushTypeOK, FanoutInv, UNCHANGED <<pushJobs, notified>>, NEW t \in sends,
           NEW u, u.job = t.job, u.endpoint = t.endpoint,
           sends' \subseteq (sends \ {t}) \cup {u}
    PROVE  FanoutInv'
  BY DEF FanoutInv, OneDelivery, OneNotificationPerJob

\* Every step keeps one delivery for each job and browser.
LEMMA FanoutStep == PushTypeOK /\ FanoutInv /\ [PushNext]_pushVars => FanoutInv'
  <1> SUFFICES ASSUME PushTypeOK, FanoutInv, [PushNext]_pushVars PROVE FanoutInv'
    OBVIOUS
  <1>1. CASE UNCHANGED fanoutVars
    BY <1>1 DEF fanoutVars, FanoutInv, OneDelivery, OneNotificationPerJob
  <1>2. ASSUME NEW j \in PushJob, NEW h \in Holder, StartPush(j, h) PROVE FanoutInv'
    <2>1. \A t \in sends : t.job # j
      BY <1>2 DEF StartPush, FanoutInv, OneDelivery
    <2>2. /\ \A t \in sends' \ sends : t.job = j /\ t.endpoint \in Endpoint
          /\ \A t, u \in sends' \ sends : t.endpoint = u.endpoint => t = u
          /\ sends \subseteq sends' /\ pushJobs' = pushJobs \cup {j} /\ notified' = notified
      BY <1>2 DEF StartPush, OwnedBy
    <2>3. \A e \in Endpoint : notified[j][e] = 0
      BY <1>2 DEF StartPush, FanoutInv, OneDelivery
    <2> QED BY <2>1, <2>2, <2>3 DEF FanoutInv, OneDelivery, OneNotificationPerJob
  <1>3. ASSUME NEW t \in sends, AddressFails(t) PROVE FanoutInv'
    <2>1. PICK u : u = [t EXCEPT !.tries = @ + 1]
      OBVIOUS
    <2>2. u.job = t.job /\ u.endpoint = t.endpoint
      BY <2>1 DEF PushTypeOK, Target
    <2>3. sends' \subseteq (sends \ {t}) \cup {u} /\ UNCHANGED <<pushJobs, notified>>
      BY <1>3, <2>1 DEF AddressFails
    <2> QED BY <2>2, <2>3, DeliveryKeepsFanout
  <1>4. ASSUME NEW t \in sends, ServiceGone(t) PROVE FanoutInv'
    <2>1. PICK u : u = [t EXCEPT !.at = "gone"]
      OBVIOUS
    <2>2. u.job = t.job /\ u.endpoint = t.endpoint
      BY <2>1 DEF PushTypeOK, Target
    <2>3. sends' \subseteq (sends \ {t}) \cup {u} /\ UNCHANGED <<pushJobs, notified>>
      BY <1>4, <2>1 DEF ServiceGone
    <2> QED BY <2>2, <2>3, DeliveryKeepsFanout
  <1>5. ASSUME NEW t \in sends, ServiceFails(t) \/ PrunePush(t) PROVE FanoutInv'
    BY <1>5, DeliveryKeepsFanout DEF ServiceFails, PrunePush, Finish
  <1>6. ASSUME NEW t \in sends, ServiceAccepts(t) PROVE FanoutInv'
    <2>1. PICK j \in PushJob, e \in Endpoint : j = t.job /\ e = t.endpoint
      BY DEF PushTypeOK, Target
    <2>2. notified' = [notified EXCEPT ![j][e] = notified[j][e] + 1]
          /\ sends' = sends \ {t} /\ UNCHANGED pushJobs
      BY <1>6, <2>1 DEF ServiceAccepts, Finish
    <2>3. notified[j][e] = 0 /\ j \in pushJobs
      BY <2>1 DEF FanoutInv, OneDelivery
    <2>4. /\ notified'[j][e] = 1
          /\ \A i \in PushJob, f \in Endpoint :
                 <<i, f>> # <<j, e>> => notified'[i][f] = notified[i][f]
      BY <2>2, <2>3 DEF PushTypeOK
    <2>5. \A u \in sends' : u \in sends /\ <<u.job, u.endpoint>> # <<j, e>>
                            /\ u.job \in PushJob /\ u.endpoint \in Endpoint
      BY <2>1, <2>2 DEF FanoutInv, OneDelivery, PushTypeOK, Target
    <2>6. OneDelivery'
      BY <2>2, <2>3, <2>4, <2>5 DEF FanoutInv, OneDelivery
    <2>7. OneNotificationPerJob'
      BY <2>4 DEF FanoutInv, OneNotificationPerJob
    <2> QED BY <2>6, <2>7 DEF FanoutInv
  <1>7. CASE RestartDispatcher
    BY <1>7 DEF RestartDispatcher, NoNotification, FanoutInv, OneDelivery, OneNotificationPerJob
  <1> QED
    BY <1>1, <1>2, <1>3, <1>4, <1>5, <1>6, <1>7
    DEF PushNext, BrowserStep, UpsertStep, DeliveryStep, pushVars, fanoutVars,
        SubscribeBrowser, UnsubscribeBrowser, EnablePush, DisablePush, LockHolder,
        CountPushes, UpsertPush, AbortEnable, DeleteHolder
-------------------------------------------------------------------------------
(* The theorems. *)

\* The invariants hold initially.
LEMMA PushStart == PushInit => CapInv /\ KeysInv /\ FanoutInv
  <1> SUFFICES ASSUME PushInit PROVE CapInv /\ KeysInv /\ FanoutInv
    OBVIOUS
  <1>1. CapInv
    <2>1. \A h \in Holder : OwnedBy(h) = {}
      BY PushAssumption DEF PushInit, OwnedBy, NoRegistration
    <2>2. Cardinality({}) = 0 /\ MaxPush \in Nat
      BY FS_EmptySet, PushAssumption
    <2>3. PushCapHeld
      BY <2>1, <2>2 DEF PushCapHeld
    <2> QED BY <2>3 DEF PushInit, NotEnabling, CapInv, RowLocked, SlotChecked
  <1>2. KeysInv
    BY DEF PushInit, NotEnabling, NoRegistration, KeysInv, KeysKnown, SendsKnown,
           EnabledBrowserKept
  <1>3. FanoutInv
    BY DEF PushInit, NoNotification, FanoutInv, OneDelivery, OneNotificationPerJob
  <1> QED BY <1>1, <1>2, <1>3

\* The inductive invariant of browser push.
LEMMA PushInvariant == PushSpec => [](PushTypeOK /\ CapInv /\ KeysInv /\ FanoutInv)
  <1>1. PushInit => PushTypeOK /\ CapInv /\ KeysInv /\ FanoutInv
    BY TypeInit, PushStart
  <1>2. PushTypeOK /\ CapInv /\ KeysInv /\ FanoutInv /\ [PushNext]_pushVars
          => (PushTypeOK /\ CapInv /\ KeysInv /\ FanoutInv)'
    BY TypeStep, CapStep, KeysStep, FanoutStep
  <1> QED BY <1>1, <1>2, PTL DEF PushSpec

\* Every variable of browser push keeps its type.
THEOREM PushTypeCorrect == PushSpec => []PushTypeOK
  BY PushInvariant, PTL

\* Concurrent registrations never exceed the browsers a Subscriber may have:
\* what CountPushes counted still holds when UpsertPush inserts.
THEOREM PushCapIsHeld == PushSpec => []PushCapHeld
  <1>1. CapInv => PushCapHeld
    BY DEF CapInv
  <1> QED BY <1>1, PushInvariant, PTL

\* PrunePush, however late, never removes a registration the service accepts.
THEOREM EnabledBrowsersAreKept == PushSpec => []EnabledBrowserKept
  <1>1. KeysInv => EnabledBrowserKept
    BY DEF KeysInv
  <1> QED BY <1>1, PushInvariant, PTL

\* A process notifies a browser of one Alert at most once.
THEOREM NotificationsAreSingle == PushSpec => []OneNotificationPerJob
  <1>1. FanoutInv => OneNotificationPerJob
    BY DEF FanoutInv
  <1> QED BY <1>1, PushInvariant, PTL
===============================================================================
