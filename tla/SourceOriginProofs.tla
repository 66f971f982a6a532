--------------------------- MODULE SourceOriginProofs ---------------------------
(***************************************************************************)
(* Proofs about SourceOrigin, for any number of workers, faults and deaths *)
(* and any spacing: its types, its inductive invariant OriginInv, and from *)
(* them one owner of the fence, spaced requests, the cooldown, the safety  *)
(* stop and the permit.                                                    *)
(*                                                                         *)
(* A worker inside a turn is alone (Alone1), so that a step inside a turn  *)
(* only has to be looked at for that worker's permit and for the cooldown  *)
(* (InsideStep).                                                           *)
(***************************************************************************)
EXTENDS SourceOrigin, TLAPS

\* The larger of two numbers is a number, no smaller than either.
LEMMA LargerType ==
    ASSUME NEW a \in Nat, NEW b \in Nat
    PROVE  /\ Larger(a, b) \in Nat
           /\ a <= Larger(a, b) /\ b <= Larger(a, b)
           /\ Larger(a, b) \in {a, b}
  BY DEF Larger

\* Records of the right shape: what a permit, a deferral and a reset write.
LEMMA StateTypes ==
    ASSUME TypeOK
    PROVE  /\ \A at \in Nat : Permit(at) \in OriginState
           /\ ClearedState \in OriginState
           /\ \A w \in Worker : ReservedStart(w) \in Nat /\ Until(w) \in Nat
           /\ \A w \in Worker : Deferred(w) \in OriginState /\ NewMarker(w) \in Marker
           /\ \A n \in Nat : Promise(n) \in Origin
  <1>1. \A at \in Nat : Permit(at) \in OriginState
    BY DEF Permit, OriginState
  <1>2. ClearedState \in OriginState
    BY DEF ClearedState, TypeOK, OriginState, Larger
  <1>3. \A w \in Worker : ReservedStart(w) \in Nat /\ Until(w) \in Nat
    BY OriginAssumption DEF ReservedStart, Until, TypeOK, Memory, OriginState, Larger
  <1>4. \A w \in Worker : Deferred(w) \in OriginState
    BY <1>3 DEF Deferred, TypeOK, OriginState, Larger
  <1>5. \A w \in Worker : NewMarker(w) \in Marker
    BY DEF NewMarker, TypeOK, Memory, Marker
  <1>6. \A n \in Nat : Promise(n) \in Origin
    BY DEF Promise, TypeOK, Origin, Larger
  <1> QED BY <1>1, <1>2, <1>3, <1>4, <1>5, <1>6

\* What a step leaves in the memory of the worker that takes it, and in no other.
LEMMA Remembered ==
    ASSUME TypeOK, NEW w \in Worker, NEW m \in Memory, Remember(w, m)
    PROVE  /\ worker' \in [Worker -> Memory]
           /\ worker'[w] = m
           /\ \A v \in Worker : v # w => worker'[v] = worker[v]
  BY DEF TypeOK, Remember

\* The records the steps write are memories.
LEMMA MemoryTypes ==
    ASSUME NEW m \in Memory, NEW step \in Step, NEW n \in Nat
    PROVE  /\ [m EXCEPT !.step = step] \in Memory
           /\ [m EXCEPT !.step = step, !.token = n] \in Memory
           /\ [m EXCEPT !.step = step, !.reserved = n] \in Memory
           /\ [m EXCEPT !.step = step, !.reserved = 0, !.lastStart = n] \in Memory
           /\ \A b \in BOOLEAN : [m EXCEPT !.step = step, !.retained = b] \in Memory
           /\ [m EXCEPT !.step = step, !.volatile = TRUE, !.retained = TRUE] \in Memory
           /\ \A r \in Reason, d \in Nat :
                 [m EXCEPT !.step = step, !.reason = r, !.failedAt = n, !.delay = d] \in Memory
           /\ \A k, b \in BOOLEAN :
                 [Started(k) EXCEPT !.step = step, !.volatile = b] \in Memory
           /\ \A k \in BOOLEAN : Started(k) \in Memory
  <1>1. [m EXCEPT !.step = step] \in Memory
    BY DEF Memory
  <1>2. [m EXCEPT !.step = step, !.token = n] \in Memory
    BY DEF Memory
  <1>3. [m EXCEPT !.step = step, !.reserved = n] \in Memory
    BY DEF Memory
  <1>4. [m EXCEPT !.step = step, !.reserved = 0, !.lastStart = n] \in Memory
    BY DEF Memory
  <1>5. \A b \in BOOLEAN : [m EXCEPT !.step = step, !.retained = b] \in Memory
    BY DEF Memory
  <1>6. [m EXCEPT !.step = step, !.volatile = TRUE, !.retained = TRUE] \in Memory
    BY DEF Memory
  <1>7. \A r \in Reason, d \in Nat :
           [m EXCEPT !.step = step, !.reason = r, !.failedAt = n, !.delay = d] \in Memory
    BY DEF Memory
  <1>8. \A k \in BOOLEAN : Started(k) \in Memory
    BY DEF Memory, Started, Step, Reason
  <1>9. \A k, b \in BOOLEAN : [Started(k) EXCEPT !.step = step, !.volatile = b] \in Memory
    BY <1>8 DEF Memory, Step
  <1> QED BY <1>1, <1>2, <1>3, <1>4, <1>5, <1>6, <1>7, <1>8, <1>9

\* A step of a worker writes its memory, and a memory at that.
LEMMA StepRemembers ==
    ASSUME TypeOK, NEW w \in Worker, WorkerStep(w)
    PROVE  \E m \in Memory : Remember(w, m)
  <1> DEFINE me == worker[w]
  <1>0. /\ me \in Memory
        /\ me.lastStart \in Nat /\ me.token \in Nat /\ tokens + 1 \in Nat
        /\ me.killed \in BOOLEAN /\ me.volatile \in BOOLEAN /\ me.retained \in BOOLEAN
        /\ clock \in Nat /\ ReservedStart(w) \in Nat
    BY StateTypes DEF TypeOK, Memory
  <1>s. {"idle", "due", "held", "waiting", "checked", "started", "inflight", "cooling",
         "engaging", "ending", "leaving"} = Step
    BY DEF Step
  <1> HIDE DEF me
  <1>1. CASE BeginCycle(w)
    <2>1. [me EXCEPT !.step = "due"] \in Memory
      BY <1>0, <1>s, MemoryTypes
    <2> QED BY <1>1, <2>1 DEF BeginCycle, me
  <1>2. CASE AcquireFence(w)
    <2>1. [me EXCEPT !.step = "idle"] \in Memory
      BY <1>0, <1>s, MemoryTypes
    <2>2. [me EXCEPT !.step = "held", !.token = tokens + 1] \in Memory
      BY <1>0, <1>s, MemoryTypes
    <2> QED BY <1>2, <2>1, <2>2 DEF AcquireFence, me
  <1>3. CASE Reserve(w)
    <2>1. [me EXCEPT !.step = "waiting", !.reserved = ReservedStart(w)] \in Memory
      BY <1>0, <1>s, MemoryTypes
    <2>2. [me EXCEPT !.step = "leaving", !.retained = TRUE] \in Memory
      BY <1>0, <1>s, MemoryTypes
    <2> QED BY <1>3, <2>1, <2>2 DEF Reserve, me
  <1>4. CASE CheckInterlock(w)
    <2>1. \A s \in {"leaving", "checked"} : [me EXCEPT !.step = s] \in Memory
      BY <1>0, <1>s, MemoryTypes
    <2> QED BY <1>4, <2>1 DEF CheckInterlock, me
  <1>5. CASE StartRequest(w)
    <2>1. [me EXCEPT !.step = "started", !.reserved = 0, !.lastStart = clock] \in Memory
      BY <1>0, <1>s, MemoryTypes
    <2> QED BY <1>5, <2>1 DEF StartRequest, me
  <1>6. CASE Reconcile(w)
    <2>1. [me EXCEPT !.step = "inflight"] \in Memory
      BY <1>0, <1>s, MemoryTypes
    <2>2. [me EXCEPT !.step = "leaving", !.retained = TRUE] \in Memory
      BY <1>0, <1>s, MemoryTypes
    <2> QED BY <1>6, <2>1, <2>2 DEF Reconcile, me
  <1>7. CASE Respond(w)
    <2>1. \A s \in {"held", "ending"} : [me EXCEPT !.step = s] \in Memory
      BY <1>0, <1>s, MemoryTypes
    <2>2. 1..MaxDelay \subseteq Nat
      OBVIOUS
    <2>3. \A r \in Reason, d \in 1..MaxDelay :
             [me EXCEPT !.step = "cooling", !.reason = r, !.failedAt = clock, !.delay = d]
                \in Memory
      BY <1>0, <1>s, <2>2, MemoryTypes
    <2> QED BY <1>7, <2>1, <2>3 DEF Respond, me
  <1>8. CASE EndTurn(w)
    <2>1. [me EXCEPT !.step = "ending"] \in Memory
      BY <1>0, <1>s, MemoryTypes
    <2> QED BY <1>8, <2>1 DEF EndTurn, me
  <1>9. CASE DeferUntil(w)
    <2>1. [me EXCEPT !.step = "engaging"] \in Memory
      BY <1>0, <1>s, MemoryTypes
    <2>2. [me EXCEPT !.step = "engaging", !.retained = TRUE] \in Memory
      BY <1>0, <1>s, MemoryTypes
    <2> QED BY <1>9, <2>1, <2>2 DEF DeferUntil, me
  <1>10. CASE Engage(w)
    <2>1. [me EXCEPT !.step = "leaving"] \in Memory
      BY <1>0, <1>s, MemoryTypes
    <2>2. [me EXCEPT !.step = "leaving", !.volatile = TRUE, !.retained = TRUE] \in Memory
      BY <1>0, <1>s, MemoryTypes
    <2> QED BY <1>10, <2>1, <2>2 DEF Engage, me
  <1>11. CASE ReleaseFence(w)
    <2>1. \E step \in {"idle", "due"} : Remember(w, Rested(w, step))
      BY <1>11 DEF ReleaseFence
    <2>2. \A step \in {"idle", "due"} :
             [Started(me.killed) EXCEPT !.step = step, !.volatile = me.volatile] \in Memory
      BY <1>0, <1>s, MemoryTypes
    <2> QED BY <2>1, <2>2 DEF Rested, me
  <1> QED
    BY <1>1, <1>2, <1>3, <1>4, <1>5, <1>6, <1>7, <1>8, <1>9, <1>10, <1>11 DEF WorkerStep

\* The steps of one worker keep the types.
LEMMA WorkerTypes ==
    ASSUME TypeOK, NEW w \in Worker, WorkerStep(w)
    PROVE  TypeOK'
  <1>1. worker' \in [Worker -> Memory]
    BY StepRemembers, Remembered
  <1>2. /\ worker[w].lastStart \in Nat
        /\ NewMarker(w).resumeNotBefore \in Nat
    BY StateTypes DEF TypeOK, Memory, Marker
  <1>3. UNCHANGED <<clock, killSwitch, resetting, crashes>>
    BY DEF WorkerStep, BeginCycle, AcquireFence, Reserve, CheckInterlock, StartRequest,
           Reconcile, Respond, EndTurn, DeferUntil, Engage, ReleaseFence
  <1>4. fence' \in Nat /\ tokens' \in Nat
    <2>0. fence \in Nat /\ tokens \in Nat
      BY DEF TypeOK
    <2>1. CASE AcquireFence(w) \/ ReleaseFence(w)
      <3>1. /\ fence' \in {fence, tokens + 1, 0}
            /\ tokens' \in {tokens, tokens + 1}
        BY <2>1 DEF AcquireFence, ReleaseFence
      <3> QED BY <2>0, <3>1
    <2>2. CASE UNCHANGED <<fence, tokens>>
      BY <2>2 DEF TypeOK
    <2> QED BY <2>1, <2>2
       DEF WorkerStep, BeginCycle, Reserve, CheckInterlock, StartRequest,
           Reconcile, Respond, EndTurn, DeferUntil, Engage
  <1>5. faults' \in Nat
    <2>0. faults \in Nat
      BY DEF TypeOK
    <2>1. Fault \/ UNCHANGED faults
      BY DEF WorkerStep, BeginCycle, AcquireFence, Reserve, CheckInterlock, StartRequest,
             Reconcile, Respond, EndTurn, DeferUntil, Engage, ReleaseFence, WriteState
    <2> QED BY <2>0, <2>1 DEF Fault
  <1>6. state' \in OriginState
    <2>1. \A ok \in BOOLEAN, new \in OriginState :
             WriteState(new, ok) => state' \in OriginState
      BY DEF TypeOK, WriteState
    <2>2. /\ Permit(ReservedStart(w)) \in OriginState
          /\ Permit(worker[w].lastStart) \in OriginState
          /\ Deferred(w) \in OriginState
      BY <1>2, StateTypes
    <2>3. CASE Reserve(w) \/ Reconcile(w) \/ DeferUntil(w)
      BY <2>1, <2>2, <2>3 DEF Reserve, Reconcile, DeferUntil
    <2>4. CASE UNCHANGED state
      BY <2>4 DEF TypeOK
    <2> QED BY <2>3, <2>4
       DEF WorkerStep, BeginCycle, AcquireFence, CheckInterlock, StartRequest,
           Respond, EndTurn, Engage, ReleaseFence
  <1>7. marker' \in Marker
    <2>1. marker \in Marker /\ NewMarker(w) \in Marker
      BY StateTypes DEF TypeOK
    <2>2. CASE Engage(w)
      BY <2>1, <2>2 DEF Engage
    <2>3. CASE UNCHANGED marker
      BY <2>1, <2>3
    <2> QED BY <2>2, <2>3
       DEF WorkerStep, BeginCycle, AcquireFence, Reserve, CheckInterlock, StartRequest,
           Reconcile, Respond, EndTurn, DeferUntil, ReleaseFence
  <1>8. origin' \in Origin
    <2>0. origin \in Origin /\ clock \in Nat
      BY DEF TypeOK
    <2>1. [origin EXCEPT !.requests = @ + 1, !.last = clock] \in Origin
      <3>1. origin.requests + 1 \in Nat
        BY <2>0 DEF Origin
      <3> DEFINE n == origin.requests + 1
      <3>2. n \in Nat
        BY <3>1
      <3> HIDE DEF n
      <3>3. [origin EXCEPT !.requests = n, !.last = clock] \in Origin
        BY <2>0, <3>2 DEF Origin
      <3> QED BY <3>3 DEF n
    <2>2. Promise(Until(w)) \in Origin /\ Promise(NewMarker(w).resumeNotBefore) \in Origin
      BY <1>2, StateTypes
    <2>3. CASE StartRequest(w) \/ DeferUntil(w) \/ Engage(w)
      BY <2>0, <2>1, <2>2, <2>3 DEF StartRequest, DeferUntil, Engage
    <2>4. CASE UNCHANGED origin
      BY <2>0, <2>4
    <2> QED BY <2>3, <2>4
       DEF WorkerStep, BeginCycle, AcquireFence, Reserve, CheckInterlock, Reconcile,
           Respond, EndTurn, ReleaseFence
  <1> QED BY <1>1, <1>3, <1>4, <1>5, <1>6, <1>7, <1>8 DEF TypeOK

\* The files, the workers' memory and the counters keep their types.
THEOREM TypeCorrect == Spec => []TypeOK
  <1>1. Init => TypeOK
    <2>1. Started(FALSE) \in Memory
      BY DEF Memory, Started, Step, Reason
    <2>2. NoMarker \in Marker
      BY DEF NoMarker, Marker, Reason
    <2>3. Init => killSwitch \in BOOLEAN /\ resetting \in BOOLEAN
      BY DEF Init
    <2>4. Init => state \in OriginState
      BY DEF Init, OriginState
    <2>5. Init => origin \in Origin
      BY DEF Init, Origin
    <2>6. Init => worker \in [Worker -> Memory] /\ marker \in Marker
      BY <2>1, <2>2 DEF Init
    <2>7. Init => /\ clock \in Nat /\ fence \in Nat /\ tokens \in Nat
                  /\ faults \in Nat /\ crashes \in Nat
      BY DEF Init
    <2> QED BY <2>3, <2>4, <2>5, <2>6, <2>7 DEF TypeOK
  <1>2. TypeOK /\ [Next]_vars => TypeOK'
    <2> SUFFICES ASSUME TypeOK, [Next]_vars PROVE TypeOK'
      OBVIOUS
    <2>1. CASE Tick
      BY <2>1 DEF Tick, TypeOK
    <2>2. CASE SetKillSwitch
      BY <2>2 DEF SetKillSwitch, TypeOK
    <2>3. CASE ResetFence
      <3>1. ClearedState \in OriginState
        BY StateTypes
      <3>2. resetting' \in BOOLEAN
        BY <2>3 DEF ResetFence, TypeOK
      <3> QED BY <2>3, <3>1, <3>2 DEF ResetFence, TypeOK
    <2>4. CASE ResetMarker
      BY <2>4 DEF ResetMarker, TypeOK, NoMarker, Marker, Reason
    <2>5. CASE \E w \in Worker : WorkerStep(w)
      BY <2>5, WorkerTypes
    <2>6. CASE \E w \in Worker : Recreate(w)
      <3>1. PICK w \in Worker : Recreate(w)
        BY <2>6
      <3>2. Started(killSwitch) \in Memory
        BY DEF TypeOK, Memory, Started, Step, Reason
      <3>3. worker' \in [Worker -> Memory]
        BY <3>1, <3>2, Remembered DEF Recreate
      <3>4. resetting' \in BOOLEAN
        BY <3>1 DEF Recreate
      <3>5. crashes \in Nat /\ crashes' \in {crashes, crashes + 1}
        BY <3>1 DEF Recreate, TypeOK
      <3>6. crashes' \in Nat
        BY <3>5
      <3>7. UNCHANGED <<clock, fence, state, marker, killSwitch, origin, tokens, faults>>
        BY <3>1 DEF Recreate
      <3> QED BY <3>3, <3>4, <3>6, <3>7 DEF TypeOK
    <2>7. CASE UNCHANGED vars
      BY <2>7 DEF vars, TypeOK
    <2> QED BY <2>1, <2>2, <2>3, <2>4, <2>5, <2>6, <2>7 DEF Next
  <1> QED BY <1>1, <1>2, PTL DEF Spec
-------------------------------------------------------------------------------
(* OriginInv is inductive, and what follows from it. *)

\* The reservation lies behind every boundary.
LEMMA ReservedStartBound ==
    ASSUME TypeOK, NEW w \in Worker
    PROVE  /\ ReservedStart(w) \in Nat
           /\ clock + Spacing <= ReservedStart(w)
           /\ state.lastPermit <= ReservedStart(w)
           /\ worker[w].lastStart <= ReservedStart(w)
           /\ state.notBefore <= ReservedStart(w)
  <1>1. /\ clock \in Nat /\ state.lastPermit \in Nat /\ state.notBefore \in Nat
        /\ worker[w].lastStart \in Nat /\ Spacing \in Nat
    BY OriginAssumption DEF TypeOK, OriginState, Memory
  <1> QED BY <1>1 DEF ReservedStart, Larger

\* While a worker is inside a turn, and not only leaving it, nobody else is, no
\* stop is volatile, and no reset is under way.
LEMMA Alone1 ==
    ASSUME TypeOK, OriginInv, NEW w \in Worker, InTurn(w)
    PROVE  /\ fence # 0 /\ fence = worker[w].token
           /\ ~resetting
           /\ ~worker[w].killed
           /\ \A v \in Worker : v # w => ~InTurn(v) /\ ~worker[v].volatile
           /\ ~At(w, "leaving") => ~worker[w].volatile
  <1>1. fence # 0 /\ fence = worker[w].token
    BY DEF OriginInv, FenceExclusive, InTurn
  <1>2. ~worker[w].killed
    BY DEF OriginInv, KilledRest, InTurn, Inside, At
  <1>3. ~resetting
    BY <1>2 DEF OriginInv, KillSwitchOn
  <1>4. \A v \in Worker : v # w => ~InTurn(v) /\ ~worker[v].volatile
    BY DEF OriginInv, Alone, VolatileGuarded
  <1>5. ~At(w, "leaving") => ~worker[w].volatile
    BY DEF OriginInv, VolatileGuarded
  <1> QED BY <1>1, <1>2, <1>3, <1>4, <1>5

\* What another worker's step leaves as it was.
LEMMA OthersReserved ==
    ASSUME OriginInv, NEW v \in Worker, ~InTurn(v), worker'[v] = worker[v]
    PROVE  Reserved(v)'
  <1>1. ~worker[v].retained /\ worker[v].lastStart = 0 /\ ~InTurn(v)'
    BY DEF OriginInv, Reserved, InTurn
  <1>2. worker'[v].step \notin {"waiting", "checked", "started"}
    BY DEF InTurn, Inside, Step
  <1>3. ~worker'[v].retained /\ worker'[v].lastStart = 0
    BY <1>1
  <1> QED BY <1>1, <1>2, <1>3 DEF Reserved, At

\* The invariant after a step inside a turn, but for that worker's permit and the
\* cooldown.
LEMMA InsideStep ==
    ASSUME TypeOK, TypeOK', OriginInv, NEW w \in Worker, InTurn(w), InTurn(w)',
           \A v \in Worker : v # w => worker'[v] = worker[v],
           worker'[w].token = worker[w].token,
           worker'[w].killed = worker[w].killed,
           worker'[w].volatile => At(w, "leaving")' /\ worker'[w].retained,
           UNCHANGED <<fence, crashes, resetting>>,
           Reserved(w)', CooldownKept',
           (origin.last <= clock)', (state.known \/ state.lastPermit = 0)'
    PROVE  OriginInv'
  <1>0. /\ fence # 0 /\ fence = worker[w].token
        /\ ~resetting /\ ~worker[w].killed
        /\ \A v \in Worker : v # w => ~InTurn(v) /\ ~worker[v].volatile
    BY Alone1
  <1>1. \A v \in Worker : v # w => ~InTurn(v)' /\ ~worker'[v].volatile
    BY <1>0 DEF InTurn
  <1>2. FenceExclusive' /\ Alone'
    BY <1>0, <1>1 DEF FenceExclusive, Alone, InTurn
  <1>3. KilledRest'
    <2>1. \A v \in Worker : v # w => (worker'[v].killed => At(v, "idle")' /\ ~worker'[v].volatile)
      BY <1>1 DEF OriginInv, KilledRest, At
    <2> QED BY <1>0, <2>1 DEF KilledRest
  <1>4. VolatileGuarded'
    BY <1>0, <1>1 DEF VolatileGuarded
  <1>5. \A v \in Worker : Reserved(v)'
    BY <1>0, OthersReserved
  <1>6. FenceReturned'
    BY DEF FenceReturned, InTurn
  <1>7. (resetting => KillSwitchOn /\ ResumeReached)'
    BY <1>0
  <1> QED BY <1>2, <1>3, <1>4, <1>5, <1>6, <1>7 DEF OriginInv

\* A permit is reserved: the file takes the boundary over from whatever it held.
LEMMA ReserveKeeps ==
    ASSUME TypeOK, TypeOK', OriginInv, NEW w \in Worker, Reserve(w)
    PROVE  OriginInv'
  <1> DEFINE R == ReservedStart(w)
  <1>1. /\ InTurn(w) /\ ~At(w, "leaving") /\ At(w, "held")
        /\ worker[w] \in Memory /\ worker \in [Worker -> Memory]
        /\ UNCHANGED <<clock, fence, marker, resetting, origin, crashes>>
    BY DEF Reserve, At, InTurn, Inside, Step, TypeOK
  <1>2. ~worker[w].volatile
    BY <1>1, Alone1
  <1>3. /\ R \in Nat /\ clock + Spacing <= R /\ state.lastPermit <= R
        /\ worker[w].lastStart <= R /\ state.notBefore <= R
    BY ReservedStartBound
  <1>4. /\ clock \in Nat /\ state.lastPermit \in Nat /\ state.notBefore \in Nat
        /\ origin.last \in Nat /\ origin.promised \in Nat /\ Spacing \in Nat
        /\ origin.last <= clock /\ CooldownKept /\ Reserved(w)
        /\ (state.known \/ state.lastPermit = 0)
    BY OriginAssumption DEF TypeOK, OriginState, Origin, OriginInv
  <1> HIDE DEF R
  <1>5. /\ Permit(R).lastPermit = R /\ Permit(R).notBefore = 0 /\ Permit(R).known
    BY DEF Permit
  <1>6. ASSUME state' \in {state, Permit(R)}
        PROVE  CooldownKept' /\ (state.known \/ state.lastPermit = 0)' /\ (origin.last <= clock)'
    BY <1>1, <1>3, <1>4, <1>5, <1>6 DEF CooldownKept, Larger
  <1>7. CASE /\ WriteState(Permit(R), TRUE)
             /\ Remember(w, [worker[w] EXCEPT !.step = "waiting", !.reserved = R])
    <2>1. state' = Permit(R) /\ faults' = faults
      BY <1>7 DEF WriteState
    <2>2. /\ worker'[w] = [worker[w] EXCEPT !.step = "waiting", !.reserved = R]
          /\ \A v \in Worker : v # w => worker'[v] = worker[v]
      BY <1>7, <1>1 DEF Remember
    <2>3. /\ worker'[w].step = "waiting" /\ worker'[w].reserved = R
          /\ worker'[w].token = worker[w].token /\ worker'[w].killed = worker[w].killed
          /\ worker'[w].volatile = worker[w].volatile
          /\ worker'[w].retained = worker[w].retained
          /\ worker'[w].lastStart = worker[w].lastStart
      BY <2>2, <1>1 DEF Memory
    <2>4. InTurn(w)'
      BY <2>3 DEF InTurn, Inside, Step
    <2>5. Reserved(w)'
      BY <1>1, <1>3, <1>4, <1>5, <2>1, <2>3, <2>4 DEF Reserved, At, Reconciled
    <2> QED BY <1>1, <1>2, <1>6, <2>1, <2>2, <2>3, <2>4, <2>5, InsideStep
  <1>8. CASE /\ WriteState(Permit(R), FALSE)
             /\ Remember(w, [worker[w] EXCEPT !.step = "leaving", !.retained = TRUE])
    <2>1. state' \in {state, Permit(R)} /\ faults' = faults + 1
      BY <1>8 DEF WriteState, Fault
    <2>2. /\ worker'[w] = [worker[w] EXCEPT !.step = "leaving", !.retained = TRUE]
          /\ \A v \in Worker : v # w => worker'[v] = worker[v]
      BY <1>8, <1>1 DEF Remember
    <2>3. /\ worker'[w].step = "leaving" /\ worker'[w].retained
          /\ worker'[w].token = worker[w].token /\ worker'[w].killed = worker[w].killed
      BY <2>2, <1>1 DEF Memory
    <2>4. InTurn(w)'
      BY <2>3 DEF InTurn, Inside, Step
    <2>5. Reserved(w)'
      BY <2>1, <2>3, <2>4 DEF Reserved, At, TypeOK
    <2> QED BY <1>1, <1>6, <2>1, <2>2, <2>3, <2>4, <2>5, InsideStep DEF At
  <1> QED BY <1>7, <1>8 DEF Reserve, R

\* The last interlock: a permit whose time has come, and no stop on disk.
LEMMA CheckInterlockKeeps ==
    ASSUME TypeOK, TypeOK', OriginInv, NEW w \in Worker, CheckInterlock(w)
    PROVE  OriginInv'
  <1>1. /\ InTurn(w) /\ ~At(w, "leaving") /\ At(w, "waiting")
        /\ worker[w] \in Memory /\ worker \in [Worker -> Memory]
        /\ UNCHANGED <<clock, fence, state, marker, resetting, origin, crashes, faults>>
        /\ worker[w].reserved <= clock
    BY DEF CheckInterlock, At, InTurn, Inside, Step, TypeOK, Memory
  <1>2. ~worker[w].volatile
    BY <1>1, Alone1
  <1>3. PICK step \in {"leaving", "checked"} :
           /\ worker' = [worker EXCEPT ![w] = [worker[w] EXCEPT !.step = step]]
           /\ step = "checked" => marker = NoMarker
    BY DEF CheckInterlock, Remember, Stopped
  <1>4. /\ worker'[w] = [worker[w] EXCEPT !.step = step]
        /\ \A v \in Worker : v # w => worker'[v] = worker[v]
    BY <1>3, <1>1
  <1>5. /\ worker'[w].step = step /\ worker'[w].reserved = worker[w].reserved
        /\ worker'[w].token = worker[w].token /\ worker'[w].killed = worker[w].killed
        /\ worker'[w].volatile = worker[w].volatile
        /\ worker'[w].retained = worker[w].retained
        /\ worker'[w].lastStart = worker[w].lastStart
    BY <1>4, <1>1 DEF Memory
  <1>6. InTurn(w)'
    BY <1>5 DEF InTurn, Inside, Step
  <1>7. Reserved(w)'
    BY <1>1, <1>3, <1>5, <1>6 DEF OriginInv, Reserved, At, Reconciled, Permit, InTurn
  <1>8. CooldownKept' /\ (origin.last <= clock)' /\ (state.known \/ state.lastPermit = 0)'
    BY <1>1 DEF OriginInv, CooldownKept
  <1> QED BY <1>1, <1>2, <1>4, <1>5, <1>6, <1>7, <1>8, InsideStep

\* Behind the last interlock every promised cooldown is past.
LEMMA CheckedMeansPast ==
    ASSUME TypeOK, OriginInv, NEW w \in Worker, At(w, "checked")
    PROVE  /\ origin.promised <= clock
           /\ origin.last + Spacing <= clock
           /\ marker = NoMarker
           /\ state.lastPermit <= clock
  <1>1. /\ origin.last + Spacing <= worker[w].reserved
        /\ state = Permit(worker[w].reserved)
        /\ worker[w].reserved <= clock /\ marker = NoMarker
    BY DEF OriginInv, Reserved, At
  <1>2. state.lastPermit = worker[w].reserved /\ state.notBefore = 0
    BY <1>1 DEF Permit
  <1>3. marker.reason # "source_rate_limited"
    BY <1>1 DEF NoMarker
  <1>4. CooldownKept
    BY DEF OriginInv
  <1>5. /\ clock \in Nat /\ worker[w].reserved \in Nat
        /\ origin.promised \in Nat /\ origin.last \in Nat /\ Spacing \in Nat
    BY OriginAssumption DEF TypeOK, Memory, Origin
  <1> QED BY <1>1, <1>2, <1>3, <1>4, <1>5 DEF CooldownKept, Larger

\* The request starts.
LEMMA StartRequestKeeps ==
    ASSUME TypeOK, TypeOK', OriginInv, NEW w \in Worker, StartRequest(w)
    PROVE  OriginInv'
  <1>1. /\ InTurn(w) /\ ~At(w, "leaving") /\ At(w, "checked")
        /\ worker[w] \in Memory /\ worker \in [Worker -> Memory]
        /\ UNCHANGED <<clock, fence, state, marker, resetting, crashes, faults>>
    BY DEF StartRequest, At, InTurn, Inside, Step, TypeOK
  <1>2. ~worker[w].volatile
    BY <1>1, Alone1
  <1>3. /\ worker'[w] = [worker[w] EXCEPT !.step = "started", !.reserved = 0, !.lastStart = clock]
        /\ \A v \in Worker : v # w => worker'[v] = worker[v]
    BY <1>1 DEF StartRequest, Remember
  <1>4. /\ worker'[w].step = "started" /\ worker'[w].lastStart = clock
        /\ worker'[w].token = worker[w].token /\ worker'[w].killed = worker[w].killed
        /\ worker'[w].volatile = worker[w].volatile
        /\ worker'[w].retained = worker[w].retained
    BY <1>3, <1>1 DEF Memory
  <1>5. InTurn(w)'
    BY <1>4 DEF InTurn, Inside, Step
  <1>6. /\ origin'.last = clock /\ origin'.promised = origin.promised
        /\ clock \in Nat
    BY DEF StartRequest, TypeOK, Origin
  <1>7. origin.promised <= clock /\ state.lastPermit <= clock
    BY <1>1, CheckedMeansPast
  <1>8. Reserved(w)'
    BY <1>1, <1>4, <1>5, <1>6, <1>7 DEF OriginInv, Reserved, At, InTurn
  <1>9. CooldownKept' /\ (origin.last <= clock)' /\ (state.known \/ state.lastPermit = 0)'
    BY <1>1, <1>6, <1>7 DEF OriginInv, CooldownKept
  <1> QED BY <1>1, <1>2, <1>3, <1>4, <1>5, <1>8, <1>9, InsideStep

\* The file gets the actual start.
LEMMA ReconcileKeeps ==
    ASSUME TypeOK, TypeOK', OriginInv, NEW w \in Worker, Reconcile(w)
    PROVE  OriginInv'
  <1> DEFINE L == worker[w].lastStart
  <1>1. /\ InTurn(w) /\ ~At(w, "leaving") /\ At(w, "started")
        /\ worker[w] \in Memory /\ worker \in [Worker -> Memory]
        /\ UNCHANGED <<clock, fence, marker, resetting, origin, crashes>>
    BY DEF Reconcile, At, InTurn, Inside, Step, TypeOK
  <1>2. ~worker[w].volatile
    BY <1>1, Alone1
  <1>3. L \in Nat /\ origin.promised <= clock /\ origin.last <= clock
        /\ (state.known \/ state.lastPermit = 0)
    BY <1>1 DEF OriginInv, Reserved, Memory
  <1> HIDE DEF L
  <1>4. /\ Permit(L).lastPermit = L /\ Permit(L).known
    BY DEF Permit
  <1>5. ASSUME state' \in {state, Permit(L)}
        PROVE  CooldownKept' /\ (state.known \/ state.lastPermit = 0)' /\ (origin.last <= clock)'
    BY <1>1, <1>3, <1>4, <1>5 DEF CooldownKept
  <1>6. CASE /\ WriteState(Permit(L), TRUE)
             /\ Remember(w, [worker[w] EXCEPT !.step = "inflight"])
    <2>1. state' = Permit(L) /\ faults' = faults
      BY <1>6 DEF WriteState
    <2>2. /\ worker'[w] = [worker[w] EXCEPT !.step = "inflight"]
          /\ \A v \in Worker : v # w => worker'[v] = worker[v]
      BY <1>6, <1>1 DEF Remember
    <2>3. /\ worker'[w].step = "inflight" /\ worker'[w].lastStart = L
          /\ worker'[w].token = worker[w].token /\ worker'[w].killed = worker[w].killed
          /\ worker'[w].volatile = worker[w].volatile
          /\ worker'[w].retained = worker[w].retained
      BY <2>2, <1>1 DEF Memory, L
    <2>4. InTurn(w)'
      BY <2>3 DEF InTurn, Inside, Step
    <2>5. Reserved(w)'
      BY <1>1, <1>3, <1>4, <2>1, <2>3, <2>4 DEF OriginInv, Reserved, At, Reconciled, InTurn
    <2> QED BY <1>1, <1>2, <1>5, <2>1, <2>2, <2>3, <2>4, <2>5, InsideStep
  <1>7. CASE /\ WriteState(Permit(L), FALSE)
             /\ Remember(w, [worker[w] EXCEPT !.step = "leaving", !.retained = TRUE])
    <2>1. state' \in {state, Permit(L)} /\ faults' = faults + 1
      BY <1>7 DEF WriteState, Fault
    <2>2. /\ worker'[w] = [worker[w] EXCEPT !.step = "leaving", !.retained = TRUE]
          /\ \A v \in Worker : v # w => worker'[v] = worker[v]
      BY <1>7, <1>1 DEF Remember
    <2>3. /\ worker'[w].step = "leaving" /\ worker'[w].retained
          /\ worker'[w].token = worker[w].token /\ worker'[w].killed = worker[w].killed
      BY <2>2, <1>1 DEF Memory
    <2>4. InTurn(w)'
      BY <2>3 DEF InTurn, Inside, Step
    <2>5. Reserved(w)'
      BY <2>1, <2>3, <2>4 DEF Reserved, At, TypeOK
    <2> QED BY <1>1, <1>5, <2>1, <2>2, <2>3, <2>4, <2>5, InsideStep DEF At
  <1> QED BY <1>6, <1>7 DEF Reconcile, L

\* A step that writes no file and reserves nothing.
LEMMA QuietStep ==
    ASSUME TypeOK, TypeOK', OriginInv, NEW w \in Worker,
           InTurn(w), ~At(w, "started"), ~At(w, "leaving"),
           NEW step \in {"held", "ending", "cooling", "leaving"}, worker'[w].step = step,
           worker'[w].token = worker[w].token, worker'[w].killed = worker[w].killed,
           worker'[w].volatile = worker[w].volatile,
           worker'[w].retained = worker[w].retained,
           worker'[w].lastStart = worker[w].lastStart,
           \A v \in Worker : v # w => worker'[v] = worker[v],
           UNCHANGED <<clock, fence, state, marker, resetting, origin, crashes, faults>>
    PROVE  OriginInv'
  <1>1. ~worker[w].volatile
    BY Alone1
  <1>2. InTurn(w)'
    BY DEF InTurn, Inside, Step
  <1>3. Reserved(w)'
    BY <1>2 DEF OriginInv, Reserved, At, Reconciled, InTurn
  <1>4. CooldownKept' /\ (origin.last <= clock)' /\ (state.known \/ state.lastPermit = 0)'
    BY DEF OriginInv, CooldownKept
  <1> QED BY <1>1, <1>2, <1>3, <1>4, InsideStep

\* The request's outcome.
LEMMA RespondKeeps ==
    ASSUME TypeOK, TypeOK', OriginInv, NEW w \in Worker, Respond(w)
    PROVE  OriginInv'
  <1>1. /\ InTurn(w) /\ ~At(w, "leaving") /\ ~At(w, "started")
        /\ worker[w] \in Memory /\ worker \in [Worker -> Memory]
        /\ UNCHANGED <<clock, fence, state, marker, resetting, origin, crashes, faults>>
    BY DEF Respond, At, InTurn, Inside, Step, TypeOK
  <1>2. CASE \E step \in {"held", "ending"} : Remember(w, [worker[w] EXCEPT !.step = step])
    <2>1. PICK step \in {"held", "ending"} : Remember(w, [worker[w] EXCEPT !.step = step])
      BY <1>2
    <2>2. /\ worker'[w] = [worker[w] EXCEPT !.step = step]
          /\ \A v \in Worker : v # w => worker'[v] = worker[v]
      BY <2>1, <1>1 DEF Remember
    <2>3. /\ worker'[w].step = step
          /\ worker'[w].token = worker[w].token /\ worker'[w].killed = worker[w].killed
          /\ worker'[w].volatile = worker[w].volatile
          /\ worker'[w].retained = worker[w].retained
          /\ worker'[w].lastStart = worker[w].lastStart
      BY <2>2, <1>1 DEF Memory
    <2> QED BY <1>1, <2>2, <2>3, QuietStep
  <1>3. CASE \E reason \in Reason \ {"none"}, delay \in 1..MaxDelay :
                Remember(w, [worker[w] EXCEPT !.step = "cooling", !.reason = reason,
                                !.failedAt = clock, !.delay = delay])
    <2>1. PICK reason \in Reason \ {"none"}, delay \in 1..MaxDelay :
             Remember(w, [worker[w] EXCEPT !.step = "cooling", !.reason = reason,
                             !.failedAt = clock, !.delay = delay])
      BY <1>3
    <2>2. /\ worker'[w] = [worker[w] EXCEPT !.step = "cooling", !.reason = reason,
                                        !.failedAt = clock, !.delay = delay]
          /\ \A v \in Worker : v # w => worker'[v] = worker[v]
      BY <2>1, <1>1 DEF Remember
    <2>3. /\ worker'[w].step = "cooling"
          /\ worker'[w].token = worker[w].token /\ worker'[w].killed = worker[w].killed
          /\ worker'[w].volatile = worker[w].volatile
          /\ worker'[w].retained = worker[w].retained
          /\ worker'[w].lastStart = worker[w].lastStart
      BY <2>2, <1>1 DEF Memory
    <2> QED BY <1>1, <2>2, <2>3, QuietStep
  <1> QED BY <1>2, <1>3 DEF Respond

\* The turn ends without a request.
LEMMA EndTurnKeeps ==
    ASSUME TypeOK, TypeOK', OriginInv, NEW w \in Worker, EndTurn(w)
    PROVE  OriginInv'
  <1>1. /\ InTurn(w) /\ ~At(w, "leaving") /\ ~At(w, "started")
        /\ worker[w] \in Memory /\ worker \in [Worker -> Memory]
        /\ UNCHANGED <<clock, fence, state, marker, resetting, origin, crashes, faults>>
    BY DEF EndTurn, At, InTurn, Inside, Step, TypeOK
  <1>2. /\ worker'[w] = [worker[w] EXCEPT !.step = "ending"]
        /\ \A v \in Worker : v # w => worker'[v] = worker[v]
    BY <1>1 DEF EndTurn, Remember
  <1>3. /\ worker'[w].step = "ending"
        /\ worker'[w].token = worker[w].token /\ worker'[w].killed = worker[w].killed
        /\ worker'[w].volatile = worker[w].volatile
        /\ worker'[w].retained = worker[w].retained
        /\ worker'[w].lastStart = worker[w].lastStart
    BY <1>2, <1>1 DEF Memory
  <1> QED BY <1>1, <1>2, <1>3, QuietStep

\* The cooldown is written down, or the fence will be retained.
LEMMA DeferUntilKeeps ==
    ASSUME TypeOK, TypeOK', OriginInv, NEW w \in Worker, DeferUntil(w)
    PROVE  OriginInv'
  <1> DEFINE D == Deferred(w)
             U == Until(w)
  <1>1. /\ InTurn(w) /\ ~At(w, "leaving") /\ ~At(w, "started")
        /\ worker[w] \in Memory /\ worker \in [Worker -> Memory]
        /\ UNCHANGED <<clock, fence, marker, resetting, crashes>>
    BY DEF DeferUntil, At, InTurn, Inside, Step, TypeOK
  <1>2. ~worker[w].volatile
    BY <1>1, Alone1
  <1>3. /\ clock \in Nat /\ state.lastPermit \in Nat /\ state.notBefore \in Nat
        /\ origin.last \in Nat /\ origin.promised \in Nat /\ U \in Nat
        /\ marker.resumeNotBefore \in Nat
        /\ origin.last <= clock /\ CooldownKept /\ Reserved(w)
        /\ (state.known \/ state.lastPermit = 0)
    BY StateTypes DEF TypeOK, OriginState, Origin, Marker, OriginInv
  <1>4. /\ D.known /\ D.lastPermit = (IF state.known THEN state.lastPermit ELSE clock)
        /\ D.notBefore = Larger(state.notBefore, U)
    BY DEF Deferred
  <1> HIDE DEF D, U
  <1>5. /\ state.lastPermit <= D.lastPermit /\ D.lastPermit \in Nat
        /\ D.notBefore \in Nat /\ state.notBefore <= D.notBefore /\ U <= D.notBefore
    <2>1. D.lastPermit \in Nat /\ state.lastPermit <= D.lastPermit
      BY <1>3, <1>4
    <2>2. D.notBefore \in Nat /\ state.notBefore <= D.notBefore /\ U <= D.notBefore
      BY <1>3, <1>4 DEF Larger
    <2> QED BY <2>1, <2>2
  <1>6. CASE /\ WriteState(D, TRUE)
             /\ Remember(w, [worker[w] EXCEPT !.step = "engaging"])
             /\ origin' = Promise(U)
    <2>1. state' = D /\ faults' = faults
      BY <1>6 DEF WriteState
    <2>2. /\ worker'[w] = [worker[w] EXCEPT !.step = "engaging"]
          /\ \A v \in Worker : v # w => worker'[v] = worker[v]
      BY <1>6, <1>1 DEF Remember
    <2>3. /\ worker'[w].step = "engaging"
          /\ worker'[w].token = worker[w].token /\ worker'[w].killed = worker[w].killed
          /\ worker'[w].volatile = worker[w].volatile
          /\ worker'[w].retained = worker[w].retained
          /\ worker'[w].lastStart = worker[w].lastStart
          /\ worker[w].lastStart \in Nat
      BY <2>2, <1>1 DEF Memory
    <2>4. InTurn(w)'
      BY <2>3 DEF InTurn, Inside, Step
    <2>5. Reserved(w)'
      BY <1>1, <1>3, <1>5, <2>1, <2>3, <2>4 DEF Reserved, At, Reconciled, InTurn
    <2>6. /\ origin'.last = origin.last
          /\ origin'.promised \in {origin.promised, U}
      <3>1. origin \in Origin /\ origin' = [origin EXCEPT !.promised = Larger(@, U)]
        BY <1>6 DEF Promise, TypeOK
      <3>2. origin'.last = origin.last /\ origin'.promised = Larger(origin.promised, U)
        BY <3>1 DEF Origin
      <3> QED BY <3>2, <1>3, LargerType
    <2>7. CooldownKept'
      <3>1. CASE origin'.promised = U
        BY <3>1, <1>3, <1>5, <2>1 DEF CooldownKept, Larger
      <3>2. CASE origin'.promised = origin.promised
        BY <3>2, <1>1, <1>3, <1>5, <2>1 DEF CooldownKept, Larger
      <3> QED BY <2>6, <3>1, <3>2
    <2>8. (origin.last <= clock)' /\ (state.known \/ state.lastPermit = 0)'
      BY <1>1, <1>3, <1>4, <2>1, <2>6
    <2> QED BY <1>1, <1>2, <2>2, <2>3, <2>4, <2>5, <2>7, <2>8, InsideStep
  <1>7. CASE /\ WriteState(D, FALSE)
             /\ Remember(w, [worker[w] EXCEPT !.step = "engaging", !.retained = TRUE])
             /\ origin' = origin
    <2>1. state' \in {state, D} /\ faults' = faults + 1
      BY <1>7 DEF WriteState, Fault
    <2>2. /\ worker'[w] = [worker[w] EXCEPT !.step = "engaging", !.retained = TRUE]
          /\ \A v \in Worker : v # w => worker'[v] = worker[v]
      BY <1>7, <1>1 DEF Remember
    <2>3. /\ worker'[w].step = "engaging" /\ worker'[w].retained
          /\ worker'[w].token = worker[w].token /\ worker'[w].killed = worker[w].killed
          /\ worker'[w].volatile = worker[w].volatile
      BY <2>2, <1>1 DEF Memory
    <2>4. InTurn(w)'
      BY <2>3 DEF InTurn, Inside, Step
    <2>5. Reserved(w)'
      BY <2>1, <2>3, <2>4 DEF Reserved, At, TypeOK
    <2>6. CooldownKept'
      BY <1>1, <1>3, <1>5, <1>7, <2>1 DEF CooldownKept, Larger
    <2>7. (origin.last <= clock)' /\ (state.known \/ state.lastPermit = 0)'
      BY <1>1, <1>3, <1>4, <1>7, <2>1
    <2> QED BY <1>1, <1>2, <2>2, <2>3, <2>4, <2>5, <2>6, <2>7, InsideStep
  <1> QED BY <1>6, <1>7 DEF DeferUntil, D, U

\* The safety stop: on disk, or in memory with the fence retained.
LEMMA EngageKeeps ==
    ASSUME TypeOK, TypeOK', OriginInv, NEW w \in Worker, Engage(w)
    PROVE  OriginInv'
  <1> DEFINE N == NewMarker(w)
  <1>1. /\ InTurn(w) /\ ~At(w, "leaving") /\ ~At(w, "started")
        /\ worker[w] \in Memory /\ worker \in [Worker -> Memory]
        /\ UNCHANGED <<clock, fence, state, resetting, crashes>>
    BY DEF Engage, At, InTurn, Inside, Step, TypeOK
  <1>2. ~worker[w].volatile
    BY <1>1, Alone1
  <1>3. /\ clock \in Nat /\ state.lastPermit \in Nat /\ state.notBefore \in Nat
        /\ origin.last \in Nat /\ origin.promised \in Nat
        /\ N.resumeNotBefore \in Nat /\ origin \in Origin
        /\ origin.last <= clock /\ CooldownKept /\ Reserved(w)
        /\ (state.known \/ state.lastPermit = 0)
    BY StateTypes DEF TypeOK, OriginState, Origin, Marker, OriginInv
  <1>4. N.reason = "source_rate_limited" \/ N.resumeNotBefore = 0
    BY DEF NewMarker
  <1> HIDE DEF N
  <1>5. CASE Stopped(w)
    <2>1. /\ UNCHANGED <<marker, origin, faults>>
          /\ worker'[w] = [worker[w] EXCEPT !.step = "leaving"]
          /\ \A v \in Worker : v # w => worker'[v] = worker[v]
      BY <1>5, <1>1 DEF Engage, Remember
    <2>2. /\ worker'[w].step = "leaving"
          /\ worker'[w].token = worker[w].token /\ worker'[w].killed = worker[w].killed
          /\ worker'[w].volatile = worker[w].volatile
          /\ worker'[w].retained = worker[w].retained
          /\ worker'[w].lastStart = worker[w].lastStart
      BY <2>1, <1>1 DEF Memory
    <2> QED BY <1>1, <2>1, <2>2, QuietStep
  <1>6. ASSUME ~Stopped(w)
        PROVE  origin.promised <= clock \/ origin.promised <= Larger(state.lastPermit, state.notBefore)
    BY <1>3, <1>6 DEF CooldownKept, Stopped, NoMarker
  <1>7. CASE /\ ~Stopped(w)
             /\ marker' = N
             /\ Remember(w, [worker[w] EXCEPT !.step = "leaving"])
             /\ origin' = Promise(N.resumeNotBefore)
             /\ UNCHANGED faults
    <2>1. /\ worker'[w] = [worker[w] EXCEPT !.step = "leaving"]
          /\ \A v \in Worker : v # w => worker'[v] = worker[v]
      BY <1>7, <1>1 DEF Remember
    <2>2. /\ worker'[w].step = "leaving"
          /\ worker'[w].token = worker[w].token /\ worker'[w].killed = worker[w].killed
          /\ worker'[w].volatile = worker[w].volatile
          /\ worker'[w].retained = worker[w].retained
          /\ worker'[w].lastStart = worker[w].lastStart
      BY <2>1, <1>1 DEF Memory
    <2>3. InTurn(w)'
      BY <2>2 DEF InTurn, Inside, Step
    <2>4. Reserved(w)'
      BY <1>1, <1>3, <1>7, <2>2, <2>3 DEF Reserved, At, Reconciled, InTurn
    <2>5. /\ origin'.last = origin.last
          /\ origin'.promised = Larger(origin.promised, N.resumeNotBefore)
      BY <1>3, <1>7 DEF Promise, Origin
    <2>6. CooldownKept'
      <3>1. CASE origin'.promised = N.resumeNotBefore /\ N.reason = "source_rate_limited"
        BY <3>1, <1>3, <1>7 DEF CooldownKept
      <3>2. CASE origin'.promised = origin.promised
        BY <3>2, <1>1, <1>6, <1>7 DEF CooldownKept
      <3> QED BY <1>3, <1>4, <2>5, <3>1, <3>2 DEF Larger
    <2>7. (origin.last <= clock)' /\ (state.known \/ state.lastPermit = 0)'
      BY <1>1, <1>3, <2>5
    <2> QED BY <1>1, <1>2, <2>1, <2>2, <2>3, <2>4, <2>6, <2>7, InsideStep
  <1>8. CASE /\ ~Stopped(w)
             /\ Fault
             /\ marker' \in {marker, N}
             /\ Remember(w, [worker[w] EXCEPT !.step = "leaving", !.volatile = TRUE,
                                !.retained = TRUE])
             /\ UNCHANGED origin
    <2>1. /\ worker'[w] = [worker[w] EXCEPT !.step = "leaving", !.volatile = TRUE,
                                        !.retained = TRUE]
          /\ \A v \in Worker : v # w => worker'[v] = worker[v]
          /\ faults' = faults + 1
      BY <1>8, <1>1 DEF Remember, Fault
    <2>2. /\ worker'[w].step = "leaving" /\ worker'[w].retained
          /\ worker'[w].token = worker[w].token /\ worker'[w].killed = worker[w].killed
      BY <2>1, <1>1 DEF Memory
    <2>3. InTurn(w)'
      BY <2>2 DEF InTurn, Inside, Step
    <2>4. Reserved(w)'
      BY <2>1, <2>2, <2>3 DEF Reserved, At, TypeOK
    <2>5. CooldownKept' /\ (origin.last <= clock)' /\ (state.known \/ state.lastPermit = 0)'
      BY <1>1, <1>3, <1>6, <1>8 DEF CooldownKept
    <2> QED BY <1>1, <2>1, <2>2, <2>3, <2>4, <2>5, InsideStep DEF At
  <1> QED BY <1>5, <1>7, <1>8 DEF Engage, N

\* The invariant after a step that ends outside a turn and touches no file but the
\* fence: for a worker that leaves its turn, fails to take the fence, or begins a
\* cycle.
LEMMA OutsideStep ==
    ASSUME TypeOK, TypeOK', OriginInv, NEW w \in Worker, ~InTurn(w)',
           \A v \in Worker : v # w => worker'[v] = worker[v],
           worker'[w].lastStart = 0, ~worker'[w].retained,
           worker'[w].volatile => worker[w].volatile /\ fence' # 0,
           worker'[w].killed => At(w, "idle")' /\ ~worker'[w].volatile,
           \A v \in Worker : v # w => ~worker[v].volatile \/ UNCHANGED fence,
           \A v \in Worker : v # w /\ InTurn(v) => UNCHANGED fence,
           \/ faults' > 0 \/ crashes' > 0 \/ fence' = 0
              \/ (UNCHANGED <<fence, faults, crashes>> /\ ~InTurn(w)),
           resetting' => resetting /\ worker'[w].killed = worker[w].killed,
           faults \in Nat, faults' \in {faults, faults + 1},
           UNCHANGED <<clock, state, marker, origin>>
    PROVE  OriginInv'
  <1>0. worker'[w].step \notin {"waiting", "checked", "started"}
    BY DEF InTurn, Inside, Step
  <1>1. \A v \in Worker : InTurn(v)' => v # w /\ InTurn(v) /\ worker'[v] = worker[v]
    BY DEF InTurn
  <1>2. FenceExclusive' /\ Alone'
    BY <1>1 DEF OriginInv, FenceExclusive, Alone, InTurn
  <1>3. KilledRest'
    BY DEF OriginInv, KilledRest, At
  <1>4. VolatileGuarded'
    <2>1. ASSUME NEW v \in Worker, worker'[v].volatile
          PROVE  /\ fence' # 0
                 /\ \A u \in Worker : InTurn(u)' => u = v /\ At(v, "leaving")' /\ worker'[v].retained
      <3>1. worker[v].volatile
        BY <2>1
      <3>2. /\ fence # 0
            /\ \A u \in Worker : InTurn(u) => u = v /\ At(v, "leaving") /\ worker[v].retained
        BY <3>1 DEF OriginInv, VolatileGuarded
      <3>3. fence' # 0
        BY <2>1, <3>1, <3>2
      <3> QED BY <1>1, <3>2, <3>3 DEF At
    <2> QED BY <2>1 DEF VolatileGuarded
  <1>5. ASSUME NEW v \in Worker
        PROVE  Reserved(v)'
    <2>1. CASE v = w
      BY <2>1, <1>0 DEF Reserved, At
    <2>2. CASE v # w
      <3>1. worker'[v] = worker[v] /\ Reserved(v)
        BY <2>2 DEF OriginInv
      <3>2. CASE ~InTurn(v)
        BY <3>1, <3>2, OthersReserved
      <3>3. CASE InTurn(v)
        <4>1. Reserved(v) /\ UNCHANGED <<clock, state, marker, origin, worker[v]>>
          BY <3>1
        <4>2. faults > 0 => faults' > 0
          OBVIOUS
        <4> QED BY <4>1, <4>2 DEF Reserved, At, InTurn, Reconciled
      <3> QED BY <3>2, <3>3
    <2> QED BY <2>1, <2>2
  <1>6. FenceReturned'
    BY <1>1 DEF OriginInv, FenceReturned, InTurn
  <1>7. (resetting => KillSwitchOn /\ ResumeReached)'
    BY DEF OriginInv, KillSwitchOn, ResumeReached
  <1>8. CooldownKept' /\ (origin.last <= clock)' /\ (state.known \/ state.lastPermit = 0)'
    BY DEF OriginInv, CooldownKept
  <1> QED BY <1>2, <1>3, <1>4, <1>5, <1>6, <1>7, <1>8 DEF OriginInv

\* A cycle begins.
LEMMA BeginCycleKeeps ==
    ASSUME TypeOK, TypeOK', OriginInv, NEW w \in Worker, BeginCycle(w)
    PROVE  OriginInv'
  <1>1. /\ ~InTurn(w) /\ ~worker[w].killed /\ ~worker[w].volatile
        /\ worker[w] \in Memory /\ worker \in [Worker -> Memory] /\ faults \in Nat
        /\ UNCHANGED <<clock, fence, state, marker, resetting, origin, crashes, faults>>
    BY DEF BeginCycle, Stopped, At, InTurn, Inside, TypeOK
  <1>2. ~worker[w].retained /\ worker[w].lastStart = 0
    BY <1>1 DEF OriginInv, Reserved
  <1>3. /\ worker'[w] = [worker[w] EXCEPT !.step = "due"]
        /\ \A v \in Worker : v # w => worker'[v] = worker[v]
    BY <1>1 DEF BeginCycle, Remember
  <1>4. /\ worker'[w].step = "due" /\ worker'[w].lastStart = worker[w].lastStart
        /\ worker'[w].retained = worker[w].retained
        /\ worker'[w].killed = worker[w].killed
        /\ worker'[w].volatile = worker[w].volatile
    BY <1>3, <1>1 DEF Memory
  <1>5. ~InTurn(w)'
    BY <1>4 DEF InTurn, Inside
  <1> QED BY <1>1, <1>2, <1>3, <1>4, <1>5, OutsideStep

\* The fence is taken, found, or left half created.
LEMMA AcquireFenceKeeps ==
    ASSUME TypeOK, TypeOK', OriginInv, NEW w \in Worker, AcquireFence(w)
    PROVE  OriginInv'
  <1>1. /\ ~InTurn(w) /\ At(w, "due")
        /\ worker[w] \in Memory /\ worker \in [Worker -> Memory]
        /\ faults \in Nat /\ tokens \in Nat
        /\ UNCHANGED <<clock, state, marker, resetting, origin, crashes>>
    BY DEF AcquireFence, At, InTurn, Inside, TypeOK
  <1>2. ~worker[w].retained /\ worker[w].lastStart = 0
    BY <1>1 DEF OriginInv, Reserved
  <1>3. ~worker[w].killed
    BY <1>1 DEF OriginInv, KilledRest, At
  <1>4. ASSUME Remember(w, [worker[w] EXCEPT !.step = "idle"])
        PROVE  /\ \A v \in Worker : v # w => worker'[v] = worker[v]
               /\ worker'[w].step = "idle" /\ worker'[w].lastStart = worker[w].lastStart
               /\ worker'[w].retained = worker[w].retained
               /\ worker'[w].killed = worker[w].killed
               /\ worker'[w].volatile = worker[w].volatile
               /\ ~InTurn(w)'
    <2>1. /\ worker'[w] = [worker[w] EXCEPT !.step = "idle"]
          /\ \A v \in Worker : v # w => worker'[v] = worker[v]
      BY <1>4, <1>1 DEF Remember
    <2>2. /\ worker'[w].step = "idle" /\ worker'[w].lastStart = worker[w].lastStart
          /\ worker'[w].retained = worker[w].retained
          /\ worker'[w].killed = worker[w].killed
          /\ worker'[w].volatile = worker[w].volatile
      BY <2>1, <1>1 DEF Memory
    <2> QED BY <2>1, <2>2 DEF InTurn, Inside
  <1>5. CASE /\ fence # 0
             /\ Remember(w, [worker[w] EXCEPT !.step = "idle"])
             /\ UNCHANGED <<fence, tokens, faults>>
    BY <1>1, <1>2, <1>3, <1>4, <1>5, OutsideStep
  <1>6. ASSUME fence = 0
        PROVE  \A v \in Worker : ~InTurn(v) /\ ~worker[v].volatile
    BY <1>6 DEF OriginInv, FenceExclusive, VolatileGuarded, InTurn
  <1>7. CASE /\ fence = 0 /\ fence' = tokens + 1
             /\ Fault
             /\ Remember(w, [worker[w] EXCEPT !.step = "idle"])
    <2>1. faults' = faults + 1 /\ fence' # 0
      BY <1>7, <1>1 DEF Fault
    <2> QED BY <1>1, <1>2, <1>3, <1>4, <1>6, <1>7, <2>1, OutsideStep
  <1>8. CASE /\ fence = 0 /\ fence' = tokens + 1
             /\ Remember(w, [worker[w] EXCEPT !.step = "held", !.token = tokens + 1])
             /\ UNCHANGED faults
    <2>1. /\ worker'[w] = [worker[w] EXCEPT !.step = "held", !.token = tokens + 1]
          /\ \A v \in Worker : v # w => worker'[v] = worker[v]
      BY <1>8, <1>1 DEF Remember
    <2>2. /\ worker'[w].step = "held" /\ worker'[w].token = tokens + 1
          /\ worker'[w].lastStart = worker[w].lastStart
          /\ worker'[w].retained = worker[w].retained
          /\ worker'[w].killed = worker[w].killed
          /\ worker'[w].volatile = worker[w].volatile
      BY <2>1, <1>1 DEF Memory
    <2>3. /\ \A v \in Worker : ~worker'[v].volatile
          /\ \A v \in Worker : v # w => ~InTurn(v)'
      BY <1>6, <1>8, <2>1, <2>2 DEF InTurn
    <2>4. InTurn(w)' /\ fence' # 0
      BY <1>1, <1>8, <2>2 DEF InTurn, Inside, Step
    <2>5. FenceExclusive' /\ Alone' /\ FenceReturned'
      BY <1>8, <2>2, <2>3, <2>4 DEF FenceExclusive, Alone, FenceReturned, InTurn
    <2>6. KilledRest' /\ VolatileGuarded'
      BY <1>3, <2>1, <2>2, <2>3 DEF OriginInv, KilledRest, VolatileGuarded, At
    <2>7. Reserved(w)'
      <3>1. state.lastPermit \in Nat
        BY DEF TypeOK, OriginState
      <3> QED BY <1>1, <1>2, <2>2, <2>4, <3>1 DEF Reserved, At, Reconciled
    <2>8. \A v \in Worker : Reserved(v)'
      BY <1>6, <1>8, <2>1, <2>7, OthersReserved
    <2>9. (resetting => KillSwitchOn /\ ResumeReached)'
      BY <1>1, <1>3 DEF OriginInv, KillSwitchOn
    <2>10. CooldownKept' /\ (origin.last <= clock)' /\ (state.known \/ state.lastPermit = 0)'
      BY <1>1 DEF OriginInv, CooldownKept
    <2> QED BY <2>5, <2>6, <2>8, <2>9, <2>10 DEF OriginInv
  <1> QED BY <1>5, <1>7, <1>8 DEF AcquireFence

\* The fence is given back, or stays.
LEMMA ReleaseFenceKeeps ==
    ASSUME TypeOK, TypeOK', OriginInv, NEW w \in Worker, ReleaseFence(w)
    PROVE  OriginInv'
  <1>1. /\ InTurn(w) /\ ~At(w, "started")
        /\ worker[w] \in Memory /\ worker \in [Worker -> Memory] /\ faults \in Nat
        /\ UNCHANGED <<clock, state, marker, resetting, origin, crashes>>
    BY DEF ReleaseFence, At, InTurn, Inside, Step, TypeOK
  <1>2. /\ fence # 0 /\ fence = worker[w].token
        /\ ~resetting /\ ~worker[w].killed
        /\ \A v \in Worker : v # w => ~InTurn(v) /\ ~worker[v].volatile
    BY <1>1, Alone1
  <1>3. PICK step \in {"idle", "due"} : Remember(w, Rested(w, step))
    BY DEF ReleaseFence
  <1>4. /\ worker'[w] = Rested(w, step)
        /\ \A v \in Worker : v # w => worker'[v] = worker[v]
    BY <1>3, <1>1 DEF Remember
  <1>5. /\ worker'[w].step = step /\ worker'[w].lastStart = 0
        /\ worker'[w].retained = FALSE
        /\ worker'[w].killed = worker[w].killed
        /\ worker'[w].volatile = worker[w].volatile
    BY <1>4 DEF Rested, Started
  <1>6. ~InTurn(w)'
    BY <1>5 DEF InTurn, Inside
  <1>7. worker[w].volatile => worker[w].retained
    BY <1>1 DEF OriginInv, VolatileGuarded
  <1>8. ~worker[w].retained => Reconciled(w)
    BY <1>1 DEF OriginInv, Reserved
  <1>9. worker[w].retained => faults > 0
    BY DEF OriginInv, Reserved
  <1>10. CASE /\ ~worker[w].retained
              /\ \/ fence' = 0 /\ UNCHANGED faults
                 \/ Fault /\ fence' \in {fence, 0}
    <2>1. (fence' = 0 /\ UNCHANGED faults) \/ (faults' = faults + 1 /\ fence' \in {fence, 0})
      BY <1>10 DEF Fault
    <2>2. faults' > 0 \/ fence' = 0
      BY <1>1, <2>1
    <2>3. faults' \in {faults, faults + 1}
      BY <2>1
    <2>4. ~worker'[w].volatile
      BY <1>5, <1>7, <1>10
    <2> QED BY <1>1, <1>2, <1>4, <1>5, <1>6, <2>2, <2>3, <2>4, OutsideStep
  <1>11. CASE /\ worker[w].retained
              /\ UNCHANGED <<fence, faults>>
    <2>1. faults' > 0
      BY <1>9, <1>11
    <2> QED BY <1>1, <1>2, <1>4, <1>5, <1>6, <1>11, <2>1, OutsideStep
  <1> QED BY <1>2, <1>8, <1>10, <1>11 DEF ReleaseFence

\* A process ends and starts again.
LEMMA RecreateKeeps ==
    ASSUME TypeOK, TypeOK', OriginInv, NEW w \in Worker, Recreate(w)
    PROVE  OriginInv'
  <1>1. /\ worker \in [Worker -> Memory] /\ faults \in Nat /\ crashes \in Nat
        /\ UNCHANGED <<clock, fence, state, marker, origin, faults>>
        /\ ~resetting'
    BY DEF Recreate, TypeOK
  <1>2. /\ worker'[w] = Started(killSwitch)
        /\ \A v \in Worker : v # w => worker'[v] = worker[v]
    BY <1>1 DEF Recreate, Remember
  <1>3. /\ worker'[w].step = "idle" /\ worker'[w].lastStart = 0
        /\ worker'[w].retained = FALSE /\ worker'[w].volatile = FALSE
    BY <1>2 DEF Started
  <1>4. ~InTurn(w)'
    BY <1>3 DEF InTurn, Inside
  <1>5. crashes' > 0 \/ (UNCHANGED crashes /\ ~InTurn(w))
    BY <1>1 DEF Recreate, InTurn
  <1> QED BY <1>1, <1>2, <1>3, <1>4, <1>5, OutsideStep DEF At

\* Time passes.
LEMMA TickKeeps ==
    ASSUME TypeOK, OriginInv, Tick
    PROVE  OriginInv'
  <1>1. /\ clock \in Nat /\ clock' = clock + 1
        /\ UNCHANGED <<fence, state, marker, worker, resetting, origin, faults, crashes>>
    BY DEF Tick, TypeOK
  <1>2. /\ FenceExclusive' /\ Alone' /\ KilledRest' /\ VolatileGuarded' /\ FenceReturned'
        /\ (state.known \/ state.lastPermit = 0)'
    BY <1>1 DEF OriginInv, FenceExclusive, Alone, KilledRest, VolatileGuarded, FenceReturned,
                InTurn, At
  <1>3. ASSUME NEW w \in Worker
        PROVE  Reserved(w)'
    <2>1. /\ worker[w].reserved \in Nat /\ worker[w].lastStart \in Nat /\ origin.promised \in Nat
      BY DEF TypeOK, Memory, Origin
    <2>2. Reserved(w)
      BY DEF OriginInv
    <2> QED BY <1>1, <2>1, <2>2 DEF Reserved, At, InTurn, Reconciled
  <1>4. (origin.last <= clock)' /\ CooldownKept'
    <2>1. origin.last \in Nat /\ origin.promised \in Nat
      BY DEF TypeOK, Origin
    <2> QED BY <1>1, <2>1 DEF OriginInv, CooldownKept
  <1>5. (resetting => KillSwitchOn /\ ResumeReached)'
    <2>1. marker.resumeNotBefore \in Nat
      BY DEF TypeOK, Marker
    <2> QED BY <1>1, <2>1 DEF OriginInv, KillSwitchOn, ResumeReached
  <1> QED BY <1>2, <1>3, <1>4, <1>5 DEF OriginInv

\* With every worker killed nobody is in a turn and no stop is volatile.
LEMMA KilledMeansRest ==
    ASSUME OriginInv, KillSwitchOn, NEW w \in Worker
    PROVE  ~InTurn(w) /\ ~worker[w].volatile
  BY DEF OriginInv, KilledRest, KillSwitchOn, At, InTurn, Inside

\* The reset clears the fence and keeps the boundaries of the state file.
LEMMA ResetFenceKeeps ==
    ASSUME TypeOK, OriginInv, ResetFence
    PROVE  OriginInv'
  <1>1. /\ UNCHANGED <<clock, marker, worker, origin, faults, crashes>>
        /\ KillSwitchOn /\ ResumeReached
        /\ fence' \in {fence, 0}
    BY DEF ResetFence
  <1>2. \A w \in Worker : ~InTurn(w) /\ ~worker[w].volatile
    BY <1>1, KilledMeansRest
  <1>3. /\ FenceExclusive' /\ Alone' /\ KilledRest' /\ VolatileGuarded'
    BY <1>1, <1>2 DEF OriginInv, FenceExclusive, Alone, KilledRest, VolatileGuarded,
                      InTurn, At
  <1>4. FenceReturned'
    BY <1>1 DEF OriginInv, FenceReturned, InTurn
  <1>5. \A w \in Worker : Reserved(w)'
    BY <1>1, <1>2, OthersReserved
  <1>6. (resetting => KillSwitchOn /\ ResumeReached)'
    BY <1>1 DEF KillSwitchOn, ResumeReached
  <1>7. /\ state'.known /\ state'.notBefore = state.notBefore
        /\ state'.lastPermit = Larger(state.lastPermit, clock)
    BY DEF ResetFence, ClearedState
  <1>8. CooldownKept'
    <2>1. /\ state.lastPermit \in Nat /\ state.notBefore \in Nat /\ clock \in Nat
          /\ origin.promised \in Nat
      BY DEF TypeOK, OriginState, Origin
    <2> QED BY <1>1, <1>7, <2>1 DEF OriginInv, CooldownKept, Larger
  <1>9. (origin.last <= clock)' /\ (state.known \/ state.lastPermit = 0)'
    BY <1>1, <1>7 DEF OriginInv
  <1> QED BY <1>3, <1>4, <1>5, <1>6, <1>8, <1>9 DEF OriginInv

\* The marker goes when its time has come.
LEMMA ResetMarkerKeeps ==
    ASSUME TypeOK, OriginInv, ResetMarker
    PROVE  OriginInv'
  <1>1. /\ UNCHANGED <<clock, fence, state, worker, origin, faults, crashes>>
        /\ ~resetting'
        /\ KillSwitchOn /\ ResumeReached
    BY DEF ResetMarker, OriginInv
  <1>2. \A w \in Worker : ~InTurn(w) /\ ~worker[w].volatile
    BY <1>1, KilledMeansRest
  <1>3. /\ FenceExclusive' /\ Alone' /\ KilledRest' /\ VolatileGuarded' /\ FenceReturned'
    BY <1>1, <1>2 DEF OriginInv, FenceExclusive, Alone, KilledRest, VolatileGuarded,
                      FenceReturned, InTurn, At
  <1>4. \A w \in Worker : Reserved(w)'
    BY <1>1, <1>2, OthersReserved
  <1>5. CooldownKept'
    <2>1. /\ marker.resumeNotBefore \in Nat /\ origin.promised \in Nat /\ clock \in Nat
      BY DEF TypeOK, Marker, Origin
    <2> QED BY <1>1, <2>1 DEF OriginInv, CooldownKept, ResumeReached
  <1>6. (origin.last <= clock)' /\ (state.known \/ state.lastPermit = 0)'
    BY <1>1 DEF OriginInv
  <1> QED BY <1>1, <1>3, <1>4, <1>5, <1>6 DEF OriginInv

\* A step that leaves everything the invariant speaks of.
LEMMA UnchangedKeeps ==
    ASSUME OriginInv,
           UNCHANGED <<clock, fence, state, marker, worker, resetting, origin, faults, crashes>>
    PROVE  OriginInv'
  <1>1. /\ FenceExclusive' /\ Alone' /\ KilledRest' /\ VolatileGuarded' /\ FenceReturned'
    BY DEF OriginInv, FenceExclusive, Alone, KilledRest, VolatileGuarded, FenceReturned,
           InTurn, At
  <1>2. \A w \in Worker : Reserved(w)'
    BY DEF OriginInv, Reserved, At, InTurn, Reconciled
  <1>3. /\ CooldownKept' /\ (origin.last <= clock)' /\ (state.known \/ state.lastPermit = 0)'
        /\ (resetting => KillSwitchOn /\ ResumeReached)'
    BY DEF OriginInv, CooldownKept, KillSwitchOn, ResumeReached
  <1> QED BY <1>1, <1>2, <1>3 DEF OriginInv

\* Every step keeps the invariant.
LEMMA StepKeeps ==
    ASSUME TypeOK, TypeOK', OriginInv, [Next]_vars
    PROVE  OriginInv'
  <1>1. CASE Tick
    BY <1>1, TickKeeps
  <1>2. CASE SetKillSwitch \/ UNCHANGED vars
    BY <1>2, UnchangedKeeps DEF SetKillSwitch, vars
  <1>3. CASE ResetFence
    BY <1>3, ResetFenceKeeps
  <1>4. CASE ResetMarker
    BY <1>4, ResetMarkerKeeps
  <1>5. CASE \E w \in Worker : WorkerStep(w)
    <2>1. PICK w \in Worker : WorkerStep(w)
      BY <1>5
    <2> QED BY <2>1, BeginCycleKeeps, AcquireFenceKeeps, ReserveKeeps, CheckInterlockKeeps,
               StartRequestKeeps, ReconcileKeeps, RespondKeeps, EndTurnKeeps, DeferUntilKeeps,
               EngageKeeps, ReleaseFenceKeeps DEF WorkerStep
  <1>6. CASE \E w \in Worker : Recreate(w)
    BY <1>6, RecreateKeeps
  <1> QED BY <1>1, <1>2, <1>3, <1>4, <1>5, <1>6 DEF Next

\* The inductive invariant of the fence, the permits, the cooldown and the stop.
THEOREM OriginInvariant == Spec => []OriginInv
  <1>1. Init => OriginInv
    <2> SUFFICES ASSUME Init PROVE OriginInv
      OBVIOUS
    <2>1. /\ \A w \in Worker : worker[w] = Started(FALSE)
          /\ clock = 0 /\ fence = 0 /\ origin.last = 0 /\ origin.promised = 0
          /\ state.lastPermit = 0 /\ ~resetting
      BY DEF Init
    <2>2. ASSUME NEW w \in Worker
          PROVE  /\ worker[w].step = "idle" /\ ~worker[w].killed
                 /\ ~worker[w].volatile /\ ~worker[w].retained
                 /\ worker[w].lastStart = 0
      <3>1. /\ worker[w].step = "idle" /\ worker[w].killed = FALSE
            /\ worker[w].volatile = FALSE /\ worker[w].retained = FALSE
            /\ worker[w].lastStart = 0
        BY <2>1 DEF Started
      <3> QED BY <3>1
    <2>3. \A w \in Worker : ~InTurn(w)
      BY <2>2 DEF InTurn, Inside
    <2>4. /\ FenceExclusive /\ Alone /\ KilledRest /\ VolatileGuarded /\ FenceReturned
      BY <2>1, <2>2, <2>3 DEF FenceExclusive, Alone, KilledRest, VolatileGuarded, FenceReturned,
                              InTurn
    <2>5. \A w \in Worker : Reserved(w)
      BY <2>2, <2>3 DEF Reserved, At
    <2>6. CooldownKept
      BY <2>1 DEF CooldownKept
    <2>7. origin.last <= clock /\ (state.known \/ state.lastPermit = 0)
      BY <2>1
    <2>8. resetting => KillSwitchOn /\ ResumeReached
      BY <2>1
    <2> QED BY <2>4, <2>5, <2>6, <2>7, <2>8 DEF OriginInv
  <1>2. TypeOK /\ TypeOK' /\ OriginInv /\ [Next]_vars => OriginInv'
    BY StepKeeps
  <1> QED BY <1>1, <1>2, TypeCorrect, PTL DEF Spec

\* At most one worker is inside a turn, and it owns the fence file.
THEOREM FenceIsExclusive == Spec => []FenceExclusive
  <1>1. OriginInv => FenceExclusive
    BY DEF OriginInv
  <1> QED BY <1>1, OriginInvariant, PTL

\* Without a fault and a death inside a turn the fence comes back.
THEOREM FenceComesBack == Spec => []FenceReturned
  <1>1. OriginInv => FenceReturned
    BY DEF OriginInv
  <1> QED BY <1>1, OriginInvariant, PTL

\* Only StartRequest sends.
LEMMA OnlyStartRequest ==
    ASSUME TypeOK, [Next]_vars, Requests
    PROVE  \E w \in Worker : StartRequest(w)
  <1>1. /\ origin \in Origin /\ origin.requests \in Nat
        /\ origin'.requests # origin.requests
    BY DEF Requests, TypeOK, Origin
  <1>2. \A n : Promise(n).requests = origin.requests
    BY <1>1 DEF Promise, Origin
  <1>3. ~(UNCHANGED origin) /\ \A n : origin' # Promise(n)
    BY <1>1, <1>2
  <1>4. \A w \in Worker : ~DeferUntil(w) /\ ~Engage(w)
    BY <1>3 DEF DeferUntil, Engage
  <1> QED BY <1>3, <1>4
     DEF Next, vars, Tick, SetKillSwitch, ResetFence, ResetMarker, Recreate, WorkerStep,
         BeginCycle, AcquireFence, Reserve, CheckInterlock, Reconcile, Respond, EndTurn,
         ReleaseFence

\* Requests of all processes are at least Spacing apart.
THEOREM RequestsAreSpaced == Spec => SpacedRequests
  <1>1. TypeOK /\ OriginInv /\ [Next]_vars
          => (Requests /\ origin.requests > 0 => origin.last + Spacing <= clock)
    BY OnlyStartRequest, CheckedMeansPast DEF StartRequest
  <1> QED BY <1>1, TypeCorrect, OriginInvariant, PTL DEF Spec, SpacedRequests

\* No request starts before a cooldown that was written down.
THEOREM CooldownIsKept == Spec => CooldownHonored
  <1>1. TypeOK /\ OriginInv /\ [Next]_vars => (Requests => origin.promised <= clock)
    BY OnlyStartRequest, CheckedMeansPast DEF StartRequest
  <1> QED BY <1>1, TypeCorrect, OriginInvariant, PTL DEF Spec, CooldownHonored

\* No request starts while a stop stands, on disk or in memory.
THEOREM StopIsObeyed == Spec => NoRequestWhileStopped
  <1>1. ASSUME TypeOK, OriginInv, NEW w \in Worker, StartRequest(w)
        PROVE  marker = NoMarker /\ \A v \in Worker : ~worker[v].volatile
    <2>1. At(w, "checked") /\ InTurn(w) /\ ~At(w, "leaving")
      BY <1>1 DEF StartRequest, At, InTurn, Inside, Step
    <2> QED BY <1>1, <2>1, CheckedMeansPast, Alone1
  <1>2. TypeOK /\ OriginInv /\ [Next]_vars
          => (Requests => marker = NoMarker /\ \A w \in Worker : ~worker[w].volatile)
    BY <1>1, OnlyStartRequest
  <1> QED BY <1>2, TypeCorrect, OriginInvariant, PTL DEF Spec, NoRequestWhileStopped

\* No write moves the last permit back.
THEOREM PermitsAdvance == Spec => PermitNeverMovesBack
  <1>1. ASSUME TypeOK, OriginInv, [Next]_vars
        PROVE  state.lastPermit <= state'.lastPermit
    <2>0. /\ state.lastPermit \in Nat /\ clock \in Nat
          /\ (state.known \/ state.lastPermit = 0)
      BY <1>1 DEF TypeOK, OriginState, OriginInv
    <2>1. CASE UNCHANGED state
      BY <2>0, <2>1
    <2>2. CASE ResetFence
      BY <2>0, <2>2 DEF ResetFence, ClearedState, Larger
    <2>3. CASE \E w \in Worker : Reserve(w)
      <3>1. PICK w \in Worker : Reserve(w)
        BY <2>3
      <3>2. state.lastPermit <= ReservedStart(w)
        BY <1>1, ReservedStartBound
      <3>3. state' \in {state, Permit(ReservedStart(w))}
        BY <3>1 DEF Reserve, WriteState
      <3> QED BY <2>0, <3>2, <3>3 DEF Permit
    <2>4. CASE \E w \in Worker : Reconcile(w)
      <3>1. PICK w \in Worker : Reconcile(w)
        BY <2>4
      <3>2. state.lastPermit <= worker[w].lastStart
        BY <1>1, <3>1 DEF Reconcile, OriginInv, Reserved
      <3>3. state' \in {state, Permit(worker[w].lastStart)}
        BY <3>1 DEF Reconcile, WriteState
      <3> QED BY <2>0, <3>2, <3>3 DEF Permit
    <2>5. CASE \E w \in Worker : DeferUntil(w)
      <3>1. PICK w \in Worker : DeferUntil(w)
        BY <2>5
      <3>2. state' \in {state, Deferred(w)}
        BY <3>1 DEF DeferUntil, WriteState
      <3> QED BY <2>0, <3>2 DEF Deferred
    <2> QED BY <1>1, <2>1, <2>2, <2>3, <2>4, <2>5
       DEF Next, vars, Tick, SetKillSwitch, ResetMarker, Recreate, WorkerStep, BeginCycle,
           AcquireFence, CheckInterlock, StartRequest, Respond, EndTurn, Engage, ReleaseFence
  <1> QED BY <1>1, TypeCorrect, OriginInvariant, PTL DEF Spec, PermitNeverMovesBack
===============================================================================
