---------------------------- MODULE WorkerLeaseProofs ----------------------------
(***************************************************************************)
(* Proofs about WorkerLease, for any number of processes, losses, deaths   *)
(* and any error threshold: its types, and that the readiness marker says  *)
(* what MarkerTruth says of it.                                            *)
(*                                                                         *)
(* Every step writes the memory of one process and at most the marker, so  *)
(* MemoryStepKeepsInv carries the invariant and an action has only to show *)
(* that the memory it leaves is Sound.                                     *)
(***************************************************************************)
EXTENDS WorkerLease, TLAPS

\* A memory the program can have: only an owner has loops, they start together, a
\* loop at its error threshold has returned, and a healthy verdict came from both.
Sound(m) ==
    /\ m \in Term
    /\ m.at # "owner" => {m.sourceLoop, m.outboxLoop, m.monitor} = {"returned"}
    /\ m.sourceLoop = "start" => m.outboxLoop = "start"
    /\ m.sourceLoop # "returned" => m.sourceErrors < MaxErrors
    /\ m.outboxLoop # "returned" => m.outboxErrors < MaxErrors
    /\ m.verdict = "healthy" => m.source /\ m.outbox

\* The writer of a marker that is still there owns the loops, knows that it lost
\* the lease, or ended its term without an orderly handover.
Accountable(m) ==
    \/ m.at = "owner"
    \/ m.at = "withdrawn" /\ m.leaseLost
    \/ m.at \in {"down", "standby", "leased"} /\ m.left \in {"lost", "died"}

MarkerInv ==
    /\ readiness.verdict = "healthy" => readiness.earned
    /\ readiness.present => readiness.writer \in Poller /\ Accountable(poller[readiness.writer])

LeaseInv ==
    /\ LeaseTypeOK
    /\ \A w \in Poller : Sound(poller[w])
    /\ MarkerInv

\* A marker written from a sound memory.
LEMMA MarkerWritten ==
    ASSUME NEW w \in Poller, NEW m, Sound(m), WriteMarker(w, m)
    PROVE  /\ readiness' \in Readiness
           /\ readiness'.writer = w
           /\ readiness'.verdict = "healthy" => readiness'.earned
  <1>1. /\ m.verdict \in Verdict /\ m.success \in BOOLEAN
        /\ m.source \in BOOLEAN /\ m.outbox \in BOOLEAN
    BY DEF Sound, Term
  <1>2. (m.source /\ m.outbox) \in BOOLEAN
    BY <1>1
  <1> DEFINE good == m.source /\ m.outbox
  <1>3. good \in BOOLEAN /\ (m.verdict = "healthy" => good)
    BY <1>2 DEF Sound
  <1>4. readiness' = [present |-> TRUE, verdict |-> m.verdict, success |-> m.success,
                      writer |-> w, earned |-> good]
    BY DEF WriteMarker
  <1> HIDE DEF good
  <1> QED BY <1>1, <1>3, <1>4 DEF Readiness

\* What a step has to show: the memory it leaves is sound; it writes the marker
\* from a sound memory and stays owner, removes it, or leaves it alone and is no
\* less accountable for it.
LEMMA MemoryStepKeepsInv ==
    ASSUME LeaseInv, NEW w \in Poller, NEW m, Sound(m), Remember(w, m),
           session' \in [Poller -> {"none", "held", "lost"}],
           losses' \in 0..MaxLosses, deaths' \in 0..MaxDeaths,
           \/ UNCHANGED readiness /\ (Accountable(poller[w]) => Accountable(m))
           \/ readiness' = NoReadiness
           \/ m.at = "owner" /\ \E n : Sound(n) /\ WriteMarker(w, n)
    PROVE  LeaseInv'
  <1>1. /\ poller' \in [Poller -> Term] /\ poller'[w] = m
        /\ \A v \in Poller \ {w} : poller'[v] = poller[v]
    BY DEF LeaseInv, LeaseTypeOK, Remember, Sound
  <1>2. \A v \in Poller : Sound(poller[v])'
    <2>1. \A v \in Poller : Sound(poller'[v])
      BY <1>1 DEF LeaseInv
    <2> QED BY <2>1 DEF Sound
  <1>3. CASE UNCHANGED readiness /\ (Accountable(poller[w]) => Accountable(m))
    BY <1>1, <1>2, <1>3 DEF LeaseInv, LeaseTypeOK, MarkerInv, Accountable
  <1>4. CASE readiness' = NoReadiness
    BY <1>1, <1>2, <1>4 DEF LeaseInv, LeaseTypeOK, MarkerInv, NoReadiness, Readiness, Verdict
  <1>5. CASE m.at = "owner" /\ \E n : Sound(n) /\ WriteMarker(w, n)
    <2>1. /\ readiness' \in Readiness /\ readiness'.writer = w
          /\ readiness'.verdict = "healthy" => readiness'.earned
      BY <1>5, MarkerWritten
    <2> QED BY <1>1, <1>2, <1>5, <2>1 DEF LeaseInv, LeaseTypeOK, MarkerInv, Accountable
  <1> QED BY <1>3, <1>4, <1>5

\* What the invariant says of the process that takes a step.
LEMMA Known ==
    ASSUME LeaseInv, NEW w \in Poller
    PROVE  /\ Sound(poller[w]) /\ poller[w] \in Term
           /\ session \in [Poller -> {"none", "held", "lost"}]
           /\ losses \in 0..MaxLosses /\ deaths \in 0..MaxDeaths
  BY DEF LeaseInv, LeaseTypeOK, Sound

\* A process outside its loops remembers nothing that could be unsound.
LEMMA OutsideSound ==
    ASSUME NEW at \in Process \ {"owner"}, NEW left \in {"never", "orderly", "lost", "died"}
    PROVE  /\ Sound(Outside(at, left))
           /\ Outside(at, left).at = at /\ Outside(at, left).left = left
  BY LeaseAssumption DEF Sound, Outside, NewTerm, Term, Verdict, Loop

\* Publish: the verdict is drawn from the two states it is published with.
LEMMA PublishKeepsInv ==
    ASSUME LeaseInv, NEW w \in Poller, NEW m \in Term, m.at = "owner",
           m.sourceLoop # "start",
           m.sourceLoop # "returned" => m.sourceErrors < MaxErrors,
           m.outboxLoop # "returned" => m.outboxErrors < MaxErrors,
           NEW s \in BOOLEAN, Publish(w, m, s), UNCHANGED <<session, losses, deaths>>
    PROVE  LeaseInv'
  <1> DEFINE verdict == IF m.source /\ m.outbox THEN "healthy" ELSE "unhealthy"
             success == m.success \/ s
             n == [m EXCEPT !.verdict = verdict, !.success = success]
  <1>1. m.success \in BOOLEAN /\ m.source \in BOOLEAN /\ m.outbox \in BOOLEAN
    BY DEF Term
  <1>2. verdict \in Verdict /\ (verdict = "healthy" => m.source /\ m.outbox) /\ success \in BOOLEAN
    BY <1>1 DEF Verdict
  <1>3. Remember(w, n) /\ WriteMarker(w, n)
    BY DEF Publish
  <1> HIDE DEF verdict, success
  <1>4. Sound(n) /\ n.at = "owner"
    BY <1>2 DEF Sound, Term
  <1>5. \E k : Sound(k) /\ WriteMarker(w, k)
    BY <1>3, <1>4
  <1> HIDE DEF n
  <1> QED BY <1>3, <1>4, <1>5, Known, MemoryStepKeepsInv

\* A process that has a loop under way is an owner.
LEMMA LoopMeansOwner ==
    ASSUME LeaseInv, NEW w \in Poller,
           \/ poller[w].sourceLoop # "returned" \/ poller[w].outboxLoop # "returned"
           \/ poller[w].monitor # "returned"
    PROVE  poller[w].at = "owner"
  <1>1. Sound(poller[w])
    BY Known
  <1> QED BY <1>1 DEF Sound

\* A step that leaves a sound owner behind, and the marker alone.
LEMMA OwnerStepKeepsInv ==
    ASSUME LeaseInv, NEW w \in Poller, NEW m, Sound(m), m.at = "owner", Remember(w, m),
           UNCHANGED <<session, readiness, losses>>, deaths' \in 0..MaxDeaths
    PROVE  LeaseInv'
  <1>1. Accountable(m)
    BY DEF Accountable
  <1> QED BY <1>1, Known, MemoryStepKeepsInv

\* A worker writes its marker and keeps its memory.
LEMMA MarkerStepKeepsInv ==
    ASSUME LeaseInv, NEW w \in Poller, poller[w].at = "owner", WriteMarker(w, poller[w]),
           UNCHANGED <<poller, session, losses, deaths>>
    PROVE  LeaseInv'
  <1>1. Sound(poller[w]) /\ Remember(w, poller[w])
    BY Known DEF Remember, LeaseInv, LeaseTypeOK
  <1>2. \E k : Sound(k) /\ WriteMarker(w, k)
    BY <1>1
  <1> QED BY <1>1, <1>2, Known, MemoryStepKeepsInv

\* The life of a term, from the start of the process to the return of the lock.
LEMMA LeaseStepKeepsInv ==
    ASSUME LeaseInv, NEW w \in Poller, LeaseStep(w)
    PROVE  LeaseInv'
  <1> USE Known
  <1>1. CASE StartProcess(w)
    <2>1. poller[w].left \in {"never", "orderly", "lost", "died"} /\ poller[w].at = "down"
      BY <1>1 DEF StartProcess, Term
    <2> DEFINE m == Outside("standby", poller[w].left)
    <2>2. Sound(m) /\ m.at = "standby" /\ m.left = poller[w].left
      BY <2>1, OutsideSound DEF Process
    <2>3. Accountable(poller[w]) => Accountable(m)
      BY <2>1, <2>2 DEF Accountable
    <2> HIDE DEF m
    <2> QED BY <1>1, <2>2, <2>3, MemoryStepKeepsInv DEF StartProcess, m
  <1>2. CASE TryAcquireWorkerAdvisoryLease(w)
    <2> DEFINE m == [poller[w] EXCEPT !.at = "leased"]
    <2>1. Sound(m) /\ (Accountable(poller[w]) => Accountable(m))
      BY <1>2 DEF TryAcquireWorkerAdvisoryLease, Sound, Term, Accountable, Process
    <2>2. session' \in [Poller -> {"none", "held", "lost"}]
      BY <1>2 DEF TryAcquireWorkerAdvisoryLease
    <2> HIDE DEF m
    <2> QED BY <1>2, <2>1, <2>2, MemoryStepKeepsInv DEF TryAcquireWorkerAdvisoryLease, m
  <1>3. CASE TakeOver(w)
    <2> DEFINE m == NewTerm("owner", "never", "start", "start")
    <2>1. Sound(m) /\ m.at = "owner"
      BY LeaseAssumption DEF Sound, NewTerm, Term, Process, Verdict, Loop
    <2>2. Remember(w, m) /\ WriteMarker(w, m) /\ UNCHANGED <<session, losses, deaths>>
      BY <1>3 DEF TakeOver
    <2> HIDE DEF m
    <2>3. \E k : Sound(k) /\ WriteMarker(w, k)
      BY <2>1, <2>2
    <2> QED BY <2>1, <2>2, <2>3, MemoryStepKeepsInv
  <1>4. CASE StartLoops(w)
    <2>1. poller[w].at = "owner"
      BY <1>4, LoopMeansOwner DEF StartLoops
    <2>2. poller[w].sourceErrors < MaxErrors /\ poller[w].outboxErrors < MaxErrors
      BY <1>4 DEF StartLoops, Sound
    <2>3. PICK a \in {"returned", "inspect"}, b \in {"returned", "cycle"},
               c \in {"returned", "pause"} :
              Remember(w, [poller[w] EXCEPT !.sourceLoop = a, !.outboxLoop = b, !.monitor = c])
      BY <1>4 DEF StartLoops
    <2> DEFINE m == [poller[w] EXCEPT !.sourceLoop = a, !.outboxLoop = b, !.monitor = c]
    <2>4. Sound(m) /\ m.at = "owner"
      BY <2>1, <2>2 DEF Sound, Term, Loop
    <2> HIDE DEF m
    <2> QED BY <1>4, <2>3, <2>4, OwnerStepKeepsInv DEF StartLoops, m
  <1>5. CASE WithdrawReadiness(w)
    <2> DEFINE m == [poller[w] EXCEPT !.at = "withdrawn"]
    <2>1. Sound(m) /\ (poller[w].leaseLost => Accountable(m))
      BY <1>5 DEF WithdrawReadiness, Sound, Term, Accountable, Process
    <2> HIDE DEF m
    <2> QED BY <1>5, <2>1, MemoryStepKeepsInv DEF WithdrawReadiness, m
  <1>6. CASE ReleaseLease(w)
    <2> DEFINE at == IF poller[w].leaseLost /\ ~poller[w].failed THEN "standby" ELSE "down"
               m == Outside(at, Ending(poller[w]))
    <2>1. Sound(m) /\ m.at \in {"standby", "down"} /\ m.left = Ending(poller[w])
      BY OutsideSound DEF Process, Ending
    <2>2. Accountable(poller[w]) => Accountable(m)
      BY <1>6, <2>1 DEF ReleaseLease, Accountable, Ending
    <2>3. session' \in [Poller -> {"none", "held", "lost"}]
      BY <1>6 DEF ReleaseLease
    <2> HIDE DEF m
    <2> QED BY <1>6, <2>1, <2>2, <2>3, MemoryStepKeepsInv DEF ReleaseLease, m
  <1>7. CASE ReapSession(w)
    BY <1>7 DEF ReapSession, LeaseInv, LeaseTypeOK, MarkerInv, Sound, Accountable
  <1> QED BY <1>1, <1>2, <1>3, <1>4, <1>5, <1>6, <1>7 DEF LeaseStep

\* The memory a failed cycle leaves, for each of the two loops.
LEMMA FailedCycleTypes ==
    ASSUME NEW p \in Term, NEW loop \in {"returned", "pause"}, NEW errors \in 0..MaxErrors,
           NEW failed \in BOOLEAN, NEW aborted \in BOOLEAN
    PROVE  /\ [p EXCEPT !.sourceLoop = loop, !.sourceErrors = errors, !.source = FALSE,
                        !.failed = failed, !.aborted = aborted] \in Term
           /\ [p EXCEPT !.outboxLoop = loop, !.outboxErrors = errors, !.outbox = FALSE,
                        !.failed = failed, !.aborted = aborted] \in Term
  <1> DEFINE s == [p EXCEPT !.sourceLoop = loop, !.sourceErrors = errors, !.source = FALSE]
             o == [p EXCEPT !.outboxLoop = loop, !.outboxErrors = errors, !.outbox = FALSE]
  <1>1. s \in Term /\ o \in Term
    BY DEF Term, Loop
  <1>2. \A q \in Term : [q EXCEPT !.failed = failed, !.aborted = aborted] \in Term
    BY ZenonT(30) DEF Term
  <1>3. /\ [s EXCEPT !.failed = failed, !.aborted = aborted] \in Term
        /\ [o EXCEPT !.failed = failed, !.aborted = aborted] \in Term
    BY <1>1, <1>2
  <1> QED BY <1>3

\* The loop of the source.
LEMMA SourceLoopStepKeepsInv ==
    ASSUME LeaseInv, NEW w \in Poller, SourceLoopStep(w)
    PROVE  LeaseInv'
  <1> USE Known
  <1>0. poller[w].at = "owner" /\ poller[w].sourceLoop # "returned"
    BY LoopMeansOwner
    DEF SourceLoopStep, BeginSourceCycle, RefuseFetchConfig, SourceCycleEnds, SourceCycleFails,
        SourceLoopReturns, SourceWakes
  <1>1. CASE BeginSourceCycle(w)
    <2> DEFINE m == [poller[w] EXCEPT !.sourceLoop = "cycle"]
               k == [m EXCEPT !.source = FALSE]
    <2>1. /\ Sound(m) /\ m.at = "owner"
          /\ k \in Term /\ k.at = "owner" /\ k.sourceLoop # "start"
          /\ k.sourceLoop # "returned" => k.sourceErrors < MaxErrors
          /\ k.outboxLoop # "returned" => k.outboxErrors < MaxErrors
      BY <1>0, <1>1 DEF BeginSourceCycle, Sound, Term, Loop
    <2>2. \/ Remember(w, m) /\ UNCHANGED readiness
          \/ Publish(w, k, FALSE)
      BY <1>1 DEF BeginSourceCycle
    <2>3. UNCHANGED <<session, losses, deaths>>
      BY <1>1 DEF BeginSourceCycle
    <2> HIDE DEF m, k
    <2> QED BY <2>1, <2>2, <2>3, OwnerStepKeepsInv, PublishKeepsInv
  <1>2. CASE RefuseFetchConfig(w)
    <2> DEFINE m == [poller[w] EXCEPT !.sourceLoop = "returned", !.failed = TRUE,
                                      !.aborted = TRUE]
    <2>1. Sound(m) /\ m.at = "owner"
      BY <1>0 DEF Sound, Term, Loop
    <2> HIDE DEF m
    <2> QED BY <1>2, <2>1, OwnerStepKeepsInv DEF RefuseFetchConfig, m
  <1>3. CASE SourceCycleEnds(w)
    <2>1. PICK healthy \in BOOLEAN :
              Publish(w, [poller[w] EXCEPT !.sourceLoop = "pause", !.sourceErrors = 0,
                                           !.source = healthy], healthy)
      BY <1>3 DEF SourceCycleEnds
    <2> DEFINE m == [poller[w] EXCEPT !.sourceLoop = "pause", !.sourceErrors = 0,
                                      !.source = healthy]
    <2>2. 0 \in 0..MaxErrors /\ 0 < MaxErrors
      BY LeaseAssumption
    <2>3. /\ m \in Term /\ m.at = "owner" /\ m.sourceLoop # "start" /\ m.sourceErrors < MaxErrors
          /\ m.outboxLoop # "returned" => m.outboxErrors < MaxErrors
      BY <1>0, <2>2 DEF Sound, Term, Loop
    <2> HIDE DEF m
    <2> QED BY <1>3, <2>1, <2>3, PublishKeepsInv DEF SourceCycleEnds, m
  <1>4. CASE SourceCycleFails(w)
    <2> DEFINE errors == poller[w].sourceErrors + 1
               over == errors >= MaxErrors
               loop == IF over THEN "returned" ELSE "pause"
               failed == poller[w].failed \/ over
               aborted == poller[w].aborted \/ over
               m == [poller[w] EXCEPT !.sourceLoop = loop, !.sourceErrors = errors,
                                      !.source = FALSE, !.failed = failed, !.aborted = aborted]
    <2>1. poller[w].sourceErrors \in 0..MaxErrors /\ poller[w].sourceErrors < MaxErrors
      BY <1>0 DEF Sound, Term
    <2>2. /\ errors \in 0..MaxErrors /\ over \in BOOLEAN /\ loop \in {"returned", "pause"}
          /\ loop # "returned" => errors < MaxErrors
      BY <2>1, LeaseAssumption
    <2>3. failed \in BOOLEAN /\ aborted \in BOOLEAN
      BY DEF Term
    <2>4. Publish(w, m, FALSE) /\ UNCHANGED <<session, losses, deaths>>
      BY <1>4 DEF SourceCycleFails
    <2> HIDE DEF errors, over, loop, failed, aborted
    <2>5. m \in Term
      BY <2>2, <2>3, FailedCycleTypes
    <2>6. /\ m.at = "owner" /\ m.sourceLoop # "start"
          /\ m.sourceLoop # "returned" => m.sourceErrors < MaxErrors
          /\ m.outboxLoop # "returned" => m.outboxErrors < MaxErrors
      BY <1>0, <2>2 DEF Sound, Term
    <2> HIDE DEF m
    <2> QED BY <2>4, <2>5, <2>6, PublishKeepsInv
  <1>5. CASE SourceLoopReturns(w)
    <2> DEFINE m == [poller[w] EXCEPT !.sourceLoop = "returned"]
    <2>1. Sound(m) /\ m.at = "owner"
      BY <1>0 DEF Sound, Term, Loop
    <2> HIDE DEF m
    <2> QED BY <1>5, <2>1, OwnerStepKeepsInv DEF SourceLoopReturns, m
  <1>6. CASE SourceWakes(w)
    <2>1. PICK loop \in {"returned", "inspect"} :
              Remember(w, [poller[w] EXCEPT !.sourceLoop = loop])
      BY <1>6 DEF SourceWakes
    <2> DEFINE m == [poller[w] EXCEPT !.sourceLoop = loop]
    <2>2. Sound(m) /\ m.at = "owner"
      BY <1>0 DEF Sound, Term, Loop
    <2>3. \E k : Sound(k) /\ WriteMarker(w, k)
      BY <1>6 DEF SourceWakes
    <2> HIDE DEF m
    <2> QED BY <1>6, <2>1, <2>2, <2>3, MemoryStepKeepsInv DEF SourceWakes, m
  <1> QED BY <1>1, <1>2, <1>3, <1>4, <1>5, <1>6 DEF SourceLoopStep

\* The loop of the outbox.
LEMMA OutboxLoopStepKeepsInv ==
    ASSUME LeaseInv, NEW w \in Poller, OutboxLoopStep(w)
    PROVE  LeaseInv'
  <1> USE Known
  <1>0. /\ poller[w].at = "owner" /\ poller[w].outboxLoop \notin {"returned", "start"}
        /\ poller[w].sourceLoop # "start"
    <2>1. poller[w].outboxLoop \notin {"returned", "start"}
      BY DEF OutboxLoopStep, OutboxCycleEnds, OutboxCycleFails, OutboxLoopReturns, OutboxWakes
    <2> QED BY <2>1, LoopMeansOwner DEF Sound
  <1>1. CASE OutboxCycleEnds(w)
    <2>1. PICK healthy \in BOOLEAN :
              Publish(w, [poller[w] EXCEPT !.outboxLoop = "pause", !.outboxErrors = 0,
                                           !.outbox = healthy], FALSE)
      BY <1>1 DEF OutboxCycleEnds
    <2> DEFINE m == [poller[w] EXCEPT !.outboxLoop = "pause", !.outboxErrors = 0,
                                      !.outbox = healthy]
    <2>2. 0 \in 0..MaxErrors /\ 0 < MaxErrors
      BY LeaseAssumption
    <2>3. /\ m \in Term /\ m.at = "owner" /\ m.sourceLoop # "start" /\ m.outboxErrors < MaxErrors
          /\ m.sourceLoop # "returned" => m.sourceErrors < MaxErrors
      BY <1>0, <2>2 DEF Sound, Term, Loop
    <2> HIDE DEF m
    <2> QED BY <1>1, <2>1, <2>3, PublishKeepsInv DEF OutboxCycleEnds, m
  <1>2. CASE OutboxCycleFails(w)
    <2> DEFINE errors == poller[w].outboxErrors + 1
               over == errors >= MaxErrors
               loop == IF over THEN "returned" ELSE "pause"
               failed == poller[w].failed \/ over
               aborted == poller[w].aborted \/ over
               m == [poller[w] EXCEPT !.outboxLoop = loop, !.outboxErrors = errors,
                                      !.outbox = FALSE, !.failed = failed, !.aborted = aborted]
    <2>1. poller[w].outboxErrors \in 0..MaxErrors /\ poller[w].outboxErrors < MaxErrors
      BY <1>0 DEF Sound, Term
    <2>2. /\ errors \in 0..MaxErrors /\ over \in BOOLEAN /\ loop \in {"returned", "pause"}
          /\ loop # "returned" => errors < MaxErrors
      BY <2>1, LeaseAssumption
    <2>3. failed \in BOOLEAN /\ aborted \in BOOLEAN
      BY DEF Term
    <2>4. Publish(w, m, FALSE) /\ UNCHANGED <<session, losses, deaths>>
      BY <1>2 DEF OutboxCycleFails
    <2> HIDE DEF errors, over, loop, failed, aborted
    <2>5. m \in Term
      BY <2>2, <2>3, FailedCycleTypes
    <2>6. /\ m.at = "owner" /\ m.sourceLoop # "start"
          /\ m.sourceLoop # "returned" => m.sourceErrors < MaxErrors
          /\ m.outboxLoop # "returned" => m.outboxErrors < MaxErrors
      BY <1>0, <2>2 DEF Sound, Term
    <2> HIDE DEF m
    <2> QED BY <2>4, <2>5, <2>6, PublishKeepsInv
  <1>3. CASE OutboxLoopReturns(w)
    <2> DEFINE m == [poller[w] EXCEPT !.outboxLoop = "returned"]
    <2>1. Sound(m) /\ m.at = "owner"
      BY <1>0 DEF Sound, Term, Loop
    <2> HIDE DEF m
    <2> QED BY <1>3, <2>1, OwnerStepKeepsInv DEF OutboxLoopReturns, m
  <1>4. CASE OutboxWakes(w)
    <2>1. PICK loop \in {"returned", "cycle"} :
              Remember(w, [poller[w] EXCEPT !.outboxLoop = loop])
      BY <1>4 DEF OutboxWakes
    <2> DEFINE m == [poller[w] EXCEPT !.outboxLoop = loop]
    <2>2. Sound(m) /\ m.at = "owner"
      BY <1>0 DEF Sound, Term, Loop
    <2>3. \E k : Sound(k) /\ WriteMarker(w, k)
      BY <1>4 DEF OutboxWakes
    <2> HIDE DEF m
    <2> QED BY <1>4, <2>1, <2>2, <2>3, MemoryStepKeepsInv DEF OutboxWakes, m
  <1> QED BY <1>1, <1>2, <1>3, <1>4 DEF OutboxLoopStep

\* The lease monitor, the progress of a cycle, and the faults.
LEMMA OtherStepKeepsInv ==
    ASSUME LeaseInv, NEW w \in Poller, MonitorStep(w) \/ RecordProgress(w) \/ LeaseFault(w)
    PROVE  LeaseInv'
  <1> USE Known
  <1>1. CASE MonitorReturns(w)
    <2> DEFINE m == [poller[w] EXCEPT !.monitor = "returned"]
    <2>1. Sound(m) /\ m.at = "owner"
      BY <1>1, LoopMeansOwner DEF MonitorReturns, Sound, Term, Loop
    <2> HIDE DEF m
    <2> QED BY <1>1, <2>1, OwnerStepKeepsInv DEF MonitorReturns, m
  <1>2. CASE MonitorFindsLoss(w)
    <2> DEFINE m == [poller[w] EXCEPT !.monitor = "returned", !.leaseLost = TRUE,
                                      !.aborted = TRUE]
    <2>1. Sound(m) /\ m.at = "owner"
      BY <1>2, LoopMeansOwner DEF MonitorFindsLoss, Sound, Term, Loop
    <2> HIDE DEF m
    <2> QED BY <1>2, <2>1, OwnerStepKeepsInv DEF MonitorFindsLoss, m
  <1>3. CASE MonitorFindsLease(w) \/ RecordProgress(w)
    BY <1>3, LoopMeansOwner, MarkerStepKeepsInv DEF MonitorFindsLease, RecordProgress
  <1>4. CASE Shutdown(w)
    <2>0. deaths' \in 0..MaxDeaths
      BY <1>4, LeaseAssumption DEF Shutdown
    <2>1. CASE poller[w].at = "standby"
      <3> DEFINE m == [poller[w] EXCEPT !.at = "down"]
      <3>1. Sound(m) /\ (Accountable(poller[w]) => Accountable(m))
        BY <2>1 DEF Sound, Term, Accountable, Process
      <3> HIDE DEF m
      <3> QED BY <1>4, <2>0, <2>1, <3>1, MemoryStepKeepsInv DEF Shutdown, m
    <2>2. CASE poller[w].at = "owner"
      <3> DEFINE m == [poller[w] EXCEPT !.aborted = TRUE]
      <3>1. Sound(m) /\ m.at = "owner"
        BY <2>2 DEF Sound, Term
      <3> HIDE DEF m
      <3> QED BY <1>4, <2>0, <2>2, <3>1, OwnerStepKeepsInv DEF Shutdown, m
    <2> QED BY <1>4, <2>1, <2>2 DEF Shutdown
  <1>5. CASE Die(w)
    <2>0. deaths' \in 0..MaxDeaths
      BY <1>5, LeaseAssumption DEF Die
    <2> DEFINE left == CASE poller[w].at = "owner" -> "died"
                         [] poller[w].at = "withdrawn" -> Ending(poller[w])
                         [] OTHER -> poller[w].left
               m == Outside("down", left)
    <2>1. left \in {"never", "orderly", "lost", "died"}
      BY DEF Term, Ending
    <2>2. Accountable(poller[w]) => left \in {"lost", "died"}
      BY DEF Accountable, Ending
    <2>3. Remember(w, m) /\ UNCHANGED <<session, readiness, losses>>
      BY <1>5 DEF Die
    <2> HIDE DEF left
    <2>4. Sound(m) /\ (Accountable(poller[w]) => Accountable(m))
      BY <2>1, <2>2, OutsideSound DEF Accountable, Process
    <2> HIDE DEF m
    <2> QED BY <2>0, <2>3, <2>4, MemoryStepKeepsInv
  <1>6. CASE LoseSession(w)
    <2>1. session' \in [Poller -> {"none", "held", "lost"}] /\ losses' \in 0..MaxLosses
      BY <1>6, LeaseAssumption DEF LoseSession
    <2> QED BY <1>6, <2>1 DEF LoseSession, LeaseInv, LeaseTypeOK, MarkerInv, Sound, Accountable
  <1> QED BY <1>1, <1>2, <1>3, <1>4, <1>5, <1>6 DEF MonitorStep, LeaseFault

\* The invariant of the lease.
LEMMA LeaseInvariant == LeaseSpec => []LeaseInv
  <1>1. LeaseInit => LeaseInv
    <2> SUFFICES ASSUME LeaseInit PROVE LeaseInv
      OBVIOUS
    <2>1. \A w \in Poller : Sound(poller[w]) /\ poller[w] = Outside("down", "never")
      BY OutsideSound DEF LeaseInit, Process
    <2>2. poller \in [Poller -> Term]
      BY <2>1 DEF LeaseInit, Sound
    <2>3. LeaseTypeOK /\ MarkerInv
      BY <2>2, LeaseAssumption
      DEF LeaseInit, LeaseTypeOK, MarkerInv, NoReadiness, Readiness, Verdict
    <2> QED BY <2>1, <2>3 DEF LeaseInv
  <1>2. LeaseInv /\ [LeaseNext]_leaseVars => LeaseInv'
    <2>1. CASE UNCHANGED leaseVars
      BY <2>1 DEF leaseVars, LeaseInv, LeaseTypeOK, MarkerInv, Sound, Accountable
    <2> QED BY <2>1, LeaseStepKeepsInv, SourceLoopStepKeepsInv, OutboxLoopStepKeepsInv,
               OtherStepKeepsInv DEF LeaseNext
  <1> QED BY <1>1, <1>2, PTL DEF LeaseSpec

\* Every variable keeps its type: no error counter passes its threshold.
THEOREM LeaseTypeCorrect == LeaseSpec => []LeaseTypeOK
  BY LeaseInvariant, PTL DEF LeaseInv

\* A ready marker was earned by both loops in the term that wrote it, and no
\* owner that handed over in order left its marker behind.
THEOREM MarkerIsTrue == LeaseSpec => []MarkerTruth
  <1>1. LeaseInv => MarkerTruth
    <2> SUFFICES ASSUME LeaseInv PROVE MarkerTruth
      OBVIOUS
    <2>1. ReadyIsEarned
      BY DEF LeaseInv, MarkerInv, ReadyIsEarned, Ready
    <2>2. HandoverWithdraws
      BY DEF LeaseInv, MarkerInv, Accountable, HandoverWithdraws
    <2> QED BY <2>1, <2>2 DEF MarkerTruth
  <1> QED BY <1>1, LeaseInvariant, PTL
===============================================================================
