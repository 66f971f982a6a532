------------------------------- MODULE WorkerLease -------------------------------
(***************************************************************************)
(* Which worker process runs the source and outbox loops, and what the     *)
(* shared readiness marker says about it: startPoller and the worker       *)
(* heartbeat of src/worker/poller.ts, the advisory lease of                *)
(* src/db/client.ts, and the verdict of src/server/worker-readiness.ts.    *)
(*                                                                         *)
(* PostgreSQL frees the lock as soon as the session that holds it is gone; *)
(* the process learns that from its lease monitor, later.  Everything a    *)
(* process remembers dies with it; the marker is a file and stays.         *)
(***************************************************************************)
EXTENDS Naturals

CONSTANTS
    Poller,       \* worker processes
    MaxErrors,    \* maxConsecutiveErrors: a loop that fails that often in a row throws
    MaxLosses,    \* bound: database sessions that break
    MaxDeaths     \* bound: processes that are killed or told to stop

ASSUME LeaseAssumption ==
    /\ MaxErrors \in Nat \ {0}
    /\ MaxLosses \in Nat /\ MaxDeaths \in Nat
    /\ "none" \notin Poller

VARIABLES
    poller,      \* [Poller -> memory of the process]
    session,     \* [Poller -> its lease session as PostgreSQL sees it]
    readiness,   \* the marker file
    losses,
    deaths

leaseVars == <<poller, session, readiness, losses, deaths>>
-------------------------------------------------------------------------------
\* leased holds the lock and has not yet taken the marker over; owner runs the
\* loops; withdrawn has cleared the marker and not yet unlocked.
Process == {"down", "standby", "leased", "owner", "withdrawn"}

\* A loop is about to start, inspects the safety stop, runs a cycle, sleeps, or
\* has returned.
Loop == {"start", "inspect", "cycle", "pause", "returned"}

\* The verdict the heartbeat object last published.
Verdict == {"null", "healthy", "unhealthy"}

\* source, outbox: sourceState and outboxState are healthy; a disabled source is
\* not.  verdict, success: what the heartbeat object remembers.  left is history:
\* how the last term of the process as owner ended.
Term == [at : Process, source : BOOLEAN, outbox : BOOLEAN, verdict : Verdict,
         success : BOOLEAN, sourceLoop : Loop, outboxLoop : Loop, monitor : Loop,
         sourceErrors : 0..MaxErrors, outboxErrors : 0..MaxErrors,
         aborted : BOOLEAN, leaseLost : BOOLEAN, failed : BOOLEAN,
         left : {"never", "orderly", "lost", "died"}]

NewTerm(at, left, loop, monitor) ==
    [at |-> at, source |-> FALSE, outbox |-> FALSE, verdict |-> "null", success |-> FALSE,
     sourceLoop |-> loop, outboxLoop |-> loop, monitor |-> monitor, sourceErrors |-> 0,
     outboxErrors |-> 0, aborted |-> FALSE, leaseLost |-> FALSE, failed |-> FALSE,
     left |-> left]

Outside(at, left) == NewTerm(at, left, "returned", "returned")

\* writer and earned are history: who wrote the marker, and whether the last
\* cycles of both its loops were healthy then.
Readiness == [present : BOOLEAN, verdict : Verdict, success : BOOLEAN,
              writer : Poller \cup {"none"}, earned : BOOLEAN]

NoReadiness == [present |-> FALSE, verdict |-> "null", success |-> FALSE,
                writer |-> "none", earned |-> FALSE]

LeaseTypeOK ==
    /\ poller \in [Poller -> Term]
    /\ session \in [Poller -> {"none", "held", "lost"}]
    /\ readiness \in Readiness
    /\ losses \in 0..MaxLosses
    /\ deaths \in 0..MaxDeaths

LeaseInit ==
    /\ poller = [w \in Poller |-> Outside("down", "never")]
    /\ session = [w \in Poller |-> "none"]
    /\ readiness = NoReadiness
    /\ losses = 0
    /\ deaths = 0

Remember(w, m) == poller' = [poller EXCEPT ![w] = m]

\* writeWorkerHeartbeat, from the memory m of worker w.
WriteMarker(w, m) ==
    readiness' = [present |-> TRUE, verdict |-> m.verdict, success |-> m.success,
                  writer |-> w, earned |-> m.source /\ m.outbox]

\* publishAggregateHealth(sourceSucceeded) after the loops' states became m's.
Publish(w, m, sourceSucceeded) ==
    LET published == [m EXCEPT !.verdict = IF m.source /\ m.outbox THEN "healthy"
                                           ELSE "unhealthy",
                               !.success = @ \/ sourceSucceeded]
    IN  Remember(w, published) /\ WriteMarker(w, published)
-------------------------------------------------------------------------------
StartProcess(w) ==
    /\ poller[w].at = "down"
    /\ session[w] = "none"
    /\ Remember(w, Outside("standby", poller[w].left))
    /\ UNCHANGED <<session, readiness, losses, deaths>>

\* pg_try_advisory_lock, on a session of its own.
TryAcquireWorkerAdvisoryLease(w) ==
    /\ poller[w].at = "standby"
    /\ \A v \in Poller : session[v] # "held"
    /\ session' = [session EXCEPT ![w] = "held"]
    /\ Remember(w, [poller[w] EXCEPT !.at = "leased"])
    /\ UNCHANGED <<readiness, losses, deaths>>

\* heartbeat.reset() and recordProgress(): a marker without a verdict replaces
\* the old one.
TakeOver(w) ==
    /\ poller[w].at = "leased"
    /\ LET m == NewTerm("owner", "never", "start", "start")
       IN  Remember(w, m) /\ WriteMarker(w, m)
    /\ UNCHANGED <<session, losses, deaths>>

\* Promise.allSettled([...]): each loop starts by reading the abort.
StartLoops(w) ==
    /\ poller[w].sourceLoop = "start"
    /\ LET go(step) == IF poller[w].aborted THEN "returned" ELSE step
       IN  Remember(w, [poller[w] EXCEPT !.sourceLoop = go("inspect"),
                                         !.outboxLoop = go("cycle"),
                                         !.monitor = go("pause")])
    /\ UNCHANGED <<session, readiness, losses, deaths>>

\* heartbeat.recordProgress() between the operations of a cycle, also after the
\* loop was told to stop.
RecordProgress(w) ==
    /\ "cycle" \in {poller[w].sourceLoop, poller[w].outboxLoop}
    /\ WriteMarker(w, poller[w])
    /\ readiness' # readiness
    /\ UNCHANGED <<poller, session, losses, deaths>>

\* inspectWorkerSourceDisabled answered.  A disabled source is published at once,
\* without reading the abort again, and the cycle runs either way.
BeginSourceCycle(w) ==
    /\ poller[w].sourceLoop = "inspect"
    /\ LET m == [poller[w] EXCEPT !.sourceLoop = "cycle"]
       IN  \/ Remember(w, m) /\ UNCHANGED readiness
           \/ Publish(w, [m EXCEPT !.source = FALSE], FALSE)
    /\ UNCHANGED <<session, losses, deaths>>

\* requireContactableFetchUserAgent threw, outside the loop's try: a worker that
\* started with its source disabled first checks its configuration here.
RefuseFetchConfig(w) ==
    /\ poller[w].sourceLoop = "inspect"
    /\ Remember(w, [poller[w] EXCEPT !.sourceLoop = "returned", !.failed = TRUE,
                                     !.aborted = TRUE])
    /\ UNCHANGED <<session, readiness, losses, deaths>>

\* runSourcePollCycle returned its summary.
SourceCycleEnds(w) ==
    /\ poller[w].sourceLoop = "cycle"
    /\ ~poller[w].aborted
    /\ \E healthy \in BOOLEAN :
           Publish(w, [poller[w] EXCEPT !.sourceLoop = "pause", !.sourceErrors = 0,
                                        !.source = healthy], healthy)
    /\ UNCHANGED <<session, losses, deaths>>

\* It threw.  At the threshold the loop throws too, and its guard aborts the
\* others.  The abort may also come after the catch has read it, while the safety
\* stop is inspected.
SourceCycleFails(w) ==
    /\ poller[w].sourceLoop = "cycle"
    /\ LET over == poller[w].sourceErrors + 1 >= MaxErrors
       IN  Publish(w, [poller[w] EXCEPT !.sourceLoop = IF over THEN "returned" ELSE "pause",
                                        !.sourceErrors = @ + 1, !.source = FALSE,
                                        !.failed = @ \/ over, !.aborted = @ \/ over], FALSE)
    /\ UNCHANGED <<session, losses, deaths>>

\* The same for runOutboxDispatchCycle, which never vouches for the source.
OutboxCycleEnds(w) ==
    /\ poller[w].outboxLoop = "cycle"
    /\ ~poller[w].aborted
    /\ \E healthy \in BOOLEAN :
           Publish(w, [poller[w] EXCEPT !.outboxLoop = "pause", !.outboxErrors = 0,
                                        !.outbox = healthy], FALSE)
    /\ UNCHANGED <<session, losses, deaths>>

OutboxCycleFails(w) ==
    /\ poller[w].outboxLoop = "cycle"
    /\ ~poller[w].aborted
    /\ LET over == poller[w].outboxErrors + 1 >= MaxErrors
       IN  Publish(w, [poller[w] EXCEPT !.outboxLoop = IF over THEN "returned" ELSE "pause",
                                        !.outboxErrors = @ + 1, !.outbox = FALSE,
                                        !.failed = @ \/ over, !.aborted = @ \/ over], FALSE)
    /\ UNCHANGED <<session, losses, deaths>>

\* A cycle that ends after the abort just returns.
SourceLoopReturns(w) ==
    /\ poller[w].sourceLoop = "cycle"
    /\ poller[w].aborted
    /\ Remember(w, [poller[w] EXCEPT !.sourceLoop = "returned"])
    /\ UNCHANGED <<session, readiness, losses, deaths>>

OutboxLoopReturns(w) ==
    /\ poller[w].outboxLoop = "cycle"
    /\ poller[w].aborted
    /\ Remember(w, [poller[w] EXCEPT !.outboxLoop = "returned"])
    /\ UNCHANGED <<session, readiness, losses, deaths>>

\* The pause of a loop ends, by its timer or by the abort: it refreshes the
\* marker and then reads the abort.
SourceWakes(w) ==
    /\ poller[w].sourceLoop = "pause"
    /\ Remember(w, [poller[w] EXCEPT !.sourceLoop = IF poller[w].aborted THEN "returned"
                                                    ELSE "inspect"])
    /\ WriteMarker(w, poller[w])
    /\ UNCHANGED <<session, losses, deaths>>

OutboxWakes(w) ==
    /\ poller[w].outboxLoop = "pause"
    /\ Remember(w, [poller[w] EXCEPT !.outboxLoop = IF poller[w].aborted THEN "returned"
                                                    ELSE "cycle"])
    /\ WriteMarker(w, poller[w])
    /\ UNCHANGED <<session, losses, deaths>>

\* Mutant: the monitor waits for the loss of the lease, whatever ended the owner.
X_MonitorReturns(w) ==
    /\ poller[w].monitor = "pause"
    /\ poller[w].aborted
    /\ poller[w].leaseLost
    /\ Remember(w, [poller[w] EXCEPT !.monitor = "returned"])
    /\ UNCHANGED <<session, readiness, losses, deaths>>

MonitorReturns(w) ==
    /\ poller[w].monitor = "pause"
    /\ poller[w].aborted
    /\ Remember(w, [poller[w] EXCEPT !.monitor = "returned"])
    /\ UNCHANGED <<session, readiness, losses, deaths>>

\* One round of runLeaseMonitor: it reads the abort, then probes the session; a
\* lost session aborts the owner.
MonitorFindsLoss(w) ==
    /\ poller[w].monitor = "pause"
    /\ ~poller[w].aborted
    /\ session[w] = "lost"
    /\ Remember(w, [poller[w] EXCEPT !.monitor = "returned", !.leaseLost = TRUE,
                                     !.aborted = TRUE])
    /\ UNCHANGED <<session, readiness, losses, deaths>>

MonitorFindsLease(w) ==
    /\ poller[w].monitor = "pause"
    /\ ~poller[w].aborted
    /\ session[w] = "held"
    /\ WriteMarker(w, poller[w])
    /\ readiness' # readiness
    /\ UNCHANGED <<poller, session, losses, deaths>>

\* Mutant: the marker is left to the next owner.
X_WithdrawReadiness(w) ==
    /\ poller[w].at = "owner"
    /\ {poller[w].sourceLoop, poller[w].outboxLoop, poller[w].monitor} = {"returned"}
    /\ Remember(w, [poller[w] EXCEPT !.at = "withdrawn"])
    /\ UNCHANGED <<session, readiness, losses, deaths>>

\* Every loop has returned.  Unless the lease is known to be lost, the marker is
\* withdrawn before the lock is given back.
WithdrawReadiness(w) ==
    /\ poller[w].at = "owner"
    /\ {poller[w].sourceLoop, poller[w].outboxLoop, poller[w].monitor} = {"returned"}
    /\ Remember(w, [poller[w] EXCEPT !.at = "withdrawn"])
    /\ readiness' = IF poller[w].leaseLost THEN readiness ELSE NoReadiness
    /\ UNCHANGED <<session, losses, deaths>>

Ending(m) == IF m.leaseLost THEN "lost" ELSE "orderly"

\* lease.release().  A loop that threw ends the process, the signal ends it too,
\* and a worker that only lost its lease stands by again.
ReleaseLease(w) ==
    /\ poller[w].at = "withdrawn"
    /\ session' = [session EXCEPT ![w] = "none"]
    /\ Remember(w, Outside(IF poller[w].leaseLost /\ ~poller[w].failed THEN "standby"
                           ELSE "down", Ending(poller[w])))
    /\ UNCHANGED <<readiness, losses, deaths>>

\* SIGTERM aborts an owner through the outer signal and ends a standby.
Shutdown(w) ==
    /\ poller[w].at \in {"standby", "owner"}
    /\ ~poller[w].aborted
    /\ deaths < MaxDeaths
    /\ deaths' = deaths + 1
    /\ Remember(w, IF poller[w].at = "standby" THEN [poller[w] EXCEPT !.at = "down"]
                   ELSE [poller[w] EXCEPT !.aborted = TRUE])
    /\ UNCHANGED <<session, readiness, losses>>

\* The process dies anywhere; PostgreSQL notices its session later.
Die(w) ==
    /\ poller[w].at # "down"
    /\ deaths < MaxDeaths
    /\ deaths' = deaths + 1
    /\ Remember(w, Outside("down", CASE poller[w].at = "owner" -> "died"
                                     [] poller[w].at = "withdrawn" -> Ending(poller[w])
                                     [] OTHER -> poller[w].left))
    /\ UNCHANGED <<session, readiness, losses>>

\* External: the session breaks and PostgreSQL frees the lock.
LoseSession(w) ==
    /\ session[w] = "held"
    /\ poller[w].at # "down"
    /\ losses < MaxLosses
    /\ losses' = losses + 1
    /\ session' = [session EXCEPT ![w] = "lost"]
    /\ UNCHANGED <<poller, readiness, deaths>>

\* External: PostgreSQL closes the session of a dead client.
ReapSession(w) ==
    /\ poller[w].at = "down"
    /\ session[w] # "none"
    /\ session' = [session EXCEPT ![w] = "none"]
    /\ UNCHANGED <<poller, readiness, losses, deaths>>
-------------------------------------------------------------------------------
\* The event loop runs every loop of a live process, its timers fire, the
\* deployment restarts a process that ended, and PostgreSQL reaps sessions.
SourceLoopStep(w) == \/ BeginSourceCycle(w) \/ RefuseFetchConfig(w) \/ SourceCycleEnds(w)
                     \/ SourceCycleFails(w) \/ SourceLoopReturns(w) \/ SourceWakes(w)

OutboxLoopStep(w) == \/ OutboxCycleEnds(w) \/ OutboxCycleFails(w)
                     \/ OutboxLoopReturns(w) \/ OutboxWakes(w)

MonitorStep(w) == MonitorReturns(w) \/ MonitorFindsLoss(w) \/ MonitorFindsLease(w)

LeaseStep(w) == \/ StartProcess(w) \/ TryAcquireWorkerAdvisoryLease(w) \/ TakeOver(w)
                \/ StartLoops(w) \/ WithdrawReadiness(w) \/ ReleaseLease(w) \/ ReapSession(w)

LeaseFault(w) == Shutdown(w) \/ Die(w) \/ LoseSession(w)

LeaseNext ==
    \E w \in Poller : \/ LeaseStep(w) \/ SourceLoopStep(w) \/ OutboxLoopStep(w)
                      \/ MonitorStep(w) \/ RecordProgress(w) \/ LeaseFault(w)

LeaseSpec == LeaseInit /\ [][LeaseNext]_leaseVars
-------------------------------------------------------------------------------
\* The verdict of evaluateWorkerMarker on a fresh marker.
Ready(m) == m.present /\ m.verdict = "healthy" /\ m.success

\* A worker that answers ready has seen, in the term that wrote the marker, a
\* healthy cycle of the source and of the outbox, and no worse one since: no
\* verdict of an earlier term or of one loop alone makes it ready.
ReadyIsEarned == Ready(readiness) => readiness.earned

\* An owner that hands over in order leaves no marker of its own behind: the
\* marker is withdrawn after the last write of its loops.
HandoverWithdraws ==
    readiness.present /\ poller[readiness.writer].at \in {"down", "standby"}
        => poller[readiness.writer].left \in {"lost", "died"}

\* What the shared readiness marker of startPoller may be trusted for.
MarkerTruth == ReadyIsEarned /\ HandoverWithdraws

\* However processes die, loops fail and sessions break, there is always an owner
\* again that holds the lease and was not told to stop: startPoller never waits
\* for a loop that does not return, nor leaves the lock to a process that works
\* no more.
LeaseRetaken ==
    []<>(\E w \in Poller : /\ poller[w].at = "owner" /\ ~poller[w].aborted
                            /\ session[w] = "held")
===============================================================================
