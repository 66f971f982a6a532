------------------------------ MODULE SourceOrigin ------------------------------
(***************************************************************************)
(* How the workers share Berkeley's origin: the fence, permit and cooldown *)
(* files of src/worker/source-origin-control.ts, the durable safety stop   *)
(* of src/worker/source-safety-stop.ts, the turns of src/worker/v04.ts     *)
(* that use both, and the Operator's reset CLI.  Every file is on the one  *)
(* runtime volume; a worker's memory dies with its process.                *)
(*                                                                         *)
(* Files are replaced by rename, so a write that fails leaves the old or   *)
(* the new content.  Malformed files, which only a hand edit produces, are *)
(* left out.                                                               *)
(***************************************************************************)
EXTENDS Naturals

CONSTANTS
    Worker,      \* worker processes
    Spacing,     \* requestSpacingMs
    MaxDelay,    \* longest recovery delay of a 403 or 429
    MaxTime,     \* bound: the clock stops here
    MaxTurns,    \* bound: turns that take the fence
    MaxCrashes,  \* bound: deaths of a process inside a turn
    MaxFaults    \* bound: file operations that fail

ASSUME OriginAssumption ==
    /\ Spacing \in Nat \ {0}
    /\ MaxDelay \in Nat \ {0}
    /\ MaxTime \in Nat /\ MaxTurns \in Nat /\ MaxCrashes \in Nat /\ MaxFaults \in Nat

VARIABLES
    clock,
    fence,       \* the fence file: the ownerToken in it, 0 when there is none
    state,       \* the state file
    marker,      \* the safety-stop file
    worker,      \* [Worker -> memory of the process]
    killSwitch,  \* KILL_SWITCH of the deployment; a process reads it when it starts
    resetting,   \* the reset CLI has cleared the fence and not yet the marker
    origin,      \* external: the requests the origin got, and the cooldown it was promised
    tokens,      \* ownerTokens drawn so far
    faults,
    crashes

vars == <<clock, fence, state, marker, worker, killSwitch, resetting, origin,
          tokens, faults, crashes>>
-------------------------------------------------------------------------------
\* A missing state file is known = FALSE; notBefore 0 is null.  The stop of a
\* robots_disallow is that of source_forbidden, which stands for both.
OriginState == [known : BOOLEAN, lastPermit : Nat, notBefore : Nat]
Reason == {"none", "source_forbidden", "source_rate_limited"}
Marker == [reason : Reason, resumeNotBefore : Nat]
NoMarker == [reason |-> "none", resumeNotBefore |-> 0]

\* held owns the fence, waiting has reserved a permit, checked passed the last
\* interlock, started sent the request, inflight reconciled the permit.  ending
\* gives the fence back and may go on; leaving gives it back and ends the cycle.
Step == {"idle", "due", "held", "waiting", "checked", "started", "inflight",
         "cooling", "engaging", "ending", "leaving"}
Inside == Step \ {"idle", "due"}
Memory == [step : Step, killed : BOOLEAN, token : Nat, reserved : Nat, lastStart : Nat,
           retained : BOOLEAN, volatile : BOOLEAN,
           reason : Reason, failedAt : Nat, delay : Nat]
Started(killed) ==
    [step |-> "idle", killed |-> killed, token |-> 0, reserved |-> 0, lastStart |-> 0,
     retained |-> FALSE, volatile |-> FALSE,
     reason |-> "none", failedAt |-> 0, delay |-> 0]
Origin == [requests : Nat, last : Nat, promised : Nat]

TypeOK ==
    /\ clock \in Nat
    /\ fence \in Nat
    /\ state \in OriginState
    /\ marker \in Marker
    /\ worker \in [Worker -> Memory]
    /\ killSwitch \in BOOLEAN
    /\ resetting \in BOOLEAN
    /\ origin \in Origin
    /\ tokens \in Nat
    /\ faults \in Nat
    /\ crashes \in Nat

Larger(a, b) == IF a < b THEN b ELSE a

Init ==
    /\ clock = 0
    /\ fence = 0
    /\ state = [known |-> FALSE, lastPermit |-> 0, notBefore |-> 0]
    /\ marker = NoMarker
    /\ worker = [w \in Worker |-> Started(FALSE)]
    /\ killSwitch = FALSE
    /\ resetting = FALSE
    /\ origin = [requests |-> 0, last |-> 0, promised |-> 0]
    /\ tokens = 0
    /\ faults = 0
    /\ crashes = 0

Tick ==
    /\ clock < MaxTime
    /\ clock' = clock + 1
    /\ UNCHANGED <<fence, state, marker, worker, killSwitch, resetting, origin,
                   tokens, faults, crashes>>

Fault == faults < MaxFaults /\ faults' = faults + 1

\* writeOriginState: the return value, and what the file holds afterwards.
WriteState(new, ok) ==
    IF ok THEN state' = new /\ UNCHANGED faults
    ELSE Fault /\ state' \in {state, new}

Remember(w, memory) == worker' = [worker EXCEPT ![w] = memory]
At(w, step) == worker[w].step = step
-------------------------------------------------------------------------------
(* A worker's turns *)

\* inspect: the file decides; without one, what the process could not persist.
Stopped(w) == marker # NoMarker \/ worker[w].volatile

\* The cycle begins: kill switch and safety stop are looked at once.
BeginCycle(w) ==
    /\ At(w, "idle")
    /\ ~worker[w].killed /\ ~Stopped(w)
    /\ Remember(w, [worker[w] EXCEPT !.step = "due"])
    /\ UNCHANGED <<clock, fence, state, marker, killSwitch, resetting, origin,
                   tokens, faults, crashes>>

\* Mutant: a fence that is there is taken for a stale one.
AcquireFence_Steals(w) ==
    /\ At(w, "due") /\ tokens < MaxTurns
    /\ tokens' = tokens + 1
    /\ fence' = tokens + 1
    /\ Remember(w, [worker[w] EXCEPT !.step = "held", !.token = tokens + 1])
    /\ UNCHANGED <<clock, state, marker, killSwitch, resetting, origin, faults, crashes>>

\* acquireFence: exclusive creation; a creation that fails half way leaves a
\* fence nobody owns.  Without the fence the cycle is over.
AcquireFence(w) ==
    /\ At(w, "due") /\ tokens < MaxTurns
    /\ IF fence # 0
       THEN /\ Remember(w, [worker[w] EXCEPT !.step = "idle"])
            /\ UNCHANGED <<fence, tokens, faults>>
       ELSE /\ tokens' = tokens + 1
            /\ fence' = tokens + 1
            /\ \/ /\ Remember(w, [worker[w] EXCEPT !.step = "held", !.token = tokens + 1])
                  /\ UNCHANGED faults
               \/ Fault /\ Remember(w, [worker[w] EXCEPT !.step = "idle"])
    /\ UNCHANGED <<clock, state, marker, killSwitch, resetting, origin, crashes>>

\* Mutant: the cooldown in the state file is forgotten.
ReservedStart_NoCooldown(w) ==
    Larger(clock, Larger(state.lastPermit, worker[w].lastStart)) + Spacing
ReservedStart(w) ==
    Larger(Larger(clock, Larger(state.lastPermit, worker[w].lastStart)) + Spacing,
           state.notBefore)
\* Mutant: the file is written without its cooldown.
Permit_Legacy(at) == [known |-> TRUE, lastPermit |-> at]
Permit(at) == [known |-> TRUE, lastPermit |-> at, notBefore |-> 0]
\* runWithPermit, first half: the later of every boundary is reserved on disk
\* before the wait; the reservation consumes the cooldown.
Reserve(w) ==
    /\ At(w, "held")
    /\ \E ok \in BOOLEAN :
          /\ WriteState(Permit(ReservedStart(w)), ok)
          /\ Remember(w, IF ok
                THEN [worker[w] EXCEPT !.step = "waiting", !.reserved = ReservedStart(w)]
                ELSE [worker[w] EXCEPT !.step = "leaving", !.retained = TRUE])
    /\ UNCHANGED <<clock, fence, marker, killSwitch, resetting, origin, tokens, crashes>>

\* Mutant: the safety stop is inspected at the start of the cycle only.
CheckInterlock_Skipped(w) ==
    /\ At(w, "waiting")
    /\ clock >= worker[w].reserved
    /\ Remember(w, [worker[w] EXCEPT !.step = "checked"])
    /\ UNCHANGED <<clock, fence, state, marker, killSwitch, resetting, origin,
                   tokens, faults, crashes>>

\* beforeStart, once the reserved time has come.
CheckInterlock(w) ==
    /\ At(w, "waiting")
    /\ clock >= worker[w].reserved
    /\ Remember(w, [worker[w] EXCEPT !.step = IF Stopped(w) THEN "leaving" ELSE "checked"])
    /\ UNCHANGED <<clock, fence, state, marker, killSwitch, resetting, origin,
                   tokens, faults, crashes>>

\* The physical request.
StartRequest(w) ==
    /\ At(w, "checked")
    /\ Remember(w, [worker[w] EXCEPT !.step = "started", !.reserved = 0,
                       !.lastStart = clock])
    /\ origin' = [origin EXCEPT !.requests = @ + 1, !.last = clock]
    /\ UNCHANGED <<clock, fence, state, marker, killSwitch, resetting, tokens, faults, crashes>>

\* runWithPermit, last part: the file gets the actual start.
Reconcile(w) ==
    /\ At(w, "started")
    /\ \E ok \in BOOLEAN :
          /\ WriteState(Permit(worker[w].lastStart), ok)
          /\ Remember(w, IF ok THEN [worker[w] EXCEPT !.step = "inflight"]
                ELSE [worker[w] EXCEPT !.step = "leaving", !.retained = TRUE])
    /\ UNCHANGED <<clock, fence, marker, killSwitch, resetting, origin, tokens, crashes>>

\* The request's outcome: another request of the same turn (robots, class page,
\* redirect), the end of the turn, or a 403 or 429 with its recovery delay.
Respond(w) ==
    /\ At(w, "inflight")
    /\ \/ \E step \in {"held", "ending"} : Remember(w, [worker[w] EXCEPT !.step = step])
       \/ \E reason \in Reason \ {"none"}, delay \in 1..MaxDelay :
             Remember(w, [worker[w] EXCEPT !.step = "cooling", !.reason = reason,
                             !.failedAt = clock, !.delay = delay])
    /\ UNCHANGED <<clock, fence, state, marker, killSwitch, resetting, origin,
                   tokens, faults, crashes>>

\* A turn that needs no request, or is aborted while it waits for its permit.
EndTurn(w) ==
    /\ worker[w].step \in {"held", "waiting", "checked"}
    /\ Remember(w, [worker[w] EXCEPT !.step = "ending"])
    /\ UNCHANGED <<clock, fence, state, marker, killSwitch, resetting, origin,
                   tokens, faults, crashes>>

\* deferUntil: the cooldown is written, and never shortens a longer one.
Until(w) == Larger(clock, worker[w].failedAt + worker[w].delay)
Deferred(w) ==
    [known |-> TRUE,
     lastPermit |-> IF state.known THEN state.lastPermit ELSE clock,
     notBefore |-> Larger(state.notBefore, Until(w))]
Promise(until) == [origin EXCEPT !.promised = Larger(@, until)]
DeferUntil(w) ==
    /\ At(w, "cooling")
    /\ \E ok \in BOOLEAN :
          /\ WriteState(Deferred(w), ok)
          /\ Remember(w, IF ok THEN [worker[w] EXCEPT !.step = "engaging"]
                ELSE [worker[w] EXCEPT !.step = "engaging", !.retained = TRUE])
          /\ origin' = IF ok THEN Promise(Until(w)) ELSE origin
    /\ UNCHANGED <<clock, fence, marker, killSwitch, resetting, tokens, crashes>>

\* engage: an earlier stop stands; otherwise memory first, then the file, whose
\* failure leaves this process stopped and the fence retained.
NewMarker(w) ==
    [reason |-> worker[w].reason,
     resumeNotBefore |-> IF worker[w].reason = "source_rate_limited"
                         THEN clock + worker[w].delay ELSE 0]
\* Mutant: the fence is given back although the stop could not be persisted.
Engage_Releases(w) ==
    /\ At(w, "engaging")
    /\ IF Stopped(w)
       THEN /\ Remember(w, [worker[w] EXCEPT !.step = "leaving"])
            /\ UNCHANGED <<marker, origin, faults>>
       ELSE \/ /\ marker' = NewMarker(w)
               /\ Remember(w, [worker[w] EXCEPT !.step = "leaving"])
               /\ origin' = Promise(NewMarker(w).resumeNotBefore)
               /\ UNCHANGED faults
            \/ /\ Fault
               /\ marker' \in {marker, NewMarker(w)}
               /\ Remember(w, [worker[w] EXCEPT !.step = "leaving", !.volatile = TRUE])
               /\ UNCHANGED origin
    /\ UNCHANGED <<clock, fence, state, killSwitch, resetting, tokens, crashes>>
Engage(w) ==
    /\ At(w, "engaging")
    /\ IF Stopped(w)
       THEN /\ Remember(w, [worker[w] EXCEPT !.step = "leaving"])
            /\ UNCHANGED <<marker, origin, faults>>
       ELSE \/ /\ marker' = NewMarker(w)
               /\ Remember(w, [worker[w] EXCEPT !.step = "leaving"])
               /\ origin' = Promise(NewMarker(w).resumeNotBefore)
               /\ UNCHANGED faults
            \/ /\ Fault
               /\ marker' \in {marker, NewMarker(w)}
               /\ Remember(w, [worker[w] EXCEPT !.step = "leaving", !.volatile = TRUE,
                                  !.retained = TRUE])
               /\ UNCHANGED origin
    /\ UNCHANGED <<clock, fence, state, killSwitch, resetting, tokens, crashes>>

\* Mutant: a permit that starts exactly when it was reserved looks unreconciled.
Reconciled_Strict(w) == worker[w].lastStart < state.lastPermit
Reconciled(w) == worker[w].lastStart <= state.lastPermit
Rested(w, step) ==
    [Started(worker[w].killed) EXCEPT !.step = step, !.volatile = worker[w].volatile]
\* release: only the owner removes the fence, and not when it is retained or the
\* last start is not on disk.  The next turn of the cycle takes it anew; a release
\* that throws ends the cycle.
ReleaseFence(w) ==
    /\ worker[w].step \in {"ending", "leaving"}
    /\ IF ~worker[w].retained /\ fence = worker[w].token /\ Reconciled(w)
       THEN \/ /\ fence' = 0
               /\ \E step \in {"idle", "due"} :
                     /\ step = "due" => At(w, "ending")
                     /\ Remember(w, Rested(w, step))
               /\ UNCHANGED faults
            \/ Fault /\ fence' \in {fence, 0} /\ Remember(w, Rested(w, "idle"))
       ELSE Remember(w, Rested(w, "idle")) /\ UNCHANGED <<fence, faults>>
    /\ UNCHANGED <<clock, state, marker, killSwitch, resetting, origin, tokens, crashes>>
-------------------------------------------------------------------------------
(* The Operator *)

SetKillSwitch ==
    /\ killSwitch' = ~killSwitch
    /\ UNCHANGED <<clock, fence, state, marker, worker, resetting, origin,
                   tokens, faults, crashes>>

\* The container is recreated, or the process dies and is restarted; a reset CLI
\* inside it dies too.
Recreate(w) ==
    /\ IF worker[w].step \in Inside
       THEN crashes < MaxCrashes /\ crashes' = crashes + 1
       ELSE UNCHANGED crashes
    /\ Remember(w, Started(killSwitch))
    /\ resetting' = FALSE
    /\ UNCHANGED <<clock, fence, state, marker, killSwitch, origin, tokens, faults>>

\* The reset CLI runs inside a worker's container and wants its KILL_SWITCH=1;
\* the workers that share the volume are recreated together.
KillSwitchOn == \A w \in Worker : worker[w].killed
ResumeReached ==
    marker.reason = "source_rate_limited" => marker.resumeNotBefore <= clock

\* Mutant: the last permit becomes the time of the reset.
ClearedState_ToNow ==
    [known |-> TRUE, lastPermit |-> clock, notBefore |-> state.notBefore]
\* clearFence: the last permit moves up to now, the cooldown stays; then the
\* fence goes.  The CLI may fail or die after either write.
ClearedState ==
    [known |-> TRUE, lastPermit |-> Larger(state.lastPermit, clock),
     notBefore |-> state.notBefore]
\* Mutant: the reset does not ask for the kill switch.
ResetFence_Live ==
    /\ ResumeReached
    /\ state' = ClearedState
    /\ \/ fence' = 0 /\ resetting' = TRUE
       \/ fence' \in {fence, 0} /\ UNCHANGED resetting
    /\ UNCHANGED <<clock, marker, worker, killSwitch, origin, tokens, faults, crashes>>
ResetFence ==
    /\ KillSwitchOn
    /\ ResumeReached
    /\ state' = ClearedState
    /\ \/ fence' = 0 /\ resetting' = TRUE
       \/ fence' \in {fence, 0} /\ UNCHANGED resetting
    /\ UNCHANGED <<clock, marker, worker, killSwitch, origin, tokens, faults, crashes>>
ResetMarker ==
    /\ resetting
    /\ marker' = NoMarker
    /\ resetting' = FALSE
    /\ UNCHANGED <<clock, fence, state, worker, killSwitch, origin, tokens, faults, crashes>>
-------------------------------------------------------------------------------
WorkerStep(w) ==
    \/ BeginCycle(w) \/ AcquireFence(w) \/ Reserve(w) \/ CheckInterlock(w)
    \/ StartRequest(w) \/ Reconcile(w) \/ Respond(w) \/ EndTurn(w)
    \/ DeferUntil(w) \/ Engage(w) \/ ReleaseFence(w)

Next ==
    \/ Tick \/ SetKillSwitch \/ ResetFence \/ ResetMarker
    \/ \E w \in Worker : WorkerStep(w) \/ Recreate(w)

Spec == Init /\ [][Next]_vars
-------------------------------------------------------------------------------
(* Properties *)

Requests == origin'.requests > origin.requests

\* Any two physical requests, of whatever process, before or after crashes and
\* resets, start at least Spacing apart (source-origin-control.ts runWithPermit,
\* acquireFence, clearFence).
SpacedRequests ==
    [][Requests /\ origin.requests > 0 => origin.last + Spacing <= clock]_vars

\* A recovery delay that reached either file is kept: no request starts before
\* it, whatever is restarted, reset or fails to be written (deferUntil, engage,
\* reset, clearFence).
CooldownHonored == [][Requests => origin.promised <= clock]_vars

\* No process sends a request while a safety stop stands, persisted or not
\* (beforeStart, engage, the retained fence).
NoRequestWhileStopped ==
    [][Requests => marker = NoMarker /\ \A w \in Worker : ~worker[w].volatile]_vars

\* No write moves the boundary of the last permit back: a reservation that was
\* abandoned still delays its successors, also after a reset.
PermitNeverMovesBack == [][state.lastPermit <= state'.lastPermit]_vars

\* A worker inside a turn owns the fence file, so no two are.
FenceExclusive ==
    \A w \in Worker : worker[w].step \in Inside => fence = worker[w].token /\ fence # 0

\* Fetching stops for good only for a reason: with no fault and no death inside a
\* turn, a fence is there only while a worker is inside one (release).
FenceReturned ==
    faults = 0 /\ crashes = 0 /\ fence # 0 => \E w \in Worker : worker[w].step \in Inside

\* Why: the inductive invariant of all of the above.  One worker at a time is
\* inside a turn; a killed one never is, nor anybody beside a process whose stop
\* is not on disk; the state file holds the running reservation; and every
\* promised cooldown is past or written down in one of the two files.
InTurn(w) == worker[w].step \in Inside
Alone == \A v, w \in Worker : InTurn(v) /\ InTurn(w) => v = w
KilledRest == \A w \in Worker : worker[w].killed => At(w, "idle") /\ ~worker[w].volatile
VolatileGuarded ==
    \A v \in Worker : worker[v].volatile =>
        /\ fence # 0
        /\ \A w \in Worker : InTurn(w) => w = v /\ At(v, "leaving") /\ worker[v].retained
Reserved(w) ==
    /\ worker[w].step \in {"waiting", "checked"} =>
          /\ origin.last + Spacing <= worker[w].reserved
          /\ state = Permit(worker[w].reserved)
    /\ At(w, "checked") => worker[w].reserved <= clock /\ marker = NoMarker
    /\ At(w, "started") => worker[w].lastStart <= clock /\ origin.promised <= clock
                            /\ state.lastPermit <= worker[w].lastStart
    /\ InTurn(w) /\ ~At(w, "started") /\ ~worker[w].retained => Reconciled(w)
    /\ worker[w].retained => InTurn(w) /\ faults > 0
    /\ ~InTurn(w) => worker[w].lastStart = 0
CooldownKept ==
    \/ origin.promised <= clock
    \/ origin.promised <= Larger(state.lastPermit, state.notBefore)
    \/ marker.reason = "source_rate_limited" /\ origin.promised <= marker.resumeNotBefore
OriginInv ==
    /\ FenceExclusive /\ Alone /\ KilledRest /\ VolatileGuarded
    /\ origin.last <= clock
    /\ state.known \/ state.lastPermit = 0
    /\ \A w \in Worker : Reserved(w)
    /\ CooldownKept
    /\ resetting => KillSwitchOn /\ ResumeReached
    /\ FenceReturned
=============================================================================
