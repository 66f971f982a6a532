------------------------------- MODULE BlindWindow -------------------------------
(***************************************************************************)
(* The Blind-window sweep: src/db/repo.ts enqueueBlindWindowDisclosures    *)
(* for one Section.  A Section that could not be read for WindowMs is      *)
(* disclosed once to each of its watchers.  Nothing says that a window is  *)
(* open: each sweep derives its start from the last successful read and    *)
(* the Watch's activation, and the disclosure rows it finds tell whether   *)
(* it was reported.  Reads, other workers' sweeps and the Watches change   *)
(* between the statement that selects and the one that inserts.            *)
(***************************************************************************)
EXTENDS Naturals, Sequences, SequencesExt

CONSTANTS
    Watcher,      \* Confirmed Subscribers that may watch the Section
    Sweeper,      \* workers that run the sweep
    WindowMs,     \* BLIND_WINDOW_MS
    MaxFresh,     \* bound: how long a representation stays source-visibly current
    MaxNow        \* bound: the clock stops here

ASSUME BlindWindowAssumption ==
    WindowMs \in Nat \ {0} /\ MaxFresh \in Nat /\ MaxNow \in Nat

VARIABLES
    now,          \* the database's and the workers' clock
    classRow,     \* class_state: updated_at and source_fresh_until, 0 for NULL
    activatedAt,  \* [Watcher -> activated_at of its live Watch, or 0]
    disclosed,    \* [Watcher -> opened_at of its disclosure rows, as inserted]
    sweep         \* [Sweeper -> rows its transaction selected]

blindVars == <<now, classRow, activatedAt, disclosed, sweep>>
-------------------------------------------------------------------------------
Time == 0..MaxNow
NoClassRow == [updatedAt |-> 0, freshUntil |-> 0]
\* watcher, windowStartedAt
Blind == Watcher \X Time

BlindTypeOK ==
    /\ now \in 1..MaxNow
    /\ classRow \in [updatedAt : Time, freshUntil : 0..(MaxNow + MaxFresh)]
    /\ activatedAt \in [Watcher -> Time]
    /\ \A u \in Watcher : ToSet(disclosed[u]) \subseteq Time
    /\ sweep \in [Sweeper -> SUBSET Blind]

BlindInit ==
    /\ now = 1
    /\ classRow = NoClassRow
    /\ activatedAt = [u \in Watcher |-> 0]
    /\ disclosed = [u \in Watcher |-> <<>>]
    /\ sweep = [w \in Sweeper |-> {}]
-------------------------------------------------------------------------------
Elapse ==
    /\ now < MaxNow
    /\ now' = now + 1
    /\ UNCHANGED <<classRow, activatedAt, disclosed, sweep>>

\* A 200 that parsed or a trusted 304 stamps the row.
ReadSucceeds ==
    /\ \E fresh \in 0..MaxFresh :
           classRow' = [updatedAt |-> now, freshUntil |-> now + fresh]
    /\ UNCHANGED <<now, activatedAt, disclosed, sweep>>

\* The retention sweep drops the row of a Section nobody watches.
DropClassRow ==
    /\ \A u \in Watcher : activatedAt[u] = 0
    /\ classRow' = NoClassRow
    /\ UNCHANGED <<now, activatedAt, disclosed, sweep>>

StartWatching(u) ==
    /\ activatedAt[u] = 0
    /\ activatedAt' = [activatedAt EXCEPT ![u] = now]
    /\ UNCHANGED <<now, classRow, disclosed, sweep>>

StopWatching(u) ==
    /\ activatedAt[u] # 0
    /\ activatedAt' = [activatedAt EXCEPT ![u] = 0]
    /\ UNCHANGED <<now, classRow, disclosed, sweep>>
-------------------------------------------------------------------------------
\* greatest(updated_at, activated_at), which skips a NULL updated_at.
WindowStart(u) ==
    IF classRow.updatedAt > activatedAt[u] THEN classRow.updatedAt ELSE activatedAt[u]

IsBlind(u) ==
    /\ activatedAt[u] # 0
    /\ WindowStart(u) + WindowMs <= now
    /\ classRow.freshUntil <= now
    /\ ~Contains(disclosed[u], WindowStart(u))

SelectBlind(w) ==
    /\ sweep[w] = {}
    /\ \E u \in Watcher : IsBlind(u)
    /\ sweep' = [sweep EXCEPT ![w] = {<<u, WindowStart(u)>> : u \in {v \in Watcher : IsBlind(v)}}]
    /\ UNCHANGED <<now, classRow, activatedAt, disclosed>>

\* Mutant: the logical index does not stop a second worker.
X_InsertDisclosures(w) ==
    /\ sweep[w] # {}
    /\ disclosed' = [u \in Watcher |->
           disclosed[u] \o SetToSeq({s \in Time : <<u, s>> \in sweep[w]})]
    /\ sweep' = [sweep EXCEPT ![w] = {}]
    /\ UNCHANGED <<now, classRow, activatedAt>>

\* One insert; mail_outbox_blind_window_logical_uq makes a row that is already
\* there a conflict, and a conflict does nothing.
InsertDisclosures(w) ==
    /\ sweep[w] # {}
    /\ disclosed' = [u \in Watcher |->
           disclosed[u] \o SetToSeq({s \in Time : <<u, s>> \in sweep[w]} \ ToSet(disclosed[u]))]
    /\ sweep' = [sweep EXCEPT ![w] = {}]
    /\ UNCHANGED <<now, classRow, activatedAt>>

\* The worker dies or its transaction fails before the commit.
AbandonSweep(w) ==
    /\ sweep[w] # {}
    /\ sweep' = [sweep EXCEPT ![w] = {}]
    /\ UNCHANGED <<now, classRow, activatedAt, disclosed>>
-------------------------------------------------------------------------------
BlindNext ==
    \/ Elapse \/ ReadSucceeds \/ DropClassRow
    \/ \E u \in Watcher : StartWatching(u) \/ StopWatching(u)
    \/ \E w \in Sweeper : SelectBlind(w) \/ InsertDisclosures(w) \/ AbandonSweep(w)

BlindSpec == BlindInit /\ [][BlindNext]_blindVars
-------------------------------------------------------------------------------
\* A Subscriber is told once of a Blind window, and the windows told of do not
\* overlap: their starts are a whole horizon apart, whichever workers found them
\* and whatever was read, dropped, removed or added between a worker's select
\* and its insert.
OneDisclosurePerWindow ==
    \A u \in Watcher : \A i, j \in DOMAIN disclosed[u] :
        i # j => \/ disclosed[u][i] + WindowMs <= disclosed[u][j]
                 \/ disclosed[u][j] + WindowMs <= disclosed[u][i]
===============================================================================
