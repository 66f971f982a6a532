---------------------------- MODULE SeatObservation ----------------------------
(***************************************************************************)
(* How the source workers turn what Berkeley's page says about one Section *)
(* into class_state rows and Alerts: the poll cycle of src/worker/v04.ts   *)
(* (cutoff, origin fence, read of the previous state, fetch, observation)  *)
(* and the transactions of src/db/repo.ts that order observations against  *)
(* Watch activations.  Two workers overlap while a lost advisory lease is  *)
(* noticed; they may also die anywhere.                                    *)
(*                                                                         *)
(* A Watch is the activation_order it got when it last went live, or 0.    *)
(* The page's openings are numbered so that properties can name them.      *)
(***************************************************************************)
EXTENDS Naturals, FiniteSets

CONSTANTS
    Subscriber,
    Poller,       \* worker processes
    Reasons,      \* the NotifyReasons of the instance
    FreshFor,     \* source_fresh_until minus the time of the observation
    MaxTime,      \* bound: the clock stops here
    MaxOpenings,  \* bound: openings of the page for each reason
    MaxCrashes,   \* bound: worker deaths
    MaxOrder      \* bound: no Watch is activated and no cycle starts beyond this order

NotifyReason == {"seats-open", "waitlist-open"}

ASSUME ReasonsAssumption == Reasons \subseteq NotifyReason
ASSUME ObservationBounds ==
    /\ FreshFor \in Nat /\ MaxTime \in Nat /\ MaxOpenings \in Nat
    /\ MaxCrashes \in Nat /\ MaxOrder \in Nat
    /\ Poller \cap {"free", "orphaned"} = {}

VARIABLES
    clock,
    page,    \* external: reasons the page shows open, its openings, whether it is gone
    state,   \* the class_state row
    watch,   \* [Subscriber -> activation_order of a live Watch, or 0]
    order,   \* watch_visibility_order_seq
    poller,  \* [Poller -> what the process has in memory]
    fence,   \* owner of the origin fence, "free" or "orphaned" (retained, or of a dead process)
    sent,    \* [Subscriber -> [Reasons -> [opening number -> Alerts enqueued]]]
    crashes

vars == <<clock, page, state, watch, order, poller, fence, sent, crashes>>
-------------------------------------------------------------------------------
Opening == [n : Nat, at : Nat]
Page == [open : SUBSET Reasons, opening : [Reasons -> Opening], gone : BOOLEAN]

\* Row of class_state; version 0 is no row.
State == [open : SUBSET Reasons, version : Nat, seen : Nat, freshUntil : Nat]
NoState == [open |-> {}, version |-> 0, seen |-> 0, freshUntil |-> 0]

\* A fetched answer remembers when and from which page it came.
Answer == [kind : {"none", "parsed", "not-modified", "class-gone", "parser-broke"},
           page : Page, at : Nat, order : Nat]
StartPage == [open |-> {}, opening |-> [r \in Reasons |-> [n |-> 0, at |-> 0]], gone |-> FALSE]
NoAnswer == [kind |-> "none", page |-> StartPage, at |-> 0, order |-> 0]

\* held is the representation the in-memory validators stand for, if any.
Step == {"idle", "ready", "fetching", "answered", "handled"}
NoHeld == [known |-> FALSE, open |-> {}]
Memory == [step : Step, cutoff : Nat, previous : State, answer : Answer,
           held : [known : BOOLEAN, open : SUBSET Reasons]]
Asleep(held) == [step |-> "idle", cutoff |-> 0, previous |-> NoState,
                 answer |-> NoAnswer, held |-> held]

TypeOK ==
    /\ clock \in Nat
    /\ page \in Page
    /\ state \in State
    /\ watch \in [Subscriber -> Nat]
    /\ order \in Nat
    /\ poller \in [Poller -> Memory]
    /\ fence \in Poller \cup {"free", "orphaned"}
    /\ sent \in [Subscriber -> [Reasons -> [0..MaxOpenings -> Nat]]]
    /\ crashes \in Nat

\* A new deployment: no class_state, whatever the page shows.
Init ==
    /\ clock = 0
    /\ \E open \in SUBSET Reasons : page = [StartPage EXCEPT !.open = open]
    /\ state = NoState
    /\ watch = [s \in Subscriber |-> 0]
    /\ order = 0
    /\ poller = [p \in Poller |-> Asleep(NoHeld)]
    /\ fence = "free"
    /\ sent = [s \in Subscriber |-> [r \in Reasons |-> [n \in 0..MaxOpenings |-> 0]]]
    /\ crashes = 0

Tick ==
    /\ clock < MaxTime
    /\ clock' = clock + 1
    /\ UNCHANGED <<page, state, watch, order, poller, fence, sent, crashes>>

\* External: seats and waitlist places come and go.
PageChanges ==
    /\ \E open \in SUBSET Reasons \ {page.open} :
          /\ \A r \in open \ page.open : page.opening[r].n < MaxOpenings
          /\ page' = [page EXCEPT !.open = open,
                         !.opening = [r \in Reasons |->
                             IF r \in open \ page.open
                             THEN [n |-> page.opening[r].n + 1, at |-> clock]
                             ELSE page.opening[r]]]
    /\ UNCHANGED <<clock, state, watch, order, poller, fence, sent, crashes>>

\* External: the Section disappears from the catalog, or is listed again.
PageListed ==
    /\ page' = [page EXCEPT !.gone = ~@]
    /\ UNCHANGED <<clock, state, watch, order, poller, fence, sent, crashes>>
-------------------------------------------------------------------------------
(* Watches *)

\* confirmSubscriber and addWatchWithFreshness of a Confirmed Subscriber.
ActivateWatch(s) ==
    /\ watch[s] = 0
    /\ order < MaxOrder
    /\ order' = order + 1
    /\ watch' = [watch EXCEPT ![s] = order + 1]
    /\ UNCHANGED <<clock, page, state, poller, fence, sent, crashes>>

RemoveWatch(s) ==
    /\ watch[s] # 0
    /\ watch' = [watch EXCEPT ![s] = 0]
    /\ UNCHANGED <<clock, page, state, order, poller, fence, sent, crashes>>
-------------------------------------------------------------------------------
(* The poll cycle *)

Demanded == \E s \in Subscriber : watch[s] # 0

Update(p, memory) == poller' = [poller EXCEPT ![p] = memory]

\* getDistinctWatchedClassKeys, prune and, for a demanded Section that is due,
\* getPollCycleCutoff.
StartCycle(p) ==
    /\ poller[p].step = "idle"
    /\ order < MaxOrder
    /\ IF Demanded
       THEN /\ order' = order + 1
            /\ Update(p, [poller[p] EXCEPT !.step = "ready", !.cutoff = order + 1])
       ELSE UNCHANGED order /\ Update(p, Asleep(NoHeld))
    /\ UNCHANGED <<clock, page, state, watch, fence, sent, crashes>>

\* acquireFence, then getClassState; a fence that is taken ends the cycle.
AcquireFence(p) ==
    /\ poller[p].step = "ready"
    /\ IF fence = "free"
       THEN /\ fence' = p
            /\ Update(p, [poller[p] EXCEPT !.step = "fetching", !.previous = state])
       ELSE /\ UNCHANGED fence
            /\ Update(p, Asleep(poller[p].held))
    /\ UNCHANGED <<clock, page, state, watch, order, sent, crashes>>

\* fetchClassObservation: what it can make of the page.  A 404 or a not-found
\* page is class-gone; anything else is parsed or breaks the parser.  Validators
\* are sent only when a row was read, and a 304 answers only those that still match.
Answers(p) ==
    {"parser-broke", IF page.gone THEN "class-gone" ELSE "parsed"}
    \cup {kind \in {"not-modified"} : /\ ~page.gone
                                      /\ poller[p].previous.version # 0
                                      /\ poller[p].held = [known |-> TRUE, open |-> page.open]}
Fetch(p) ==
    /\ poller[p].step = "fetching"
    /\ \E kind \in Answers(p) :
          Update(p, [poller[p] EXCEPT !.step = "answered",
                        !.answer = [kind |-> kind, page |-> page, at |-> clock, order |-> order]])
    /\ UNCHANGED <<clock, page, state, watch, order, fence, sent, crashes>>

\* Mutant: the validators are recorded before the row is written.
TurnFails_RecordsFirst(p) ==
    /\ poller[p].step \in {"fetching", "answered"}
    /\ Update(p, [poller[p] EXCEPT !.step = "handled",
                     !.held = IF poller[p].answer.kind = "parsed"
                              THEN [known |-> TRUE, open |-> poller[p].answer.page.open] ELSE @])
    /\ UNCHANGED <<clock, page, state, watch, order, fence, sent, crashes>>

\* A fetch that fails, is interlocked or aborted, or an observation whose
\* transaction throws, ends the Section's turn.
TurnFails(p) ==
    /\ poller[p].step \in {"fetching", "answered"}
    /\ Update(p, [poller[p] EXCEPT !.step = "handled"])
    /\ UNCHANGED <<clock, page, state, watch, order, fence, sent, crashes>>

(* handleObservation *)

Handled(p, held) == Update(p, [poller[p] EXCEPT !.step = "handled", !.held = held])
NextState(p, open) ==
    [open |-> open, version |-> state.version + 1, seen |-> order + 1,
     freshUntil |-> poller[p].answer.at + FreshFor]

\* upsertClassState: overwrites whatever row is there.
Upsert(p, open) ==
    /\ order' = order + 1
    /\ state' = NextState(p, open)

HandleNotModified(p) ==
    /\ poller[p].step = "answered" /\ poller[p].answer.kind = "not-modified"
    /\ Upsert(p, poller[p].previous.open)
    /\ Handled(p, poller[p].held)
    /\ UNCHANGED <<clock, page, watch, fence, sent, crashes>>

\* Mutant: a class-gone answer retires every Watch of the Section.
HandleClassGone_NoCutoff(p) ==
    /\ poller[p].step = "answered" /\ poller[p].answer.kind = "class-gone"
    /\ watch' = [s \in Subscriber |-> 0]
    /\ Handled(p, NoHeld)
    /\ UNCHANGED <<clock, page, state, order, fence, sent, crashes>>

\* retireWatchesForClass through the cycle's cutoff.
HandleClassGone(p) ==
    /\ poller[p].step = "answered" /\ poller[p].answer.kind = "class-gone"
    /\ watch' = [s \in Subscriber |-> IF watch[s] <= poller[p].cutoff THEN 0 ELSE watch[s]]
    /\ Handled(p, NoHeld)
    /\ UNCHANGED <<clock, page, state, order, fence, sent, crashes>>

\* recordUnparseableResponse drops the validators; class_state is kept.
HandleParserBroke(p) ==
    /\ poller[p].step = "answered" /\ poller[p].answer.kind = "parser-broke"
    /\ Handled(p, NoHeld)
    /\ UNCHANGED <<clock, page, state, watch, order, fence, sent, crashes>>

\* Mutant: every persisted baseline is trusted.
BaselineStale_Never(p) == FALSE
BaselineStale(p) == poller[p].previous.freshUntil < poller[p].answer.at
\* Mutant: everything that is open counts as newly open.
Opened_Level(p) == poller[p].answer.page.open
Opened(p) == poller[p].answer.page.open \ poller[p].previous.open
\* Mutant: only newly free seats are an opening.
Transition_SeatsOnly(p) ==
    poller[p].previous.version # 0 /\ ~BaselineStale(p) /\ "seats-open" \in Opened(p)
Transition(p) ==
    poller[p].previous.version # 0 /\ ~BaselineStale(p) /\ Opened(p) # {}

\* A first or stale baseline, or nothing newly open: the row is overwritten.
HandleBaseline(p) ==
    /\ poller[p].step = "answered" /\ poller[p].answer.kind = "parsed"
    /\ ~Transition(p)
    /\ Upsert(p, poller[p].answer.page.open)
    /\ Handled(p, [known |-> TRUE, open |-> poller[p].answer.page.open])
    /\ UNCHANGED <<clock, page, watch, fence, sent, crashes>>

\* commitOpeningAndEnqueueMail: compare-and-swap on the version, then one Alert
\* for each live Watch no younger than the row's observed_watch_order.
OpeningReason(p) == IF "seats-open" \in Opened(p) THEN "seats-open" ELSE "waitlist-open"
Targets == {s \in Subscriber : watch[s] # 0 /\ watch[s] <= state.seen}
CasHolds(p) == state.version = poller[p].previous.version
HandleOpening(p) ==
    /\ poller[p].step = "answered" /\ poller[p].answer.kind = "parsed"
    /\ Transition(p)
    /\ IF CasHolds(p)
       THEN LET r == OpeningReason(p)
                n == poller[p].answer.page.opening[r].n
            IN  /\ Upsert(p, poller[p].answer.page.open)
                /\ sent' = [s \in Subscriber |->
                               IF s \in Targets THEN [sent[s] EXCEPT ![r][n] = @ + 1] ELSE sent[s]]
       ELSE UNCHANGED <<state, order, sent>>
    /\ Handled(p, [known |-> TRUE, open |-> poller[p].answer.page.open])
    /\ UNCHANGED <<clock, page, watch, fence, crashes>>

\* The fence is given back, or stays behind when the turn retained it or its
\* release failed; a worker that lost its advisory lease meanwhile starts over
\* with a new SourceScheduleState.
ReleaseFence(p) ==
    /\ poller[p].step = "handled"
    /\ fence' \in IF fence = p THEN {"free", "orphaned"} ELSE {fence}
    /\ \E held \in {poller[p].held, NoHeld} : Update(p, Asleep(held))
    /\ UNCHANGED <<clock, page, state, watch, order, sent, crashes>>

\* The process dies; a fence it held stays behind.
Crash(p) ==
    /\ crashes < MaxCrashes
    /\ poller[p] # Asleep(NoHeld)
    /\ Update(p, Asleep(NoHeld))
    /\ fence' = IF fence = p THEN "orphaned" ELSE fence
    /\ crashes' = crashes + 1
    /\ UNCHANGED <<clock, page, state, watch, order, sent>>

\* Mutant: the fence is cleared under a worker that is still running.
ClearFence_Live ==
    /\ fence # "free"
    /\ fence' = "free"
    /\ UNCHANGED <<clock, page, state, watch, order, poller, sent, crashes>>

\* The Operator's reset CLI, run after the worker was recreated.
ClearFence ==
    /\ fence = "orphaned"
    /\ fence' = "free"
    /\ UNCHANGED <<clock, page, state, watch, order, poller, sent, crashes>>
-------------------------------------------------------------------------------
PollerStep(p) ==
    \/ StartCycle(p) \/ AcquireFence(p) \/ Fetch(p) \/ TurnFails(p)
    \/ HandleNotModified(p) \/ HandleClassGone(p) \/ HandleParserBroke(p)
    \/ HandleBaseline(p) \/ HandleOpening(p) \/ ReleaseFence(p)

Next ==
    \/ Tick \/ PageChanges \/ PageListed \/ ClearFence
    \/ \E s \in Subscriber : ActivateWatch(s) \/ RemoveWatch(s)
    \/ \E p \in Poller : PollerStep(p) \/ Crash(p)

Spec == Init /\ [][Next]_vars
-------------------------------------------------------------------------------
(* Properties *)

\* FR-5: a Subscriber gets at most one Alert for one opening of the page, also
\* when two workers observe it (origin fence, compare-and-swap).
OneAlertPerOpening ==
    \A s \in Subscriber, r \in Reasons, n \in 0..MaxOpenings : sent[s][r][n] <= 1

\* An Alert that p's observation of an opening for r adds in this step.
Alerts(s, r) == \E n \in 0..MaxOpenings : sent'[s][r][n] > sent[s][r][n]

\* A stale baseline never manufactures an opening: an Alert is enqueued only for
\* an opening that happened within FreshFor of its observation (v04.ts
\* baselineStale).
NoStaleOpening ==
    [][\A s \in Subscriber, r \in Reasons : Alerts(s, r) =>
           \E p \in Poller : /\ poller[p].answer.kind = "parsed"
                             /\ r \in poller[p].answer.page.open
                             /\ poller[p].answer.at <=
                                    poller[p].answer.page.opening[r].at + FreshFor]_vars

\* When an observation opens a Section whose row was fresh, everyone whose live
\* Watch the row had seen is alerted in the same transaction; no observation
\* opens a fresh row silently.
NoSilentOpening ==
    [][state'.version # state.version /\ state.version # 0 /\ state'.open \ state.open # {} =>
           \/ \A s \in Targets : \E r \in Reasons : Alerts(s, r)
           \/ state.freshUntil + FreshFor < state'.freshUntil]_vars

\* A class-gone answer retires only Watches activated before the page was asked;
\* a Watch added meanwhile stays live (getPollCycleCutoff).
GoneRetiresOnlyEarlier ==
    [][\A p \in Poller : HandleClassGone(p) =>
           \A s \in Subscriber : watch[s] > poller[p].answer.order => watch'[s] = watch[s]]_vars

\* With one worker, a 304 that is accepted restates what the page shows: the
\* representation its validators stand for is the one in the row (v04.ts
\* canAcceptNotModified, recordSuccessfulObservation after the write).
NotModifiedAgrees ==
    [][\A p \in Poller : Poller = {p} /\ HandleNotModified(p) =>
           state'.open = poller[p].answer.page.open]_vars

\* The process that reads and replaces the row is alone: the row a worker read
\* is still the row it replaces (the fence spans getClassState to the write).
ReadStaysCurrent ==
    \A p \in Poller : poller[p].step \in {"fetching", "answered"} =>
        fence = p /\ poller[p].previous = state
===============================================================================
