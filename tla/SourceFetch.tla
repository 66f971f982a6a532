------------------------------- MODULE SourceFetch -------------------------------
(***************************************************************************)
(* Requests to the source: src/scraper/fetch.ts.  A class page is asked    *)
(* for only after robots.txt, which is read once per cycle however many    *)
(* fetches need it; every physical request waits for an origin permit      *)
(* under the fetch's one deadline; redirects are followed by hand.  The    *)
(* permit wrapper is the caller's (src/worker/v04.ts) and may call the     *)
(* start it was given after the fetch has given up.                        *)
(***************************************************************************)
EXTENDS Naturals, FiniteSets

CONSTANTS
    Fetcher,      \* class fetches that may overlap
    ClassPage,    \* paths of class pages
    Elsewhere,    \* other paths of the origin a redirect may name
    MaxRedirects, \* MAX_REDIRECTS
    MaxCycles,    \* bound: cycles begun
    MaxChanges,   \* bound: changes of robots.txt
    MaxOrphans    \* bound: permit wrappers that outlive their fetch

ASSUME SourceFetchAssumption ==
    MaxRedirects \in Nat /\ MaxCycles \in Nat /\ MaxChanges \in Nat /\ MaxOrphans \in Nat

VARIABLES
    origin,       \* external: what robots.txt answers, and how often that changed
    robots,       \* robotsCache, robotsCachePromise and robotsCyclePinned
    fetching,     \* [Fetcher -> its class fetch]
    abandoned,    \* wrappers whose fetch has been answered, still to call start
    lateStarts,   \* history: physical requests of answered fetches
    cycles,       \* history: cycles begun
    robotsReads,  \* history: reads of robots.txt in this cycle
    published     \* history: the rules of the last read in this cycle

fetchVars == <<origin, robots, fetching, abandoned, lateStarts, cycles, robotsReads, published>>
-------------------------------------------------------------------------------
Path == ClassPage \cup Elsewhere

\* What a read of robots.txt comes to: rules (a 4xx means that none apply), or
\* the whole cycle is skipped (401, 403, 429, 5xx, timeout, too large).
Policy == [skip : BOOLEAN, deny : SUBSET Path]
Skip == [skip |-> TRUE, deny |-> {}]
Unread == [skip |-> TRUE, deny |-> Path]

\* at: the robots answer is awaited, a permit is, or the physical request is.
Fetch == [at : {"idle", "robots", "permit", "sent"}, path : Path \cup {"none"},
          hops : 0..MaxRedirects]
NoFetch == [at |-> "idle", path |-> "none", hops |-> 0]

\* entry: robotsCache, Unread for null.  at: stage of the shared read.
RobotsState == [entry : Policy, at : {"none", "permit", "sent"},
                hops : 0..MaxRedirects, pinned : BOOLEAN]

FetchTypeOK ==
    /\ origin \in [txt : Policy, changes : 0..MaxChanges]
    /\ robots \in RobotsState
    /\ fetching \in [Fetcher -> Fetch]
    /\ abandoned \in 0..MaxOrphans
    /\ lateStarts \in 0..MaxOrphans
    /\ cycles \in 0..MaxCycles
    /\ robotsReads \in Nat
    /\ published \in Policy

FetchInit ==
    /\ \E deny \in SUBSET Path : origin = [txt |-> [skip |-> FALSE, deny |-> deny], changes |-> 0]
    /\ robots = [entry |-> Unread, at |-> "none", hops |-> 0, pinned |-> FALSE]
    /\ fetching = [f \in Fetcher |-> NoFetch]
    /\ abandoned = 0
    /\ lateStarts = 0
    /\ cycles = 0
    /\ robotsReads = 0
    /\ published = Unread

Fetches(f, r) == fetching' = [fetching EXCEPT ![f] = r]
Allows(policy, p) == ~policy.skip /\ p \notin policy.deny
FetchHistory == <<lateStarts, cycles, robotsReads, published>>
-------------------------------------------------------------------------------
\* External: the source publishes another robots.txt, or cannot serve it.
PolicyChanges ==
    /\ origin.changes < MaxChanges
    /\ \E txt \in {Skip} \cup [skip : {FALSE}, deny : SUBSET Path] :
           /\ txt # origin.txt
           /\ origin' = [txt |-> txt, changes |-> origin.changes + 1]
    /\ UNCHANGED <<robots, fetching, abandoned, FetchHistory>>

\* Mutant: the entry of the last cycle survives.
X_BeginScrapeCycle ==
    /\ ~robots.pinned
    /\ cycles < MaxCycles
    /\ robots' = [robots EXCEPT !.pinned = TRUE]
    /\ cycles' = cycles + 1
    /\ robotsReads' = 0
    /\ published' = Unread
    /\ UNCHANGED <<origin, fetching, abandoned, lateStarts>>

BeginScrapeCycle ==
    /\ ~robots.pinned
    /\ cycles < MaxCycles
    /\ robots' = [entry |-> Unread, at |-> "none", hops |-> 0, pinned |-> TRUE]
    /\ cycles' = cycles + 1
    /\ robotsReads' = 0
    /\ published' = Unread
    /\ UNCHANGED <<origin, fetching, abandoned, lateStarts>>

\* The cycle ends when each of its fetches was answered.
EndScrapeCycle ==
    /\ robots.pinned
    /\ \A f \in Fetcher : fetching[f].at = "idle"
    /\ robots' = [robots EXCEPT !.pinned = FALSE]
    /\ UNCHANGED <<origin, fetching, abandoned, FetchHistory>>
-------------------------------------------------------------------------------
(* fetchClassObservation and checkRobots. *)

\* The pinned entry answers at once.
UseRobots(f, p) ==
    /\ robots.pinned
    /\ fetching[f].at = "idle"
    /\ robots.entry # Unread
    /\ Allows(robots.entry, p)
    /\ Fetches(f, [at |-> "permit", path |-> p, hops |-> 0])
    /\ UNCHANGED <<origin, robots, abandoned, FetchHistory>>

\* No entry: join the read that is under way, or start it.
AwaitRobots(f, p) ==
    /\ robots.pinned
    /\ fetching[f].at = "idle"
    /\ robots.entry = Unread
    /\ Fetches(f, [at |-> "robots", path |-> p, hops |-> 0])
    /\ robots' = IF robots.at = "none" THEN [robots EXCEPT !.at = "permit"] ELSE robots
    /\ UNCHANGED <<origin, abandoned, FetchHistory>>

\* The read ended with policy: it is the cycle's entry, failed or not, and
\* everyone who awaited it goes on or is refused.
RobotsSettle(policy) ==
    /\ robots' = [robots EXCEPT !.entry = policy, !.at = "none", !.hops = 0]
    /\ published' = policy
    /\ fetching' = [f \in Fetcher |->
           IF fetching[f].at # "robots" THEN fetching[f]
           ELSE IF Allows(policy, fetching[f].path) THEN [fetching[f] EXCEPT !.at = "permit"]
           ELSE NoFetch]

RobotsAnswer ==
    /\ robots.at = "sent"
    /\ RobotsSettle(origin.txt)
    /\ UNCHANGED <<origin, abandoned, lateStarts, cycles, robotsReads>>

RobotsRequest ==
    /\ robots.at = "permit"
    /\ robots' = [robots EXCEPT !.at = "sent"]
    /\ robotsReads' = IF robots.hops = 0 THEN robotsReads + 1 ELSE robotsReads
    /\ UNCHANGED <<origin, fetching, abandoned, lateStarts, cycles, published>>

RobotsRedirect ==
    /\ robots.at = "sent"
    /\ robots.hops < MaxRedirects
    /\ robots' = [robots EXCEPT !.at = "permit", !.hops = @ + 1]
    /\ UNCHANGED <<origin, fetching, abandoned, FetchHistory>>

\* The deadline, the network, a refused permit or a redirect out of bounds.
RobotsFails ==
    /\ robots.at # "none"
    /\ \/ UNCHANGED abandoned
       \/ robots.at = "permit" /\ abandoned < MaxOrphans /\ abandoned' = abandoned + 1
    /\ RobotsSettle(Skip)
    /\ UNCHANGED <<origin, lateStarts, cycles, robotsReads>>
-------------------------------------------------------------------------------
(* doClassFetch, requestWithSafeRedirects and runOriginRequest. *)

\* The wrapper got its permit and calls start, before the deadline.
ClassRequest(f) ==
    /\ fetching[f].at = "permit"
    /\ Fetches(f, [fetching[f] EXCEPT !.at = "sent"])
    /\ UNCHANGED <<origin, robots, abandoned, FetchHistory>>

\* A redirect is followed when its target is on the approved origin.
ClassRedirect(f, q) ==
    /\ fetching[f].at = "sent"
    /\ fetching[f].hops < MaxRedirects
    /\ Fetches(f, [at |-> "permit", path |-> q, hops |-> fetching[f].hops + 1])
    /\ UNCHANGED <<origin, robots, abandoned, FetchHistory>>

\* 200, 304, 404 or another status; a redirect too many or off the origin; a
\* failed body, network or wrapper.
ClassSettles(f) ==
    /\ fetching[f].at = "sent"
    /\ Fetches(f, NoFetch)
    /\ UNCHANGED <<origin, robots, abandoned, FetchHistory>>

\* The permit is refused, or the deadline passes while the wrapper waits for
\* one: the wrapper is then left to itself with an aborted signal.
PermitFails(f) ==
    /\ fetching[f].at = "permit"
    /\ \/ UNCHANGED abandoned
       \/ abandoned < MaxOrphans /\ abandoned' = abandoned + 1
    /\ Fetches(f, NoFetch)
    /\ UNCHANGED <<origin, robots, FetchHistory>>

\* Its late call of start throws.
AbandonedStart ==
    /\ abandoned > 0
    /\ abandoned' = abandoned - 1
    /\ UNCHANGED <<origin, robots, fetching, FetchHistory>>
-------------------------------------------------------------------------------
RobotsStep ==
    RobotsRequest \/ RobotsRedirect \/ RobotsAnswer \/ RobotsFails

FetchStep(f) ==
    \/ ClassRequest(f) \/ ClassSettles(f) \/ PermitFails(f)
    \/ \E p \in ClassPage : UseRobots(f, p) \/ AwaitRobots(f, p)
    \/ \E q \in Path : ClassRedirect(f, q)

FetchNext ==
    \/ PolicyChanges \/ BeginScrapeCycle \/ EndScrapeCycle \/ RobotsStep \/ AbandonedStart
    \/ \E f \in Fetcher : FetchStep(f)

FetchSpec == FetchInit /\ [][FetchNext]_fetchVars
-------------------------------------------------------------------------------
Asked(f) == fetching[f].at \in {"permit", "sent"}

\* A class page is asked for only under the rules that robots.txt gave in this
\* very cycle, read once for all fetches of the cycle, however they overlap,
\* whatever failed and whatever the source published since; and no request goes
\* out for a fetch that was already answered.
RobotsObeyed ==
    /\ \A f \in Fetcher : Asked(f) /\ fetching[f].hops = 0 => Allows(published, fetching[f].path)
    /\ robotsReads <= 1
    /\ lateStarts = 0
===============================================================================
