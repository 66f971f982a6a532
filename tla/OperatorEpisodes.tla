----------------------------- MODULE OperatorEpisodes -----------------------------
(***************************************************************************)
(* One operator mail per incident.  A source cycle of                      *)
(* src/worker/v04.ts files what it fetched: a Section that no longer       *)
(* parses opens a durable episode in parser_health (src/db/repo.ts), and   *)
(* robots.txt that cannot be read opens one in the memory of the process   *)
(* (src/worker/operator-debounce.ts).  Workers overlap during a failover   *)
(* and may die at any step.                                                *)
(***************************************************************************)
EXTENDS Naturals, FiniteSets

CONSTANTS
    Worker,       \* worker processes that run a source cycle
    Page,         \* Sections
    MaxMails      \* bound: operator mails the model counts

ASSUME EpisodeAssumption == MaxMails \in Nat /\ "free" \notin Worker

VARIABLES
    parserHealth, \* [Page -> row of parser_health]
    parserLock,   \* the worker that holds SHARE ROW EXCLUSIVE on parser_health
    cycle,        \* [Worker -> its source cycle and its debouncer]
    parserMails   \* [Page -> operator mails since the Section last parsed]

episodeVars == <<parserHealth, parserLock, cycle, parserMails>>
-------------------------------------------------------------------------------
\* due: Sections left.  A verdict is being filed for page: filing is the stage of
\* its transaction.  skipped: counters.robotsSkipped > 0.  robotsOpen: the
\* debouncer's robots episode.  robotsMails is history: mails of this process
\* since its last whole cycle without a robots failure.
Cycle == [at : {"idle", "fetching", "filing"}, due : SUBSET Page, page : Page \cup {"none"},
          verdict : {"none", "broken", "parsed"}, filing : {"none", "locked", "opens"},
          skipped : BOOLEAN, robotsOpen : BOOLEAN, robotsMails : 0..MaxMails]

NewProcess == [at |-> "idle", due |-> {}, page |-> "none", verdict |-> "none",
               filing |-> "none", skipped |-> FALSE, robotsOpen |-> FALSE, robotsMails |-> 0]

EpisodeTypeOK ==
    /\ parserHealth \in [Page -> {"absent", "healthy", "broken"}]
    /\ parserLock \in Worker \cup {"free"}
    /\ cycle \in [Worker -> Cycle]
    /\ parserMails \in [Page -> 0..MaxMails]

EpisodeInit ==
    /\ parserHealth = [p \in Page |-> "absent"]
    /\ parserLock = "free"
    /\ cycle = [w \in Worker |-> NewProcess]
    /\ parserMails = [p \in Page |-> 0]

Becomes(w, c) == cycle' = [cycle EXCEPT ![w] = c]

Durable == <<parserHealth, parserLock, parserMails>>
-------------------------------------------------------------------------------
(* The cycle. *)

BeginSections(w) ==
    /\ cycle[w].at = "idle"
    /\ \E due \in SUBSET Page \ {{}} :
           Becomes(w, [cycle[w] EXCEPT !.at = "fetching", !.due = due, !.skipped = FALSE])
    /\ UNCHANGED Durable

\* The fence, the permit, the safety stop, a 429 or the abort ends the cycle's
\* requests before a Section is read.
InterruptCycle(w) ==
    /\ cycle[w].at = "fetching"
    /\ cycle[w].due # {}
    /\ Becomes(w, [cycle[w] EXCEPT !.due = {}])
    /\ UNCHANGED Durable

\* A Section whose request failed, whose page is gone or that was not modified.
PassSection(w, p) ==
    /\ cycle[w].at = "fetching"
    /\ p \in cycle[w].due
    /\ Becomes(w, [cycle[w] EXCEPT !.due = @ \ {p}])
    /\ UNCHANGED Durable

\* enqueueRobotsOperatorEpisode.  The failure ends the cycle's requests; the
\* mail may fail to enqueue, which releases the reservation and fails the cycle.
RobotsFailure(w, p) ==
    /\ cycle[w].at = "fetching"
    /\ p \in cycle[w].due
    /\ LET c == [cycle[w] EXCEPT !.due = {}, !.skipped = TRUE]
       IN  \/ c.robotsOpen /\ Becomes(w, c)
           \/ /\ ~c.robotsOpen
              /\ c.robotsMails < MaxMails
              /\ Becomes(w, [c EXCEPT !.robotsOpen = TRUE, !.robotsMails = @ + 1])
           \/ ~c.robotsOpen /\ Becomes(w, [c EXCEPT !.at = "idle"])
    /\ UNCHANGED Durable

\* The page was read: handleObservation files that it parsed or did not.
ReadPage(w, p) ==
    /\ cycle[w].at = "fetching"
    /\ p \in cycle[w].due
    /\ \E v \in {"broken", "parsed"} :
           Becomes(w, [cycle[w] EXCEPT !.at = "filing", !.page = p, !.verdict = v])
    /\ UNCHANGED Durable

\* Every due Section was visited.  recoverRobots closes the robots episode when
\* no Section of the cycle met a robots failure.
EndCycle(w) ==
    /\ cycle[w].at = "fetching"
    /\ cycle[w].due = {}
    /\ Becomes(w, IF cycle[w].skipped THEN [cycle[w] EXCEPT !.at = "idle"]
                  ELSE [cycle[w] EXCEPT !.at = "idle", !.robotsOpen = FALSE, !.robotsMails = 0])
    /\ UNCHANGED Durable
-------------------------------------------------------------------------------
(* recordParserBroken and recordParserRecovery. *)

\* Mutant: two workers read the episode at once.
X_LockParserHealth(w) ==
    /\ cycle[w].at = "filing"
    /\ cycle[w].filing = "none"
    /\ parserLock' = w
    /\ Becomes(w, [cycle[w] EXCEPT !.filing = "locked"])
    /\ UNCHANGED <<parserHealth, parserMails>>

\* lockParserHealthForTransition.
LockParserHealth(w) ==
    /\ cycle[w].at = "filing"
    /\ cycle[w].filing = "none"
    /\ parserLock = "free"
    /\ parserLock' = w
    /\ Becomes(w, [cycle[w] EXCEPT !.filing = "locked"])
    /\ UNCHANGED <<parserHealth, parserMails>>

Filed(w) ==
    /\ parserLock' = "free"
    /\ Becomes(w, [cycle[w] EXCEPT !.at = "fetching", !.due = @ \ {cycle[w].page},
                                   !.page = "none", !.verdict = "none", !.filing = "none"])

\* The read of recordParserBroken: a broken Section is already known.
ReadParserHealth(w) ==
    /\ cycle[w].filing = "locked"
    /\ cycle[w].verdict = "broken"
    /\ IF parserHealth[cycle[w].page] = "broken"
       THEN Filed(w)
       ELSE Becomes(w, [cycle[w] EXCEPT !.filing = "opens"]) /\ UNCHANGED parserLock
    /\ UNCHANGED <<parserHealth, parserMails>>

\* Its write: the episode and its operator mail in one commit.
OpenEpisode(w) ==
    LET p == cycle[w].page
    IN  /\ cycle[w].filing = "opens"
        /\ parserMails[p] < MaxMails
        /\ parserHealth' = [parserHealth EXCEPT ![p] = "broken"]
        /\ parserMails' = [parserMails EXCEPT ![p] = @ + 1]
        /\ Filed(w)

\* recordParserRecovery: one statement, for a broken row only.
RecoverEpisode(w) ==
    LET p == cycle[w].page
    IN  /\ cycle[w].filing = "locked"
        /\ cycle[w].verdict = "parsed"
        /\ IF parserHealth[p] = "broken"
           THEN /\ parserHealth' = [parserHealth EXCEPT ![p] = "healthy"]
                /\ parserMails' = [parserMails EXCEPT ![p] = 0]
           ELSE UNCHANGED <<parserHealth, parserMails>>
        /\ Filed(w)

\* The process dies or its transaction fails: what was not committed is undone.
CrashCycle(w) ==
    /\ cycle[w].at # "idle"
    /\ Becomes(w, NewProcess)
    /\ parserLock' = IF parserLock = w THEN "free" ELSE parserLock
    /\ UNCHANGED <<parserHealth, parserMails>>
-------------------------------------------------------------------------------
CycleStep(w) ==
    \/ BeginSections(w) \/ InterruptCycle(w) \/ EndCycle(w)
    \/ \E p \in Page : PassSection(w, p) \/ RobotsFailure(w, p) \/ ReadPage(w, p)

FilingStep(w) ==
    \/ LockParserHealth(w) \/ ReadParserHealth(w) \/ OpenEpisode(w) \/ RecoverEpisode(w)

EpisodeNext == \E w \in Worker : CycleStep(w) \/ FilingStep(w) \/ CrashCycle(w)

EpisodeSpec == EpisodeInit /\ [][EpisodeNext]_episodeVars
-------------------------------------------------------------------------------
\* A Section is marked broken exactly while one operator mail about it is out:
\* overlapping workers, restarts and repeated cycles neither send a second mail
\* for the episode nor open an episode without its mail.
ParserMailedOnce ==
    \A p \in Page : parserMails[p] = IF parserHealth[p] = "broken" THEN 1 ELSE 0

\* However many Sections and cycles meet the robots failure, one process mails
\* once until a whole cycle met none, and it never believes to have mailed when
\* the mail was not queued.
RobotsMailedOnce ==
    \A w \in Worker : cycle[w].robotsMails = IF cycle[w].robotsOpen THEN 1 ELSE 0

\* One operator mail per episode, durable or in memory.
OneMailPerEpisode == ParserMailedOnce /\ RobotsMailedOnce
===============================================================================
