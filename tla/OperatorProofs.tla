------------------------------ MODULE OperatorProofs ------------------------------
(***************************************************************************)
(* What the Operator is told, for any number of workers, Sections and      *)
(* incidents: one event for each dead-letter incident (IncidentSurface)    *)
(* and one mail for each episode (OperatorEpisodes).                       *)
(***************************************************************************)
EXTENDS OperatorEpisodes, IncidentSurface, TLAPS

\* An incident nobody told of yet: unless its key is still known, every event so
\* far was forgotten, and nothing was accepted before its row existed.
EventsAccounted ==
    \A i \in Incident :
        /\ channel.events[i] <= 1 + lapses[i]
        /\ incident[i].state = "none" => channel.events[i] = 0 /\ i \notin channel.keys
        /\ Unsurfaced(i) /\ i \notin channel.keys => channel.events[i] <= lapses[i]
        /\ i \in channel.keys \/ incident[i].surfaced => channel.events[i] >= 1

\* What the cycles hold: a claim keeps its key from being forgotten, so a second
\* publication of it cannot count, and an accepted event was delivered.
ClaimsAccounted ==
    \A w \in Publisher, i \in Incident :
        /\ holding[w][i] # "no" => incident[i].state # "none"
        /\ holding[w][i] # "no" /\ i \notin channel.keys => channel.events[i] <= lapses[i]
        /\ holding[w][i] = "accepted" => channel.events[i] >= 1

\* SurfaceTypeOK without the bound on events, which the rest gives.
SurfaceShape ==
    /\ incident \in [Incident -> IncidentRow]
    /\ holding \in [Publisher -> [Incident -> Claim]]
    /\ channel \in [keys : SUBSET Incident, events : [Incident -> Nat]]
    /\ lapses \in [Incident -> 0..MaxLapses]

SurfaceInv == SurfaceShape /\ EventsAccounted /\ ClaimsAccounted

\* The incident's own life and the provider's memory disturb neither account.
LEMMA IncidentStepKeepsInv ==
    ASSUME SurfaceInv, NEW i \in Incident,
           \/ OpenIncident(i) \/ AcknowledgeIncident(i) \/ ResolveIncident(i)
           \/ PurgeIncident(i) \/ ForgetEvent(i)
    PROVE  SurfaceInv'
  <1> USE DEF SurfaceInv, SurfaceShape, IncidentRow, Stored, Unsurfaced, Claim
  <1>1. CASE \/ OpenIncident(i) \/ AcknowledgeIncident(i) \/ ResolveIncident(i)
             \/ PurgeIncident(i)
    <2>1. SurfaceShape'
      BY <1>1 DEF OpenIncident, AcknowledgeIncident, ResolveIncident, PurgeIncident
    <2>2. EventsAccounted'
      BY <1>1 DEF OpenIncident, AcknowledgeIncident, ResolveIncident, PurgeIncident,
                  EventsAccounted
    <2>3. ClaimsAccounted'
      BY <1>1 DEF OpenIncident, AcknowledgeIncident, ResolveIncident, PurgeIncident,
                  ClaimsAccounted
    <2> QED BY <2>1, <2>2, <2>3
  <1>2. CASE ForgetEvent(i)
    <2>0. lapses' \in [Incident -> 0..MaxLapses]
      BY <1>2, SurfaceAssumption DEF ForgetEvent
    <2>1. SurfaceShape'
      BY <1>2, <2>0 DEF ForgetEvent
    <2>2. EventsAccounted'
      BY <1>2, SurfaceAssumption DEF ForgetEvent, EventsAccounted
    <2>3. ClaimsAccounted'
      BY <1>2, SurfaceAssumption DEF ForgetEvent, ClaimsAccounted
    <2> QED BY <2>1, <2>2, <2>3
  <1> QED BY <1>1, <1>2

\* A cycle claims, publishes and marks.
LEMMA PublisherStepKeepsInv ==
    ASSUME SurfaceInv, NEW w \in Publisher,
           \/ ClaimIncidents(w) \/ DieHolding(w)
           \/ \E i \in Incident :
                  PublishIncident(w, i) \/ DeferIncident(w, i) \/ MarkSurfaced(w, i)
    PROVE  SurfaceInv'
  <1> USE DEF SurfaceInv, SurfaceShape, IncidentRow, Stored, Unsurfaced, Claim
  <1>1. CASE ClaimIncidents(w)
    <2>1. SurfaceShape'
      BY <1>1 DEF ClaimIncidents
    <2>2. EventsAccounted'
      BY <1>1 DEF ClaimIncidents, EventsAccounted
    <2>3. ClaimsAccounted'
      BY <1>1 DEF ClaimIncidents, ClaimsAccounted, EventsAccounted
    <2> QED BY <2>1, <2>2, <2>3
  <1>2. CASE DieHolding(w)
    <2>1. SurfaceShape'
      BY <1>2 DEF DieHolding, NothingClaimed
    <2>2. EventsAccounted'
      BY <1>2 DEF DieHolding, EventsAccounted
    <2>3. ClaimsAccounted'
      BY <1>2 DEF DieHolding, ClaimsAccounted, NothingClaimed
    <2> QED BY <2>1, <2>2, <2>3
  <1>3. CASE \E i \in Incident : DeferIncident(w, i)
    <2>1. SurfaceShape'
      BY <1>3 DEF DeferIncident
    <2>2. EventsAccounted'
      BY <1>3 DEF DeferIncident, EventsAccounted
    <2>3. ClaimsAccounted'
      BY <1>3 DEF DeferIncident, ClaimsAccounted
    <2> QED BY <2>1, <2>2, <2>3
  <1>4. CASE \E i \in Incident : MarkSurfaced(w, i)
    <2>0. incident' \in [Incident -> IncidentRow] /\ holding' \in [Publisher -> [Incident -> Claim]]
      <3>1. PICK i \in Incident : MarkSurfaced(w, i)
        BY <1>4
      <3>2. incident' \in [Incident -> IncidentRow]
        <4>1. incident' = incident \/ incident' = [incident EXCEPT ![i].surfaced = TRUE]
          BY <3>1 DEF MarkSurfaced
        <4>2. [incident[i] EXCEPT !.surfaced = TRUE] \in IncidentRow
          OBVIOUS
        <4> QED BY <4>1, <4>2
      <3>3. holding' \in [Publisher -> [Incident -> Claim]]
        BY <3>1 DEF MarkSurfaced
      <3> QED BY <3>2, <3>3
    <2>1. SurfaceShape'
      BY <1>4, <2>0 DEF MarkSurfaced
    <2>2. EventsAccounted'
      BY <1>4 DEF MarkSurfaced, EventsAccounted, ClaimsAccounted
    <2>3. ClaimsAccounted'
      BY <1>4 DEF MarkSurfaced, ClaimsAccounted
    <2> QED BY <2>1, <2>2, <2>3
  <1>5. CASE \E i \in Incident : PublishIncident(w, i)
    <2>0. PICK i \in Incident : PublishIncident(w, i)
      BY <1>5
    <2>1. /\ channel'.keys = channel.keys \cup {i}
          /\ channel'.events = IF i \in channel.keys THEN channel.events
                               ELSE [channel.events EXCEPT ![i] = @ + 1]
          /\ incident' = incident /\ lapses' = lapses
      BY <2>0 DEF PublishIncident
    <2>2. SurfaceShape'
      BY <2>0 DEF PublishIncident
    <2>3. channel'.events[i] >= 1 /\ channel'.events[i] <= 1 + lapses[i]
      BY <2>0, <2>1 DEF PublishIncident, EventsAccounted, ClaimsAccounted
    <2>4. \A j \in Incident \ {i} :
              channel'.events[j] = channel.events[j] /\ (j \in channel'.keys <=> j \in channel.keys)
      BY <2>1
    <2>5. EventsAccounted'
      BY <2>0, <2>1, <2>3, <2>4 DEF PublishIncident, EventsAccounted, ClaimsAccounted
    <2>6. ClaimsAccounted'
      BY <2>0, <2>1, <2>3, <2>4 DEF PublishIncident, ClaimsAccounted
    <2> QED BY <2>2, <2>5, <2>6
  <1> QED BY <1>1, <1>2, <1>3, <1>4, <1>5

\* The accounts hold in every state of the specification.
LEMMA SurfaceInvariant == SurfaceSpec => []SurfaceInv
  <1>1. SurfaceInit => SurfaceInv
    BY SurfaceAssumption
    DEF SurfaceInit, SurfaceInv, SurfaceShape, EventsAccounted, ClaimsAccounted, IncidentRow,
        NothingClaimed, Claim, Unsurfaced, Stored
  <1>2. SurfaceInv /\ [SurfaceNext]_surfaceVars => SurfaceInv'
    <2>1. CASE UNCHANGED surfaceVars
      BY <2>1 DEF surfaceVars, SurfaceInv, SurfaceShape, EventsAccounted, ClaimsAccounted,
                  Unsurfaced, Stored
    <2> QED BY <2>1, IncidentStepKeepsInv, PublisherStepKeepsInv DEF SurfaceNext
  <1> QED BY <1>1, <1>2, PTL DEF SurfaceSpec

\* The Operator gets one event for each incident, and one more only for a key
\* that was forgotten before the mark.
THEOREM IncidentsAreToldOnce == SurfaceSpec => []OneEventPerIncident
  <1>1. SurfaceInv => OneEventPerIncident
    BY DEF SurfaceInv, SurfaceShape, EventsAccounted, OneEventPerIncident
  <1> QED BY <1>1, SurfaceInvariant, PTL
-------------------------------------------------------------------------------
(* Operator episodes. *)

\* A worker with a stage of its transaction behind it holds the table lock, and
\* no one has opened the episode it is about to open.
FilingExclusive ==
    \A w \in Worker :
        /\ cycle[w].at = "filing" => cycle[w].page \in Page
        /\ cycle[w].filing # "none" => cycle[w].at = "filing" /\ parserLock = w
        /\ cycle[w].filing = "opens" => parserHealth[cycle[w].page] # "broken"

EpisodeInv == EpisodeTypeOK /\ FilingExclusive /\ OneMailPerEpisode

\* What a process may come to remember outside a stage of its transaction.
Settled(c) ==
    /\ c \in Cycle
    /\ c.filing = "none"
    /\ c.at = "filing" => c.page \in Page
    /\ c.robotsMails = IF c.robotsOpen THEN 1 ELSE 0

\* A step that writes such a memory, and nothing durable, keeps the invariant.
LEMMA MemoryStepKeepsInv ==
    ASSUME EpisodeInv, NEW w \in Worker, NEW c, Settled(c), Becomes(w, c), UNCHANGED Durable
    PROVE  EpisodeInv'
  <1>1. /\ cycle' \in [Worker -> Cycle] /\ cycle'[w] = c
        /\ \A v \in Worker \ {w} : cycle'[v] = cycle[v]
    BY DEF EpisodeInv, EpisodeTypeOK, Becomes, Settled
  <1>2. EpisodeTypeOK'
    BY <1>1 DEF EpisodeInv, EpisodeTypeOK, Durable
  <1>3. FilingExclusive'
    BY <1>1 DEF EpisodeInv, FilingExclusive, Settled, Durable
  <1>4. OneMailPerEpisode'
    BY <1>1 DEF EpisodeInv, OneMailPerEpisode, ParserMailedOnce, RobotsMailedOnce, Settled, Durable
  <1> QED BY <1>2, <1>3, <1>4 DEF EpisodeInv

\* The steps of a cycle outside the transactions.
LEMMA CycleStepKeepsInv ==
    ASSUME EpisodeInv, NEW w \in Worker, CycleStep(w)
    PROVE  EpisodeInv'
  <1>0. /\ cycle[w] \in Cycle
        /\ cycle[w].at # "filing" => Settled(cycle[w])
    BY DEF EpisodeInv, EpisodeTypeOK, FilingExclusive, OneMailPerEpisode, RobotsMailedOnce,
           Settled, Cycle
  <1>1. CASE BeginSections(w)
    <2>1. PICK due \in SUBSET Page :
              Becomes(w, [cycle[w] EXCEPT !.at = "fetching", !.due = due, !.skipped = FALSE])
      BY <1>1 DEF BeginSections
    <2>2. Settled([cycle[w] EXCEPT !.at = "fetching", !.due = due, !.skipped = FALSE])
      BY <1>0, <1>1 DEF BeginSections, Settled, Cycle
    <2> QED BY <1>1, <2>1, <2>2, MemoryStepKeepsInv DEF BeginSections
  <1>2. CASE InterruptCycle(w)
    <2>1. Settled([cycle[w] EXCEPT !.due = {}])
      BY <1>0, <1>2 DEF InterruptCycle, Settled, Cycle
    <2> QED BY <1>2, <2>1, MemoryStepKeepsInv DEF InterruptCycle
  <1>3. CASE EndCycle(w)
    <2>1. Settled([cycle[w] EXCEPT !.at = "idle"])
      BY <1>0, <1>3 DEF EndCycle, Settled, Cycle
    <2>2. 0 \in 0..MaxMails
      BY EpisodeAssumption
    <2>3. Settled([cycle[w] EXCEPT !.at = "idle", !.robotsOpen = FALSE, !.robotsMails = 0])
      BY <1>0, <1>3, <2>2 DEF EndCycle, Settled, Cycle
    <2> QED BY <1>3, <2>1, <2>3, MemoryStepKeepsInv DEF EndCycle
  <1>4. ASSUME NEW p \in Page, PassSection(w, p)
        PROVE  EpisodeInv'
    <2>1. Settled([cycle[w] EXCEPT !.due = @ \ {p}])
      BY <1>0, <1>4 DEF PassSection, Settled, Cycle
    <2> QED BY <1>4, <2>1, MemoryStepKeepsInv DEF PassSection
  <1>5. ASSUME NEW p \in Page, ReadPage(w, p)
        PROVE  EpisodeInv'
    <2>1. PICK v \in {"broken", "parsed"} :
              Becomes(w, [cycle[w] EXCEPT !.at = "filing", !.page = p, !.verdict = v])
      BY <1>5 DEF ReadPage
    <2>2. Settled([cycle[w] EXCEPT !.at = "filing", !.page = p, !.verdict = v])
      BY <1>0, <1>5 DEF ReadPage, Settled, Cycle
    <2> QED BY <1>5, <2>1, <2>2, MemoryStepKeepsInv DEF ReadPage
  <1>6. ASSUME NEW p \in Page, RobotsFailure(w, p)
        PROVE  EpisodeInv'
    <2> DEFINE c == [cycle[w] EXCEPT !.due = {}, !.skipped = TRUE]
    <2>1. Settled(c) /\ c.at = "fetching"
      BY <1>0, <1>6 DEF RobotsFailure, Settled, Cycle
    <2>2. CASE Becomes(w, c)
      BY <1>6, <2>1, <2>2, MemoryStepKeepsInv DEF RobotsFailure
    <2>3. CASE /\ ~c.robotsOpen /\ c.robotsMails < MaxMails
               /\ Becomes(w, [c EXCEPT !.robotsOpen = TRUE, !.robotsMails = @ + 1])
      <3>1. c.robotsMails = 0 /\ c.robotsMails + 1 = 1 /\ 1 \in 0..MaxMails
        BY <2>1, <2>3, EpisodeAssumption DEF Settled
      <3>2. [c EXCEPT !.robotsOpen = TRUE, !.robotsMails = 1] \in Cycle
        BY <2>1, <3>1 DEF Settled, Cycle
      <3>3. Settled([c EXCEPT !.robotsOpen = TRUE, !.robotsMails = 1])
        BY <2>1, <3>2 DEF Settled, Cycle
      <3>4. Becomes(w, [c EXCEPT !.robotsOpen = TRUE, !.robotsMails = 1])
        BY <2>3, <3>1
      <3> QED BY <1>6, <3>3, <3>4, MemoryStepKeepsInv DEF RobotsFailure
    <2>4. CASE Becomes(w, [c EXCEPT !.at = "idle"])
      <3>1. Settled([c EXCEPT !.at = "idle"])
        BY <2>1 DEF Settled, Cycle
      <3> QED BY <1>6, <2>4, <3>1, MemoryStepKeepsInv DEF RobotsFailure
    <2> QED BY <1>6, <2>2, <2>3, <2>4 DEF RobotsFailure
  <1> QED BY <1>1, <1>2, <1>3, <1>4, <1>5, <1>6 DEF CycleStep

\* A worker that leaves its transaction with the memory c, having changed the
\* episode of page p alone, or nothing.
LEMMA FilingEndsKeepsInv ==
    ASSUME EpisodeInv, NEW w \in Worker, NEW c, Settled(c), Becomes(w, c), parserLock' = "free",
           cycle[w].filing # "none", NEW p \in Page, NEW row \in {"absent", "healthy", "broken"},
           1 <= MaxMails \/ row # "broken",
           \/ UNCHANGED <<parserHealth, parserMails>>
           \/ /\ parserHealth' = [parserHealth EXCEPT ![p] = row]
              /\ parserMails' = [parserMails EXCEPT ![p] = IF row = "broken" THEN 1 ELSE 0]
    PROVE  EpisodeInv'
  <1>1. /\ cycle' \in [Worker -> Cycle] /\ cycle'[w] = c
        /\ \A v \in Worker \ {w} : cycle'[v] = cycle[v] /\ cycle[v].filing = "none"
    BY DEF EpisodeInv, EpisodeTypeOK, FilingExclusive, Becomes, Settled
  <1>2. EpisodeTypeOK'
    BY <1>1, EpisodeAssumption DEF EpisodeInv, EpisodeTypeOK
  <1>3. FilingExclusive'
    BY <1>1 DEF EpisodeInv, FilingExclusive, Settled
  <1>4. OneMailPerEpisode'
    BY <1>1 DEF EpisodeInv, EpisodeTypeOK, OneMailPerEpisode, ParserMailedOnce,
                RobotsMailedOnce, Settled
  <1> QED BY <1>2, <1>3, <1>4 DEF EpisodeInv

\* The stages of a transaction, and the death that undoes them.
LEMMA FilingStepKeepsInv ==
    ASSUME EpisodeInv, NEW w \in Worker, FilingStep(w) \/ CrashCycle(w)
    PROVE  EpisodeInv'
  <1> DEFINE p == cycle[w].page
             left == [cycle[w] EXCEPT !.at = "fetching", !.due = @ \ {cycle[w].page},
                                      !.page = "none", !.verdict = "none", !.filing = "none"]
  <1>0. /\ cycle[w] \in Cycle /\ Settled(left)
        /\ cycle[w].at = "filing" => p \in Page
    <2>1. /\ cycle[w] \in Cycle
          /\ cycle[w].at = "filing" => p \in Page
          /\ cycle[w].robotsMails = IF cycle[w].robotsOpen THEN 1 ELSE 0
      BY DEF EpisodeInv, EpisodeTypeOK, FilingExclusive, OneMailPerEpisode, RobotsMailedOnce
    <2>2. left \in Cycle /\ left.filing = "none" /\ left.at = "fetching"
      BY <2>1 DEF Cycle
    <2>3. left.robotsMails = cycle[w].robotsMails /\ left.robotsOpen = cycle[w].robotsOpen
      BY <2>1 DEF Cycle
    <2> QED BY <2>1, <2>2, <2>3 DEF Settled
  <1>1. CASE LockParserHealth(w)
    <2>0. \A v \in Worker : cycle[v].filing = "none"
      BY <1>1, EpisodeAssumption DEF LockParserHealth, EpisodeInv, FilingExclusive
    <2>1. /\ cycle' = [cycle EXCEPT ![w] = [cycle[w] EXCEPT !.filing = "locked"]]
          /\ cycle' \in [Worker -> Cycle]
          /\ parserLock' = w /\ UNCHANGED <<parserHealth, parserMails>>
          /\ \A v \in Worker : cycle[v].filing = "none"
      BY <1>0, <1>1, <2>0 DEF LockParserHealth, Becomes, EpisodeInv, EpisodeTypeOK, Cycle
    <2>2. EpisodeTypeOK'
      BY <2>1 DEF EpisodeInv, EpisodeTypeOK
    <2>3. FilingExclusive'
      BY <1>0, <1>1, <2>1 DEF LockParserHealth, EpisodeInv, EpisodeTypeOK, FilingExclusive, Cycle
    <2>4. OneMailPerEpisode'
      BY <2>1 DEF EpisodeInv, EpisodeTypeOK, Cycle, OneMailPerEpisode, ParserMailedOnce,
                  RobotsMailedOnce
    <2> QED BY <2>2, <2>3, <2>4 DEF EpisodeInv
  <1>2. CASE ReadParserHealth(w) /\ parserHealth[p] = "broken"
    BY <1>0, <1>2, FilingEndsKeepsInv DEF ReadParserHealth, Filed, EpisodeInv, FilingExclusive
  <1>3. CASE ReadParserHealth(w) /\ parserHealth[p] # "broken"
    <2>1. /\ cycle' = [cycle EXCEPT ![w] = [cycle[w] EXCEPT !.filing = "opens"]]
          /\ cycle' \in [Worker -> Cycle]
          /\ UNCHANGED <<parserLock, parserHealth, parserMails>>
          /\ cycle[w].filing = "locked"
      BY <1>0, <1>3 DEF ReadParserHealth, Becomes, EpisodeInv, EpisodeTypeOK, Cycle
    <2>2. EpisodeTypeOK'
      BY <2>1 DEF EpisodeInv, EpisodeTypeOK
    <2>3. FilingExclusive'
      BY <1>0, <1>3, <2>1 DEF EpisodeInv, EpisodeTypeOK, FilingExclusive, Cycle
    <2>4. OneMailPerEpisode'
      BY <2>1 DEF EpisodeInv, EpisodeTypeOK, Cycle, OneMailPerEpisode, ParserMailedOnce,
                  RobotsMailedOnce
    <2> QED BY <2>2, <2>3, <2>4 DEF EpisodeInv
  <1>4. CASE OpenEpisode(w)
    <2>1. p \in Page /\ parserMails[p] = 0 /\ 1 <= MaxMails /\ cycle[w].filing # "none"
      BY <1>0, <1>4, EpisodeAssumption
      DEF OpenEpisode, EpisodeInv, FilingExclusive, OneMailPerEpisode, ParserMailedOnce
    <2>2. /\ parserHealth' = [parserHealth EXCEPT ![p] = "broken"]
          /\ parserMails' = [parserMails EXCEPT ![p] = 1]
          /\ Filed(w)
      BY <1>4, <2>1 DEF OpenEpisode
    <2> QED BY <1>0, <2>1, <2>2, FilingEndsKeepsInv DEF Filed
  <1>5. CASE RecoverEpisode(w)
    <2>1. /\ p \in Page /\ cycle[w].filing # "none" /\ Filed(w)
          /\ \/ UNCHANGED <<parserHealth, parserMails>>
             \/ /\ parserHealth' = [parserHealth EXCEPT ![p] = "healthy"]
                /\ parserMails' = [parserMails EXCEPT ![p] = 0]
      BY <1>0, <1>5 DEF RecoverEpisode, EpisodeInv, FilingExclusive
    <2> QED BY <1>0, <2>1, FilingEndsKeepsInv DEF Filed
  <1>6. CASE CrashCycle(w)
    <2>1. Settled(NewProcess)
      BY EpisodeAssumption DEF Settled, Cycle, NewProcess
    <2>2. CASE cycle[w].filing # "none"
      <3>1. parserLock' = "free" /\ cycle[w].page \in Page
        BY <1>6, <2>2 DEF CrashCycle, EpisodeInv, FilingExclusive
      <3> QED BY <1>6, <2>1, <2>2, <3>1, FilingEndsKeepsInv DEF CrashCycle
    <2>3. CASE cycle[w].filing = "none"
      <3>1. CASE parserLock # w
        BY <1>6, <2>1, <3>1, MemoryStepKeepsInv DEF CrashCycle, Durable
      <3>2. CASE parserLock = w
        <4>1. /\ cycle' \in [Worker -> Cycle] /\ cycle'[w] = NewProcess
              /\ \A v \in Worker \ {w} : cycle'[v] = cycle[v] /\ cycle[v].filing = "none"
              /\ parserLock' = "free" /\ UNCHANGED <<parserHealth, parserMails>>
          BY <1>6, <2>1, <3>2 DEF CrashCycle, Becomes, Settled, EpisodeInv, EpisodeTypeOK,
                                  FilingExclusive
        <4>2. EpisodeTypeOK' /\ FilingExclusive'
          BY <2>1, <4>1 DEF EpisodeInv, EpisodeTypeOK, FilingExclusive, Settled
        <4>3. OneMailPerEpisode'
          BY <2>1, <4>1 DEF EpisodeInv, OneMailPerEpisode, ParserMailedOnce, RobotsMailedOnce,
                            Settled
        <4> QED BY <4>2, <4>3 DEF EpisodeInv
      <3> QED BY <3>1, <3>2
    <2> QED BY <2>2, <2>3
  <1> QED BY <1>1, <1>2, <1>3, <1>4, <1>5, <1>6 DEF FilingStep

\* The invariant of the episodes.
LEMMA EpisodeInvariant == EpisodeSpec => []EpisodeInv
  <1>1. EpisodeInit => EpisodeInv
    BY EpisodeAssumption
    DEF EpisodeInit, EpisodeInv, EpisodeTypeOK, FilingExclusive, OneMailPerEpisode,
        ParserMailedOnce, RobotsMailedOnce, Cycle, NewProcess
  <1>2. EpisodeInv /\ [EpisodeNext]_episodeVars => EpisodeInv'
    <2>1. CASE UNCHANGED episodeVars
      BY <2>1 DEF episodeVars, EpisodeInv, EpisodeTypeOK, FilingExclusive, OneMailPerEpisode,
                  ParserMailedOnce, RobotsMailedOnce
    <2> QED BY <2>1, CycleStepKeepsInv, FilingStepKeepsInv DEF EpisodeNext
  <1> QED BY <1>1, <1>2, PTL DEF EpisodeSpec

\* One operator mail per episode, whichever workers overlap, repeat or die.
THEOREM EpisodesAreMailedOnce == EpisodeSpec => []OneMailPerEpisode
  BY EpisodeInvariant, PTL DEF EpisodeInv
===============================================================================
