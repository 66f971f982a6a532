----------------------------- MODULE IncidentSurface -----------------------------
(***************************************************************************)
(* Telling the Operator of dead-letter incidents: the middle of            *)
(* runOutboxDispatchCycle (src/worker/v04.ts) with the claim and the mark  *)
(* of src/db/repo.ts.  A claim holds its row locks only while it selects,  *)
(* so overlapping dispatchers publish the same incident; the event's key   *)
(* is the incident's, and surfaced_at is stamped after the acceptance.     *)
(***************************************************************************)
EXTENDS Naturals

CONSTANTS
    Publisher,    \* dispatcher loops
    Incident,     \* dead-lettered rows
    MaxLapses     \* bound: days that pass before an accepted event is marked

ASSUME SurfaceAssumption == MaxLapses \in Nat

VARIABLES
    incident,     \* [Incident -> its row of dead_letter_incidents]
    holding,      \* [Publisher -> [Incident -> what its cycle holds of it]]
    channel,      \* external: keys the provider remembers, events it delivered
    lapses        \* [Incident -> keys forgotten while the event was not marked]

surfaceVars == <<incident, holding, channel, lapses>>
-------------------------------------------------------------------------------
IncidentRow == [state : {"none", "unresolved", "acknowledged", "resolved", "purged"},
                surfaced : BOOLEAN]
Claim == {"no", "claimed", "accepted"}
NothingClaimed == [i \in Incident |-> "no"]

SurfaceTypeOK ==
    /\ incident \in [Incident -> IncidentRow]
    /\ holding \in [Publisher -> [Incident -> Claim]]
    /\ channel \in [keys : SUBSET Incident, events : [Incident -> 0..(MaxLapses + 1)]]
    /\ lapses \in [Incident -> 0..MaxLapses]

SurfaceInit ==
    /\ incident = [i \in Incident |-> [state |-> "none", surfaced |-> FALSE]]
    /\ holding = [w \in Publisher |-> NothingClaimed]
    /\ channel = [keys |-> {}, events |-> [i \in Incident |-> 0]]
    /\ lapses = [i \in Incident |-> 0]

Stored(i) == incident[i].state \notin {"none", "purged"}
-------------------------------------------------------------------------------
(* The incident's own life. *)

OpenIncident(i) ==
    /\ incident[i].state = "none"
    /\ incident' = [incident EXCEPT ![i].state = "unresolved"]
    /\ UNCHANGED <<holding, channel, lapses>>

AcknowledgeIncident(i) ==
    /\ incident[i].state = "unresolved"
    /\ incident' = [incident EXCEPT ![i].state = "acknowledged"]
    /\ UNCHANGED <<holding, channel, lapses>>

ResolveIncident(i) ==
    /\ incident[i].state \in {"unresolved", "acknowledged"}
    /\ incident' = [incident EXCEPT ![i].state = "resolved"]
    /\ UNCHANGED <<holding, channel, lapses>>

\* Retention or the owner's deletion: a resolved incident goes with its row,
\* told of or not.
PurgeIncident(i) ==
    /\ incident[i].state = "resolved"
    /\ incident' = [incident EXCEPT ![i].state = "purged"]
    /\ UNCHANGED <<holding, channel, lapses>>

\* External: a day after the acceptance, far longer than a cycle holds a claim.
ForgetEvent(i) ==
    /\ i \in channel.keys
    /\ \A w \in Publisher : holding[w][i] = "no"
    /\ channel' = [channel EXCEPT !.keys = @ \ {i}]
    /\ IF incident[i].surfaced \/ ~Stored(i) THEN UNCHANGED lapses
       ELSE lapses[i] < MaxLapses /\ lapses' = [lapses EXCEPT ![i] = @ + 1]
    /\ UNCHANGED <<incident, holding>>
-------------------------------------------------------------------------------
(* runOutboxDispatchCycle. *)

\* Mutant: the claim does not look at surfaced_at.
X_Unsurfaced(i) == Stored(i)

Unsurfaced(i) == Stored(i) /\ ~incident[i].surfaced

ClaimIncidents(w) ==
    /\ holding[w] = NothingClaimed
    /\ \E i \in Incident : Unsurfaced(i)
    /\ holding' = [holding EXCEPT ![w] =
           [i \in Incident |-> IF Unsurfaced(i) THEN "claimed" ELSE "no"]]
    /\ UNCHANGED <<incident, channel, lapses>>

\* The provider takes the event, or knows its key already; its answer may be
\* lost.
PublishIncident(w, i) ==
    /\ holding[w][i] = "claimed"
    /\ \E answer \in {"accepted", "no"} : holding' = [holding EXCEPT ![w][i] = answer]
    /\ channel' = [keys |-> channel.keys \cup {i},
                   events |-> IF i \in channel.keys THEN channel.events
                              ELSE [channel.events EXCEPT ![i] = @ + 1]]
    /\ UNCHANGED <<incident, lapses>>

\* The abort, a missing publisher, an invalid incident or a refusal: the next
\* cycle claims it again.
DeferIncident(w, i) ==
    /\ holding[w][i] = "claimed"
    /\ holding' = [holding EXCEPT ![w][i] = "no"]
    /\ UNCHANGED <<incident, channel, lapses>>

\* markDeadLetterIncidentSurfaced, which finds the row, another mark or nothing;
\* or it fails, which fails the cycle once its siblings are done.
MarkSurfaced(w, i) ==
    /\ holding[w][i] = "accepted"
    /\ holding' = [holding EXCEPT ![w][i] = "no"]
    /\ \/ Stored(i) /\ incident' = [incident EXCEPT ![i].surfaced = TRUE]
       \/ UNCHANGED incident
    /\ UNCHANGED <<channel, lapses>>

DieHolding(w) ==
    /\ holding[w] # NothingClaimed
    /\ holding' = [holding EXCEPT ![w] = NothingClaimed]
    /\ UNCHANGED <<incident, channel, lapses>>
-------------------------------------------------------------------------------
SurfaceNext ==
    \/ \E i \in Incident :
           \/ OpenIncident(i) \/ AcknowledgeIncident(i) \/ ResolveIncident(i)
           \/ PurgeIncident(i) \/ ForgetEvent(i)
    \/ \E w \in Publisher :
           \/ ClaimIncidents(w) \/ DieHolding(w)
           \/ \E i \in Incident :
                  PublishIncident(w, i) \/ DeferIncident(w, i) \/ MarkSurfaced(w, i)

SurfaceSpec == SurfaceInit /\ [][SurfaceNext]_surfaceVars
-------------------------------------------------------------------------------
\* The Operator gets one event for each incident, whatever overlapping
\* dispatchers, deaths and lost answers repeat, and one more only for a key the
\* provider forgot before anyone marked its event; surfaced_at is never stamped
\* for an event the provider did not take.
OneEventPerIncident ==
    \A i \in Incident :
        /\ channel.events[i] <= 1 + lapses[i]
        /\ incident[i].surfaced => channel.events[i] >= 1
===============================================================================
