-------------------------- MODULE MailOutboxHistory --------------------------
(***************************************************************************)
(* MailOutbox with one piece of history, and the statements of the         *)
(* repository's comments and specification that the code does not keep.    *)
(***************************************************************************)
EXTENDS MCMailOutbox

\* Blind-window disclosures whose Watch was removed while they were unsent.
VARIABLE orphaned

HistoryInit == Init /\ orphaned = {}
HistoryNext ==
    /\ Next
    /\ orphaned' = {j \in Job : /\ Kind[j] = "blind-window"
                                /\ mail'[j].status \in Live
                                /\ j \in orphaned \/ mail[j].owner \in watching \ watching'}
HistorySpec == HistoryInit /\ [][HistoryNext]_<<vars, orphaned>>

\* claimMailBatch's comment: a Blind-window disclosure is undeliverable once the
\* Watch that justified it is gone.  No claim may take one whose Watch was removed.
NoOrphanedDisclosureClaimed ==
    [][\A j \in orphaned, d \in Dispatcher :
           worker'[d].work[j] = "claimed" => worker[d].work[j] = "claimed"]_<<vars, orphaned>>

\* deleteSubscriber's comment: the cascade cannot erase a dead-letter incident
\* before it is resolved.
IncidentKeptUntilResolved ==
    [][\A j \in Job : OpenIncident(j) => incident'[j] # "none"]_vars

\* The specification's AC-19: an unsent alert older than its expiry is never
\* delivered.
NoExpiredAlertDelivered ==
    [][\A j \in Job : Kind[j] = "alert" /\ provider[j].emails = 0 /\ provider'[j].emails = 1
           => clock < Deadline(j)]_vars
=============================================================================
