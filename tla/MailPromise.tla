------------------------------ MODULE MailPromise ------------------------------
(***************************************************************************)
(* What the outbox promises for each piece of mail, without rows, claims   *)
(* or workers: accepted mail is owed until it is fulfilled by one delivery, *)
(* withdrawn, or escalated to the Operator; the outcome stands until the    *)
(* record is erased; and at most one email is ever delivered.               *)
(***************************************************************************)
EXTENDS Naturals

CONSTANT Job

VARIABLES
    promise,  \* [Job -> "none", "owed", an outcome, or "erased"]
    emails    \* [Job -> number of emails delivered]

vars == <<promise, emails>>

Outcome == {"fulfilled", "withdrawn", "escalated"}

Init ==
    /\ promise = [j \in Job |-> "none"]
    /\ emails = [j \in Job |-> 0]

\* One job's legal steps, from (p, n) to (q, m).  A delivery may still arrive
\* after the promise was withdrawn, escalated or erased.
Legal(p, n, q, m) ==
    \/ p = "none" /\ q = "owed" /\ m = n
    \/ p # "none" /\ q = p /\ n = 0 /\ m = 1
    \/ p = "owed" /\ q \in {"withdrawn", "escalated"} /\ m = n
    \/ p = "owed" /\ q = "fulfilled" /\ n = 1 /\ m = n
    \/ p \in Outcome \cup {"owed"} /\ q = "erased" /\ m = n
    \/ q = p /\ m = n

\* One transaction may move several jobs.
Next ==
    /\ promise' \in [Job -> {"none", "owed", "erased"} \cup Outcome]
    /\ emails' \in [Job -> 0..1]
    /\ \A j \in Job : Legal(promise[j], emails[j], promise'[j], emails'[j])

Spec == Init /\ [][Next]_vars
=============================================================================
