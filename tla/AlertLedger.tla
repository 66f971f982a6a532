------------------------------- MODULE AlertLedger -------------------------------
(***************************************************************************)
(* The compatibility delivery ledger: runPollCycle of src/worker/poller.ts *)
(* claims an opening and its alert_deliveries in one commit, and mails     *)
(* them in the same cycle or retries them in a later one, through dispatch *)
(* of src/notify/index.ts.  One Section and one of its two opening signals *)
(* are modelled.  Cycles of several workers overlap, die anywhere, and     *)
(* lose the provider's answer or their own mark of it.                     *)
(***************************************************************************)
EXTENDS Naturals, FiniteSets

CONSTANTS
    Cycler,       \* worker processes that run poll cycles
    Recipient,    \* confirmed Subscribers
    MaxClaims     \* bound: openings claimed

ASSUME LedgerAssumption == MaxClaims \in Nat

VARIABLES
    ledger,       \* [Delivery -> row of alert_deliveries]
    section,      \* the class_state row; covers: Watches up to observed_watch_order
    person,       \* [Recipient -> whether a Watch on the Section is live]
    hygiene,      \* addresses on the suppression list
    expired,      \* openings whose expires_at has passed
    poll,         \* [Cycler -> its cycle]
    claims,       \* history: openings claimed
    mailer        \* external: keys the provider remembers, and emails delivered

ledgerVars == <<ledger, section, person, hygiene, expired, poll, claims, mailer>>
-------------------------------------------------------------------------------
\* A Subscriber and an opening, told apart by openedAt.
Opening == 1..MaxClaims
Delivery == Recipient \X Opening

\* due: next_attempt_at has come.  backed: the Watch still has the row's
\* watch_activation_order.
LedgerRow == [status : {"none", "pending", "sent", "cancelled", "dead"},
              due : BOOLEAN, backed : BOOLEAN]
NoDelivery == [status |-> "none", due |-> FALSE, backed |-> FALSE]

\* hand: what the cycle holds of each row.  cut: classGoneCutoff.  prev: the
\* status it compares with, "baseline" when absent or stale.  current: no write
\* replaced the version it read.  recent: recentlyDeliveredKeys of the process
\* (bound: none is forgotten).
InHand == {"no", "listed", "fresh", "eligible", "ineligible", "cleared", "answered", "failed"}
Poll == [at : {"idle", "listing", "planning", "fetching", "read", "draining", "retrying"},
         hand : [Delivery -> InHand], cut : SUBSET Recipient, page : {"open", "closed"},
         prev : {"baseline", "open", "closed"}, current : BOOLEAN, recent : SUBSET Delivery]
EmptyHand == [d \in Delivery |-> "no"]
NewPoll == [at |-> "idle", hand |-> EmptyHand, cut |-> {}, page |-> "closed",
            prev |-> "baseline", current |-> FALSE, recent |-> {}]

LedgerTypeOK ==
    /\ ledger \in [Delivery -> LedgerRow]
    /\ section \in [last : {"absent", "open", "closed"}, covers : SUBSET Recipient]
    /\ person \in [Recipient -> {"watching", "away", "deleted"}]
    /\ hygiene \subseteq Recipient
    /\ expired \subseteq Opening
    /\ poll \in [Cycler -> Poll]
    /\ claims \in 0..MaxClaims
    /\ mailer \in [keys : SUBSET Delivery, delivered : [Delivery -> Nat]]

LedgerInit ==
    /\ ledger = [d \in Delivery |-> NoDelivery]
    /\ section = [last |-> "absent", covers |-> {}]
    /\ person = [r \in Recipient |-> "watching"]
    /\ hygiene = {}
    /\ expired = {}
    /\ poll = [w \in Cycler |-> NewPoll]
    /\ claims = 0
    /\ mailer = [keys |-> {}, delivered |-> [d \in Delivery |-> 0]]

Polls(w, c) == poll' = [poll EXCEPT ![w] = c]
Holds(w, d, h) == Polls(w, [poll[w] EXCEPT !.hand[d] = h])

Pending(d) == ledger[d].status = "pending"
Watching == {r \in Recipient : person[r] = "watching"}

\* Rows of D that are pending end as status.
Settle(D, status) ==
    ledger' = [d \in Delivery |->
        IF d \in D /\ Pending(d) THEN [ledger[d] EXCEPT !.status = status] ELSE ledger[d]]
-------------------------------------------------------------------------------
(* The Subscribers, the clock and the provider. *)

StartAlerts(r) ==
    /\ person[r] = "away"
    /\ person' = [person EXCEPT ![r] = "watching"]
    /\ UNCHANGED <<ledger, section, hygiene, expired, poll, claims, mailer>>

\* The Watches of R leave: their rows lose their backing, and a later Watch is
\* neither covered by an earlier observation nor by a running cycle's cutoff.
Leave(R) ==
    /\ section' = [section EXCEPT !.covers = @ \ R]
    /\ poll' = [w \in Cycler |-> [poll[w] EXCEPT !.cut = @ \ R]]

\* removeWatch, which leaves the row to the check before its dispatch.
StopAlerts(r) ==
    /\ person[r] = "watching"
    /\ person' = [person EXCEPT ![r] = "away"]
    /\ Leave({r})
    /\ ledger' = [d \in Delivery |->
           IF d[1] = r THEN [ledger[d] EXCEPT !.backed = FALSE] ELSE ledger[d]]
    /\ UNCHANGED <<hygiene, expired, claims, mailer>>

\* deleteSubscriber: the rows go with their owner.
DeleteRecipient(r) ==
    /\ person[r] # "deleted"
    /\ person' = [person EXCEPT ![r] = "deleted"]
    /\ Leave({r})
    /\ ledger' = [d \in Delivery |-> IF d[1] = r THEN NoDelivery ELSE ledger[d]]
    /\ UNCHANGED <<hygiene, expired, claims, mailer>>

SuppressAddress(r) ==
    /\ r \notin hygiene
    /\ hygiene' = hygiene \cup {r}
    /\ UNCHANGED <<ledger, section, person, expired, poll, claims, mailer>>

DueAgain(d) ==
    /\ Pending(d) /\ ~ledger[d].due
    /\ ledger' = [ledger EXCEPT ![d].due = TRUE]
    /\ UNCHANGED <<section, person, hygiene, expired, poll, claims, mailer>>

\* An hour after openedAt.
ExpireOpening(n) ==
    /\ n \in 1..claims \ expired
    /\ expired' = expired \cup {n}
    /\ UNCHANGED <<ledger, section, person, hygiene, poll, claims, mailer>>

\* External: the provider keeps a key for a day, far longer than a row lives
\* and than one dispatch takes.
ForgetKey(d) ==
    /\ d \in mailer.keys
    /\ d[2] \in expired
    /\ \A w \in Cycler : poll[w].hand[d] \notin {"eligible", "cleared"}
    /\ mailer' = [mailer EXCEPT !.keys = @ \ {d}]
    /\ UNCHANGED <<ledger, section, person, hygiene, expired, poll, claims>>
-------------------------------------------------------------------------------
(* The first half of runPollCycle: what is pending, and the Section. *)

\* The update of listPendingAlertDeliveries.
ExpireLedger(w) ==
    /\ poll[w].at = "idle"
    /\ Polls(w, [poll[w] EXCEPT !.at = "listing"])
    /\ Settle({d \in Delivery : d[2] \in expired}, "dead")
    /\ UNCHANGED <<section, person, hygiene, expired, claims, mailer>>

\* Its select.
ListPending(w) ==
    /\ poll[w].at = "listing"
    /\ Polls(w, [poll[w] EXCEPT !.at = "planning", !.hand = [d \in Delivery |->
           IF Pending(d) /\ ledger[d].due /\ d[2] \notin expired THEN "listed" ELSE "no"]])
    /\ UNCHANGED <<ledger, section, person, hygiene, expired, claims, mailer>>

\* getDistinctWatchedClassKeys and getPollCycleCutoff.
PlanCycle(w) ==
    /\ poll[w].at = "planning"
    /\ Polls(w, [poll[w] EXCEPT !.at = IF Watching = {} THEN "draining" ELSE "fetching",
                                !.cut = Watching])
    /\ UNCHANGED <<ledger, section, person, hygiene, expired, claims, mailer>>

\* The fetch throws, or the page does not parse: the Operator is told, the
\* claims of other cycles are still retried.
ReadNothing(w) ==
    /\ poll[w].at = "fetching"
    /\ Polls(w, [poll[w] EXCEPT !.at = "draining", !.cut = {}])
    /\ UNCHANGED <<ledger, section, person, hygiene, expired, claims, mailer>>

\* retireWatchesForClass, for Watches no newer than the cutoff.
RetireSection(w) ==
    /\ poll[w].at = "fetching"
    /\ LET gone == poll[w].cut \cap Watching
       IN  /\ person' = [r \in Recipient |-> IF r \in gone THEN "away" ELSE person[r]]
           /\ section' = [section EXCEPT !.covers = @ \ gone]
           /\ poll' = [v \in Cycler |->
                  IF v = w THEN [poll[w] EXCEPT !.at = "draining", !.cut = {}]
                  ELSE [poll[v] EXCEPT !.cut = @ \ gone]]
           /\ ledger' = [d \in Delivery |->
                  [ledger[d] EXCEPT !.status = IF @ = "pending" THEN "cancelled" ELSE @,
                                    !.backed = @ /\ d[1] \notin gone]]
    /\ UNCHANGED <<hygiene, expired, claims, mailer>>

\* A page that parses, and the getClassState that follows it; a row older than
\* ten poll intervals counts as a baseline.
ReadSection(w) ==
    /\ poll[w].at = "fetching"
    /\ \E page \in {"open", "closed"}, stale \in BOOLEAN :
           Polls(w, [poll[w] EXCEPT !.at = "read", !.cut = {}, !.page = page, !.current = TRUE,
                     !.prev = IF stale \/ section.last = "absent" THEN "baseline"
                              ELSE section.last])
    /\ UNCHANGED <<ledger, section, person, hygiene, expired, claims, mailer>>

Opened(w) == poll[w].prev = "closed" /\ poll[w].page = "open"

\* The write of a new class_state row: nobody else's version is current, and
\* the Watches alive now are covered.
Replace(w, hand) ==
    /\ section' = [last |-> poll[w].page, covers |-> Watching]
    /\ poll' = [v \in Cycler |->
           IF v = w THEN [NewPoll EXCEPT !.at = "draining", !.hand = hand, !.recent = poll[w].recent]
           ELSE [poll[v] EXCEPT !.current = FALSE]]

\* upsertClassState: a closed Section cancels its pending rows.
UpsertSection(w) ==
    /\ poll[w].at = "read"
    /\ ~Opened(w)
    /\ Replace(w, poll[w].hand)
    /\ Settle(IF poll[w].page = "closed" THEN Delivery ELSE {}, "cancelled")
    /\ UNCHANGED <<person, hygiene, expired, claims, mailer>>

\* claimOpeningDeliveries: the version is replaced and every covered Watch gets
\* its row in one commit.
ClaimOpening(w) ==
    /\ poll[w].at = "read"
    /\ Opened(w) /\ poll[w].current
    /\ claims < MaxClaims
    /\ LET targets == {<<r, claims + 1>> : r \in Watching \cap section.covers}
       IN  /\ Replace(w, [d \in Delivery |-> IF d \in targets THEN "fresh" ELSE poll[w].hand[d]])
           /\ ledger' = [d \in Delivery |->
                  IF d \in targets THEN [status |-> "pending", due |-> TRUE, backed |-> TRUE]
                  ELSE ledger[d]]
    /\ claims' = claims + 1
    /\ UNCHANGED <<person, hygiene, expired, mailer>>

\* Another worker already consumed this transition.
MissOpening(w) ==
    /\ poll[w].at = "read"
    /\ Opened(w) /\ ~poll[w].current
    /\ Polls(w, [poll[w] EXCEPT !.at = "draining", !.page = "closed", !.prev = "baseline"])
    /\ UNCHANGED <<ledger, section, person, hygiene, expired, claims, mailer>>
-------------------------------------------------------------------------------
(* The second half: fresh claims first, then the rows that were pending. *)

StartRetries(w) ==
    /\ poll[w].at = "draining"
    /\ \A d \in Delivery : poll[w].hand[d] \in {"no", "listed"}
    /\ Polls(w, [poll[w] EXCEPT !.at = "retrying"])
    /\ UNCHANGED <<ledger, section, person, hygiene, expired, claims, mailer>>

Startable(w, d) ==
    \/ poll[w].at = "draining" /\ poll[w].hand[d] = "fresh"
    \/ poll[w].at = "retrying" /\ poll[w].hand[d] = "listed"

\* getEligibleAlertDelivery.
Eligible(d) == Pending(d) /\ ledger[d].backed /\ d[2] \notin expired

CheckDelivery(w, d) ==
    /\ Startable(w, d)
    /\ Holds(w, d, IF Eligible(d) THEN "eligible" ELSE "ineligible")
    /\ UNCHANGED <<ledger, section, person, hygiene, expired, claims, mailer>>

\* The budget of the wave is spent, or a statement on the row fails: the row
\* keeps its state and waits for a later cycle.
LeaveDelivery(w, d) ==
    /\ Startable(w, d) \/ poll[w].hand[d] \in {"ineligible", "failed"}
    /\ Holds(w, d, "no")
    /\ UNCHANGED <<ledger, section, person, hygiene, expired, claims, mailer>>

CancelDelivery(w, d) ==
    /\ poll[w].hand[d] = "ineligible"
    /\ Settle({d}, "cancelled")
    /\ Holds(w, d, "no")
    /\ UNCHANGED <<section, person, hygiene, expired, claims, mailer>>

\* Mutant: a failed suppression lookup passes for a suppressed address.
X_ScreenDelivery(w, d) ==
    /\ poll[w].hand[d] = "eligible"
    /\ \/ Holds(w, d, "answered")
       \/ d \notin poll[w].recent /\ d[1] \notin hygiene /\ Holds(w, d, "cleared")
    /\ UNCHANGED <<ledger, section, person, hygiene, expired, claims, mailer>>

\* dispatch up to the provider: a key delivered by this process is done, and so
\* is a suppressed address; the suppression lookup may fail.
ScreenDelivery(w, d) ==
    /\ poll[w].hand[d] = "eligible"
    /\ \/ d \in poll[w].recent /\ Holds(w, d, "answered")
       \/ d \notin poll[w].recent /\ d[1] \in hygiene /\ Holds(w, d, "answered")
       \/ d \notin poll[w].recent /\ d[1] \notin hygiene /\ Holds(w, d, "cleared")
       \/ d \notin poll[w].recent /\ Holds(w, d, "failed")
    /\ UNCHANGED <<ledger, section, person, hygiene, expired, claims, mailer>>

\* External: a key the provider remembers is answered and not mailed again.
Accept(d) ==
    mailer' = [keys |-> mailer.keys \cup {d},
               delivered |-> IF d \in mailer.keys THEN mailer.delivered
                             ELSE [mailer.delivered EXCEPT ![d] = @ + 1]]

\* transport.send: accepted, accepted with the answer lost, or refused.
SendDelivery(w, d) ==
    /\ poll[w].hand[d] = "cleared"
    /\ \/ /\ Accept(d)
          /\ Polls(w, [poll[w] EXCEPT !.hand[d] = "answered", !.recent = @ \cup {d}])
       \/ Accept(d) /\ Holds(w, d, "failed")
       \/ UNCHANGED mailer /\ Holds(w, d, "failed")
    /\ UNCHANGED <<ledger, section, person, hygiene, expired, claims>>

\* completeDelivery: the mark may fail, before or after it is committed.
MarkSent(w, d) ==
    /\ poll[w].hand[d] = "answered"
    /\ \/ Settle({d}, "sent") /\ Holds(w, d, "no")
       \/ Settle({d}, "sent") /\ Holds(w, d, "failed")
       \/ UNCHANGED ledger /\ Holds(w, d, "failed")
    /\ UNCHANGED <<section, person, hygiene, expired, claims, mailer>>

DeferDelivery(w, d) ==
    /\ poll[w].hand[d] = "failed"
    /\ ledger' = IF Pending(d) /\ d[2] \notin expired
                 THEN [ledger EXCEPT ![d].due = FALSE] ELSE ledger
    /\ Holds(w, d, "no")
    /\ UNCHANGED <<section, person, hygiene, expired, claims, mailer>>

EndPoll(w) ==
    /\ poll[w].at = "retrying"
    /\ poll[w].hand = EmptyHand
    /\ Polls(w, [NewPoll EXCEPT !.recent = poll[w].recent])
    /\ UNCHANGED <<ledger, section, person, hygiene, expired, claims, mailer>>

DieInCycle(w) ==
    /\ poll[w] # NewPoll
    /\ Polls(w, NewPoll)
    /\ UNCHANGED <<ledger, section, person, hygiene, expired, claims, mailer>>
-------------------------------------------------------------------------------
PollStep(w) ==
    \/ ExpireLedger(w) \/ ListPending(w) \/ PlanCycle(w) \/ ReadNothing(w) \/ RetireSection(w)
    \/ ReadSection(w) \/ UpsertSection(w) \/ ClaimOpening(w) \/ MissOpening(w)
    \/ StartRetries(w) \/ EndPoll(w) \/ DieInCycle(w)

DispatchStep(w, d) ==
    \/ CheckDelivery(w, d) \/ LeaveDelivery(w, d) \/ CancelDelivery(w, d) \/ ScreenDelivery(w, d)
    \/ SendDelivery(w, d) \/ MarkSent(w, d) \/ DeferDelivery(w, d)

LedgerNext ==
    \/ \E r \in Recipient : StartAlerts(r) \/ StopAlerts(r) \/ DeleteRecipient(r) \/ SuppressAddress(r)
    \/ \E n \in Opening : ExpireOpening(n)
    \/ \E d \in Delivery : DueAgain(d) \/ ForgetKey(d)
    \/ \E w \in Cycler : PollStep(w) \/ \E d \in Delivery : DispatchStep(w, d)

LedgerSpec == LedgerInit /\ [][LedgerNext]_ledgerVars
-------------------------------------------------------------------------------
\* A claimed opening is mailed once and not marked for nothing: however the
\* cycles of several workers retry, die and lose answers or marks, the provider
\* mails a row at most once, because no retry outlives the row, and a row says
\* "sent" only when its mail is out or its address is suppressed.
ClaimAnsweredOnce ==
    \A d \in Delivery :
        /\ mailer.delivered[d] <= 1
        /\ ledger[d].status = "sent" => mailer.delivered[d] = 1 \/ d[1] \in hygiene
===============================================================================
