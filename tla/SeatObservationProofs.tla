-------------------------- MODULE SeatObservationProofs --------------------------
(***************************************************************************)
(* Proofs about SeatObservation, for any Subscribers and workers and any   *)
(* number of openings, crashes and resets: its types, that a worker        *)
(* replaces the row it read, that one opening alerts once and is never     *)
(* silent, and that a class-gone answer spares younger Watches; and for a  *)
(* single worker, that 304s restate the page and stale rows open nothing.  *)
(*                                                                         *)
(* The page's opening of a reason is told by its number.  An answer may be *)
(* older than the page but never newer (AnswerOlder), and an opening that  *)
(* was alerted stays open in class_state for as long as it lasts           *)
(* (AlertedStaysOpen), so no observation finds it newly open again.        *)
(***************************************************************************)
EXTENDS SeatObservation, TLAPS

\* What the memory of a worker keeps through a turn.
CutoffInv ==
    \A p \in Poller : /\ poller[p].cutoff <= order
                      /\ poller[p].step = "answered" => poller[p].cutoff <= poller[p].answer.order

\* was is what the page showed, at the time of an answer or now.
AnswerOlder(was) ==
    \A r \in Reasons :
        /\ was.opening[r].n <= page.opening[r].n
        /\ was.opening[r].n = page.opening[r].n /\ r \in page.open => r \in was.open

\* Every opening alerted for is one that was has seen, and if it lasts there it
\* is open in the row.
AlertedStaysOpen(was) ==
    \A s \in Subscriber, r \in Reasons, n \in 0..MaxOpenings :
        sent[s][r][n] # 0 => /\ n <= was.opening[r].n
                             /\ n = was.opening[r].n /\ r \in was.open => r \in state.open

AlertInv ==
    /\ OneAlertPerOpening
    /\ AlertedStaysOpen(page)
    /\ \A p \in Poller : poller[p].step = "answered" =>
           AnswerOlder(poller[p].answer.page) /\ AlertedStaysOpen(poller[p].answer.page)
-------------------------------------------------------------------------------
(* Types. *)

\* The records the actions write from nothing.
LEMMA ConstantRecords ==
    /\ NoState \in State /\ StartPage \in Page /\ NoAnswer \in Answer
    /\ \A h \in [known : BOOLEAN, open : SUBSET Reasons] : Asleep(h) \in Memory
    /\ NoHeld \in [known : BOOLEAN, open : SUBSET Reasons]
  <1>1. NoState \in State
    BY DEF NoState, State
  <1>2. StartPage \in Page
    <2>1. [n |-> 0, at |-> 0] \in Opening
      BY DEF Opening
    <2>2. [r \in Reasons |-> [n |-> 0, at |-> 0]] \in [Reasons -> Opening]
      BY <2>1
    <2> QED BY <2>2 DEF StartPage, Page
  <1>3. NoAnswer \in Answer
    BY <1>2 DEF NoAnswer, Answer
  <1>4. NoHeld \in [known : BOOLEAN, open : SUBSET Reasons]
    BY DEF NoHeld
  <1>5. ASSUME NEW h \in [known : BOOLEAN, open : SUBSET Reasons] PROVE Asleep(h) \in Memory
    BY <1>1, <1>3 DEF Asleep, Memory, Step
  <1> QED BY <1>1, <1>2, <1>3, <1>4, <1>5

\* The updates of a worker's memory.
LEMMA MemoryUpdates ==
    ASSUME NEW m \in Memory
    PROVE  /\ [m EXCEPT !.step = "handled"] \in Memory
           /\ \A h \in [known : BOOLEAN, open : SUBSET Reasons] :
                  [m EXCEPT !.step = "handled", !.held = h] \in Memory
           /\ \A c \in Nat : [m EXCEPT !.step = "ready", !.cutoff = c] \in Memory
           /\ \A s \in State : [m EXCEPT !.step = "fetching", !.previous = s] \in Memory
           /\ \A a \in Answer : [m EXCEPT !.step = "answered", !.answer = a] \in Memory
  BY DEF Memory, Step

\* A worker's new memory keeps the type of all of them.
LEMMA UpdateType ==
    ASSUME TypeOK, NEW p \in Poller, NEW m \in Memory, Update(p, m)
    PROVE  poller' \in [Poller -> Memory]
  BY DEF TypeOK, Update

\* The types hold initially.
LEMMA TypeInit == Init => TypeOK
  <1> SUFFICES ASSUME Init PROVE TypeOK
    OBVIOUS
  <1>1. page \in Page
    BY ConstantRecords DEF Init, Page
  <1>2. poller \in [Poller -> Memory]
    BY ConstantRecords DEF Init
  <1>3. sent \in [Subscriber -> [Reasons -> [0..MaxOpenings -> Nat]]]
    BY DEF Init
  <1>4. state \in State
    BY ConstantRecords DEF Init
  <1> QED BY <1>1, <1>2, <1>3, <1>4 DEF Init, TypeOK

\* A write of the row keeps its type.
LEMMA UpsertType ==
    ASSUME TypeOK, NEW p \in Poller, NEW open \in SUBSET Reasons, Upsert(p, open)
    PROVE  state' \in State /\ order' \in Nat
  <1>1. poller[p].answer.at \in Nat
    BY DEF TypeOK, Memory, Answer
  <1>2. NextState(p, open) \in State
    BY <1>1, ObservationBounds DEF TypeOK, State, NextState
  <1> QED BY <1>2 DEF Upsert, TypeOK

\* The parts of a worker's memory.
LEMMA MemoryParts ==
    ASSUME TypeOK, NEW p \in Poller
    PROVE  /\ poller[p] \in Memory /\ poller[p].previous \in State /\ poller[p].answer \in Answer
           /\ poller[p].answer.page \in Page /\ poller[p].cutoff \in Nat
           /\ poller[p].previous.open \in SUBSET Reasons
           /\ poller[p].answer.page.open \in SUBSET Reasons
           /\ poller[p].held \in [known : BOOLEAN, open : SUBSET Reasons]
  BY DEF TypeOK, Memory, State, Answer, Page

\* commitOpeningAndEnqueueMail adds one Alert for the opening to each target.
LEMMA OpeningAlerts ==
    ASSUME TypeOK, NEW p \in Poller, HandleOpening(p), CasHolds(p)
    PROVE  \E r \in Opened(p) :
               LET n == poller[p].answer.page.opening[r].n
               IN  /\ r \in Reasons
                   /\ sent' \in [Subscriber -> [Reasons -> [0..MaxOpenings -> Nat]]]
                   /\ \A s \in Subscriber, q \in Reasons, k \in 0..MaxOpenings :
                          sent'[s][q][k] = IF s \in Targets /\ q = r /\ k = n
                                           THEN sent[s][q][k] + 1 ELSE sent[s][q][k]
  <1>1. PICK r : r = OpeningReason(p)
    OBVIOUS
  <1>2. r \in Opened(p) /\ r \in Reasons
    BY <1>1, MemoryParts, ReasonsAssumption
    DEF HandleOpening, Transition, Opened, OpeningReason, NotifyReason
  <1>3. PICK n : n = poller[p].answer.page.opening[r].n
    OBVIOUS
  <1>4. sent' = [s \in Subscriber |->
                    IF s \in Targets THEN [sent[s] EXCEPT ![r][n] = @ + 1] ELSE sent[s]]
    BY <1>1, <1>3 DEF HandleOpening
  <1>5. ASSUME NEW s \in Subscriber
        PROVE  LET row == [sent[s] EXCEPT ![r][n] = @ + 1]
               IN  /\ row \in [Reasons -> [0..MaxOpenings -> Nat]]
                   /\ \A q \in Reasons, k \in 0..MaxOpenings :
                          row[q][k] = IF q = r /\ k = n THEN sent[s][q][k] + 1 ELSE sent[s][q][k]
    <2>1. sent[s] \in [Reasons -> [0..MaxOpenings -> Nat]]
      BY DEF TypeOK
    <2>2. PICK old \in [0..MaxOpenings -> Nat] : old = sent[s][r]
      BY <1>2, <2>1
    <2>3. PICK line : line = [old EXCEPT ![n] = old[n] + 1]
      OBVIOUS
    <2>4. \A k \in 0..MaxOpenings : line[k] = IF k = n THEN old[k] + 1 ELSE old[k]
      BY <2>3
    <2>5. DOMAIN line = 0..MaxOpenings /\ line = [k \in 0..MaxOpenings |-> line[k]]
      BY <2>3
    <2>6. \A k \in 0..MaxOpenings : line[k] \in Nat
      BY <2>4
    <2>7. /\ line \in [0..MaxOpenings -> Nat]
          /\ \A k \in 0..MaxOpenings : line[k] = IF k = n THEN sent[s][r][k] + 1 ELSE sent[s][r][k]
      BY <2>2, <2>4, <2>5, <2>6
    <2>8. [sent[s] EXCEPT ![r][n] = @ + 1] = [sent[s] EXCEPT ![r] = line]
      BY <1>2, <2>1, <2>3, <2>2
    <2> QED BY <1>2, <2>1, <2>7, <2>8
  <1>6. sent' \in [Subscriber -> [Reasons -> [0..MaxOpenings -> Nat]]]
    BY <1>4, <1>5 DEF TypeOK
  <1>7. \A s \in Subscriber, q \in Reasons, k \in 0..MaxOpenings :
            sent'[s][q][k] = IF s \in Targets /\ q = r /\ k = n
                             THEN sent[s][q][k] + 1 ELSE sent[s][q][k]
    BY <1>4, <1>5
  <1> QED BY <1>2, <1>3, <1>6, <1>7

\* Every step keeps the types.
LEMMA TypeStep == TypeOK /\ [Next]_vars => TypeOK'
  <1> SUFFICES ASSUME TypeOK, [Next]_vars PROVE TypeOK'
    OBVIOUS
  <1>1. CASE UNCHANGED vars
    BY <1>1 DEF vars, TypeOK
  <1>2. CASE Tick
    BY <1>2 DEF Tick, TypeOK
  <1>3. CASE PageChanges
    <2>1. PICK open \in SUBSET Reasons :
              page' = [page EXCEPT !.open = open,
                         !.opening = [r \in Reasons |->
                             IF r \in open \ page.open
                             THEN [n |-> page.opening[r].n + 1, at |-> clock]
                             ELSE page.opening[r]]]
      BY <1>3 DEF PageChanges
    <2>2. \A r \in Reasons : /\ page.opening[r] \in Opening
                             /\ [n |-> page.opening[r].n + 1, at |-> clock] \in Opening
      BY DEF TypeOK, Page, Opening
    <2>3. [r \in Reasons |-> IF r \in open \ page.open
                             THEN [n |-> page.opening[r].n + 1, at |-> clock]
                             ELSE page.opening[r]] \in [Reasons -> Opening]
      BY <2>2
    <2>4. page' \in Page
      BY <2>1, <2>3 DEF TypeOK, Page
    <2> QED BY <1>3, <2>4 DEF PageChanges, TypeOK
  <1>4. CASE PageListed
    <2>1. page' \in Page
      BY <1>4 DEF PageListed, TypeOK, Page
    <2> QED BY <1>4, <2>1 DEF PageListed, TypeOK
  <1>5. ASSUME NEW s \in Subscriber, ActivateWatch(s) \/ RemoveWatch(s) PROVE TypeOK'
    BY <1>5 DEF ActivateWatch, RemoveWatch, TypeOK
  <1>6. CASE ClearFence
    BY <1>6 DEF ClearFence, TypeOK
  <1>7. ASSUME NEW p \in Poller, StartCycle(p) PROVE TypeOK'
    <2>1. order + 1 \in Nat /\ order \in Nat
      BY DEF TypeOK
    <2>2. [poller[p] EXCEPT !.step = "ready", !.cutoff = order + 1] \in Memory
      BY <2>1, MemoryUpdates, MemoryParts
    <2>3. poller' \in [Poller -> Memory] /\ order' \in Nat
      BY <1>7, <2>1, <2>2, ConstantRecords, UpdateType DEF StartCycle
    <2> QED BY <1>7, <2>3 DEF StartCycle, TypeOK
  <1>8. ASSUME NEW p \in Poller, AcquireFence(p) PROVE TypeOK'
    <2>1. [poller[p] EXCEPT !.step = "fetching", !.previous = state] \in Memory
      BY MemoryUpdates, MemoryParts DEF TypeOK
    <2>2. Asleep(poller[p].held) \in Memory
      BY ConstantRecords, MemoryParts
    <2>3. poller' \in [Poller -> Memory] /\ fence' \in Poller \cup {"free", "orphaned"}
      BY <1>8, <2>1, <2>2, UpdateType DEF AcquireFence, TypeOK
    <2> QED BY <1>8, <2>3 DEF AcquireFence, TypeOK
  <1>9. ASSUME NEW p \in Poller, Fetch(p) PROVE TypeOK'
    <2>1. PICK kind \in Answers(p) :
              Update(p, [poller[p] EXCEPT !.step = "answered",
                 !.answer = [kind |-> kind, page |-> page, at |-> clock, order |-> order]])
      BY <1>9 DEF Fetch
    <2>2. [kind |-> kind, page |-> page, at |-> clock, order |-> order] \in Answer
      BY DEF Answers, Answer, TypeOK
    <2>3. poller' \in [Poller -> Memory]
      BY <2>1, <2>2, MemoryUpdates, MemoryParts, UpdateType
    <2> QED BY <1>9, <2>3 DEF Fetch, TypeOK
  <1>10. ASSUME NEW p \in Poller, TurnFails(p) PROVE TypeOK'
    <2>1. poller' \in [Poller -> Memory]
      BY <1>10, MemoryUpdates, MemoryParts, UpdateType DEF TurnFails
    <2> QED BY <1>10, <2>1 DEF TurnFails, TypeOK
  <1>11. ASSUME NEW p \in Poller, NEW h \in [known : BOOLEAN, open : SUBSET Reasons],
                Handled(p, h)
         PROVE  poller' \in [Poller -> Memory]
    BY <1>11, MemoryUpdates, MemoryParts, UpdateType DEF Handled
  <1>12. ASSUME NEW p \in Poller, HandleNotModified(p) PROVE TypeOK'
    <2>1. state' \in State /\ order' \in Nat /\ poller' \in [Poller -> Memory]
      BY <1>12, <1>11, MemoryParts, UpsertType DEF HandleNotModified
    <2> QED BY <1>12, <2>1 DEF HandleNotModified, TypeOK
  <1>13. ASSUME NEW p \in Poller, HandleClassGone(p) PROVE TypeOK'
    <2>1. poller' \in [Poller -> Memory]
      BY <1>13, <1>11, ConstantRecords DEF HandleClassGone
    <2> QED BY <1>13, <2>1 DEF HandleClassGone, TypeOK
  <1>14. ASSUME NEW p \in Poller, HandleParserBroke(p) PROVE TypeOK'
    <2>1. poller' \in [Poller -> Memory]
      BY <1>14, <1>11, ConstantRecords DEF HandleParserBroke
    <2> QED BY <1>14, <2>1 DEF HandleParserBroke, TypeOK
  <1>15. ASSUME NEW p \in Poller, HandleBaseline(p) PROVE TypeOK'
    <2>1. state' \in State /\ order' \in Nat /\ poller' \in [Poller -> Memory]
      BY <1>15, <1>11, MemoryParts, UpsertType DEF HandleBaseline
    <2> QED BY <1>15, <2>1 DEF HandleBaseline, TypeOK
  <1>16. ASSUME NEW p \in Poller, HandleOpening(p) PROVE TypeOK'
    <2>1. poller' \in [Poller -> Memory]
      BY <1>16, <1>11, MemoryParts DEF HandleOpening
    <2>2. state' \in State /\ order' \in Nat
      BY <1>16, MemoryParts, UpsertType DEF HandleOpening, TypeOK
    <2>3. sent' \in [Subscriber -> [Reasons -> [0..MaxOpenings -> Nat]]]
      <3>1. CASE CasHolds(p)
        BY <1>16, <3>1, OpeningAlerts
      <3>2. CASE ~CasHolds(p)
        BY <1>16, <3>2 DEF HandleOpening, TypeOK
      <3> QED BY <3>1, <3>2
    <2> QED BY <1>16, <2>1, <2>2, <2>3 DEF HandleOpening, TypeOK
  <1>17. ASSUME NEW p \in Poller, ReleaseFence(p) PROVE TypeOK'
    <2>1. poller' \in [Poller -> Memory]
      BY <1>17, ConstantRecords, MemoryParts, UpdateType DEF ReleaseFence
    <2>2. fence' \in Poller \cup {"free", "orphaned"}
      BY <1>17 DEF ReleaseFence, TypeOK
    <2> QED BY <1>17, <2>1, <2>2 DEF ReleaseFence, TypeOK
  <1>18. ASSUME NEW p \in Poller, Crash(p) PROVE TypeOK'
    <2>1. poller' \in [Poller -> Memory]
      BY <1>18, ConstantRecords, UpdateType DEF Crash
    <2> QED BY <1>18, <2>1 DEF Crash, TypeOK
  <1> QED
    BY <1>1, <1>2, <1>3, <1>4, <1>5, <1>6, <1>7, <1>8, <1>9, <1>10, <1>12, <1>13, <1>14,
       <1>15, <1>16, <1>17, <1>18
    DEF Next, PollerStep
-------------------------------------------------------------------------------
(* The fence. *)

\* A step that leaves the row alone, and every worker between its read and its
\* write together with its fence.
LEMMA UntouchedReads ==
    ASSUME ReadStaysCurrent, UNCHANGED state,
           \A p \in Poller : poller'[p].step \in {"fetching", "answered"} =>
               /\ poller[p].step \in {"fetching", "answered"}
               /\ poller'[p].previous = poller[p].previous
               /\ fence = p => fence' = p
    PROVE  ReadStaysCurrent'
  BY DEF ReadStaysCurrent

\* A worker that writes the row holds the fence, so nobody else is between its
\* read and its write.
LEMMA WriterAlone ==
    ASSUME TypeOK, ReadStaysCurrent, NEW p \in Poller, poller[p].step = "answered",
           \A q \in Poller \ {p} : poller'[q] = poller[q], poller'[p].step = "handled"
    PROVE  ReadStaysCurrent'
  <1>1. \A q \in Poller \ {p} : poller[q].step \notin {"fetching", "answered"}
    BY DEF ReadStaysCurrent
  <1> QED BY <1>1 DEF ReadStaysCurrent

\* Only p's memory changes.
LEMMA OthersKeep ==
    ASSUME TypeOK, NEW p \in Poller, NEW m, Update(p, m)
    PROVE  poller'[p] = m /\ \A q \in Poller \ {p} : poller'[q] = poller[q]
  BY DEF TypeOK, Update

\* A turn that was handled.
LEMMA HandledStep ==
    ASSUME TypeOK, NEW p \in Poller, NEW h, Handled(p, h)
    PROVE  /\ poller'[p].step = "handled" /\ poller'[p].cutoff = poller[p].cutoff
           /\ poller'[p].answer = poller[p].answer
           /\ \A q \in Poller \ {p} : poller'[q] = poller[q]
  <1>1. /\ poller'[p] = [poller[p] EXCEPT !.step = "handled", !.held = h]
        /\ \A q \in Poller \ {p} : poller'[q] = poller[q]
    BY OthersKeep DEF Handled
  <1>2. poller[p] \in Memory
    BY MemoryParts
  <1> QED BY <1>1, <1>2 DEF Memory

\* The five ways an answer is handled.
LEMMA HandleSteps ==
    ASSUME TypeOK, NEW p \in Poller,
           \/ HandleNotModified(p) \/ HandleClassGone(p) \/ HandleParserBroke(p)
           \/ HandleBaseline(p) \/ HandleOpening(p)
    PROVE  /\ poller[p].step = "answered"
           /\ poller'[p].step = "handled" /\ poller'[p].cutoff = poller[p].cutoff
           /\ poller'[p].answer = poller[p].answer
           /\ \A q \in Poller \ {p} : poller'[q] = poller[q]
  BY HandledStep
  DEF HandleNotModified, HandleClassGone, HandleParserBroke, HandleBaseline, HandleOpening

\* The steps that start, give up or end a turn leave the row and every other
\* worker alone.
LEMMA TurnSteps ==
    ASSUME TypeOK, NEW p \in Poller,
           StartCycle(p) \/ TurnFails(p) \/ ReleaseFence(p) \/ Crash(p)
    PROVE  /\ \A q \in Poller \ {p} : poller'[q] = poller[q]
           /\ poller'[p].step \in {"idle", "ready", "handled"}
           /\ poller'[p].cutoff \in {0, poller[p].cutoff, order'}
           /\ UNCHANGED <<page, state, sent>>
           /\ fence' = fence \/ fence = p
  <1>1. poller[p] \in Memory
    BY MemoryParts
  <1> DEFINE M(m) == /\ Update(p, m) /\ m.step \in {"idle", "ready", "handled"}
                     /\ m.cutoff \in {0, poller[p].cutoff, order'}
  <1>2. ASSUME NEW h PROVE Asleep(h).step = "idle" /\ Asleep(h).cutoff = 0
    BY DEF Asleep
  <1>3. \E m : M(m)
    <2>1. CASE StartCycle(p) /\ Demanded
      <3>1. Update(p, [poller[p] EXCEPT !.step = "ready", !.cutoff = order'])
        BY <2>1 DEF StartCycle
      <3> DEFINE m == [poller[p] EXCEPT !.step = "ready", !.cutoff = order']
      <3>2. m.step = "ready" /\ m.cutoff = order'
        BY <1>1 DEF Memory
      <3>3. Update(p, m)
        BY <3>1
      <3> HIDE DEF m
      <3>4. M(m)
        BY <3>2, <3>3
      <3> QED BY <3>4
    <2>2. CASE StartCycle(p) /\ ~Demanded
      <3>1. Update(p, Asleep(NoHeld))
        BY <2>2 DEF StartCycle
      <3> QED BY <1>2, <3>1
    <2>3. CASE TurnFails(p)
      <3>1. Update(p, [poller[p] EXCEPT !.step = "handled"])
        BY <2>3 DEF TurnFails
      <3> QED BY <1>1, <3>1 DEF Memory
    <2>4. CASE ReleaseFence(p)
      <3>1. PICK h : Update(p, Asleep(h))
        BY <2>4 DEF ReleaseFence
      <3> QED BY <1>2, <3>1
    <2>5. CASE Crash(p)
      <3>1. Update(p, Asleep(NoHeld))
        BY <2>5 DEF Crash
      <3> QED BY <1>2, <3>1
    <2> QED BY <2>1, <2>2, <2>3, <2>4, <2>5
  <1>4. PICK m : M(m)
    BY <1>3
  <1>5. /\ UNCHANGED <<page, state, sent>>
        /\ fence' = fence \/ fence = p
    BY DEF StartCycle, TurnFails, ReleaseFence, Crash
  <1> QED BY <1>4, <1>5, OthersKeep

\* AcquireFence and Fetch.
LEMMA ReadSteps ==
    ASSUME TypeOK, NEW p \in Poller, AcquireFence(p) \/ Fetch(p)
    PROVE  /\ \A q \in Poller \ {p} : poller'[q] = poller[q]
           /\ UNCHANGED <<page, state, order, sent>>
           /\ \/ /\ poller'[p].step = "idle" /\ poller'[p].cutoff = 0 /\ UNCHANGED fence
              \/ /\ poller'[p].step = "fetching" /\ poller'[p].cutoff = poller[p].cutoff
                 /\ poller'[p].previous = state /\ fence = "free" /\ fence' = p
              \/ /\ poller[p].step = "fetching" /\ poller'[p].step = "answered"
                 /\ poller'[p].cutoff = poller[p].cutoff
                 /\ poller'[p].previous = poller[p].previous /\ UNCHANGED fence
                 /\ poller'[p].answer.page = page /\ poller'[p].answer.order = order
  <1>1. poller[p] \in Memory
    BY MemoryParts
  <1>2. CASE AcquireFence(p)
    <2>1. CASE fence = "free"
      <3>1. Update(p, [poller[p] EXCEPT !.step = "fetching", !.previous = state])
        BY <1>2, <2>1 DEF AcquireFence
      <3>2. /\ poller'[p] = [poller[p] EXCEPT !.step = "fetching", !.previous = state]
            /\ \A q \in Poller \ {p} : poller'[q] = poller[q]
        BY <3>1, OthersKeep
      <3>3. /\ poller'[p].step = "fetching" /\ poller'[p].cutoff = poller[p].cutoff
            /\ poller'[p].previous = state
        BY <1>1, <3>2 DEF Memory
      <3>4. fence' = p /\ UNCHANGED <<page, state, order, sent>>
        BY <1>2, <2>1 DEF AcquireFence
      <3> QED BY <2>1, <3>2, <3>3, <3>4
    <2>2. CASE fence # "free"
      <3>1. Update(p, Asleep(poller[p].held))
        BY <1>2, <2>2 DEF AcquireFence
      <3> QED BY <1>2, <2>2, <3>1, OthersKeep DEF AcquireFence, Asleep
    <2> QED BY <2>1, <2>2
  <1>3. CASE Fetch(p)
    <2>1. PICK kind \in Answers(p) :
              Update(p, [poller[p] EXCEPT !.step = "answered",
                  !.answer = [kind |-> kind, page |-> page, at |-> clock, order |-> order]])
      BY <1>3 DEF Fetch
    <2> DEFINE a == [kind |-> kind, page |-> page, at |-> clock, order |-> order]
    <2>2. /\ poller'[p] = [poller[p] EXCEPT !.step = "answered", !.answer = a]
          /\ \A q \in Poller \ {p} : poller'[q] = poller[q]
      BY <2>1, OthersKeep
    <2>3. a.page = page /\ a.order = order
      OBVIOUS
    <2> HIDE DEF a
    <2>4. /\ poller'[p].step = "answered" /\ poller'[p].cutoff = poller[p].cutoff
          /\ poller'[p].previous = poller[p].previous /\ poller'[p].answer = a
      BY <1>1, <2>2 DEF Memory
    <2>5. poller[p].step = "fetching" /\ UNCHANGED <<page, state, order, sent, fence>>
      BY <1>3 DEF Fetch
    <2> QED BY <2>2, <2>3, <2>4, <2>5
  <1> QED BY <1>2, <1>3

\* Every step keeps the row that is read the row that is replaced.
LEMMA ReadStep == TypeOK /\ ReadStaysCurrent /\ [Next]_vars => ReadStaysCurrent'
  <1> SUFFICES ASSUME TypeOK, ReadStaysCurrent, [Next]_vars PROVE ReadStaysCurrent'
    OBVIOUS
  <1>1. CASE UNCHANGED <<state, poller, fence>>
    BY <1>1, UntouchedReads
  <1>2. CASE ClearFence
    BY <1>2, ObservationBounds DEF ClearFence, ReadStaysCurrent
  <1>3. ASSUME NEW p \in Poller,
               \/ HandleNotModified(p) \/ HandleClassGone(p) \/ HandleParserBroke(p)
               \/ HandleBaseline(p) \/ HandleOpening(p)
        PROVE  ReadStaysCurrent'
    BY <1>3, HandleSteps, WriterAlone
  <1>4. ASSUME NEW p \in Poller, StartCycle(p) \/ TurnFails(p) \/ ReleaseFence(p) \/ Crash(p)
        PROVE  ReadStaysCurrent'
    BY <1>4, TurnSteps DEF ReadStaysCurrent
  <1>5. ASSUME NEW p \in Poller, AcquireFence(p) \/ Fetch(p) PROVE ReadStaysCurrent'
    BY <1>5, ReadSteps, ObservationBounds DEF ReadStaysCurrent
  <1> QED
    BY <1>1, <1>2, <1>3, <1>4, <1>5
    DEF Next, PollerStep, vars, Tick, PageChanges, PageListed, ActivateWatch, RemoveWatch
-------------------------------------------------------------------------------
(* The cutoff. *)

\* The order of Watches and observations only grows.
LEMMA OrderGrows == TypeOK /\ [Next]_vars => order \in Nat /\ order' \in Nat /\ order <= order'
  <1> SUFFICES ASSUME TypeOK, [Next]_vars PROVE order' \in {order, order + 1} /\ order \in Nat
    OBVIOUS
  <1>1. order \in Nat
    BY DEF TypeOK
  <1>2. CASE order' = order
    BY <1>1, <1>2
  <1>3. CASE \E s \in Subscriber : ActivateWatch(s)
    BY <1>1, <1>3 DEF ActivateWatch
  <1>4. CASE \E p \in Poller : StartCycle(p)
    BY <1>1, <1>4 DEF StartCycle
  <1>5. CASE \E p \in Poller : HandleNotModified(p) \/ HandleBaseline(p) \/ HandleOpening(p)
    BY <1>1, <1>5 DEF HandleNotModified, HandleBaseline, HandleOpening, Upsert
  <1> QED
    BY <1>1, <1>2, <1>3, <1>4, <1>5
    DEF Next, vars, PollerStep, Tick, PageChanges, PageListed, ClearFence, RemoveWatch,
        AcquireFence, Fetch, TurnFails, HandleClassGone, HandleParserBroke, ReleaseFence, Crash

\* Every step keeps cutoffs no younger than the answers judged by them.
LEMMA CutoffStep == TypeOK /\ CutoffInv /\ [Next]_vars => CutoffInv'
  <1> SUFFICES ASSUME TypeOK, CutoffInv, [Next]_vars PROVE CutoffInv'
    OBVIOUS
  <1>1. order \in Nat /\ order' \in Nat /\ order <= order'
    BY OrderGrows
  <1>2. \A p \in Poller : poller[p].cutoff \in Nat
    BY MemoryParts
  <1>3. CASE UNCHANGED poller
    BY <1>1, <1>2, <1>3 DEF CutoffInv
  <1>4. ASSUME NEW p \in Poller,
               \/ HandleNotModified(p) \/ HandleClassGone(p) \/ HandleParserBroke(p)
               \/ HandleBaseline(p) \/ HandleOpening(p)
        PROVE  CutoffInv'
    <2>1. /\ poller'[p].step = "handled" /\ poller'[p].cutoff = poller[p].cutoff
          /\ \A q \in Poller \ {p} : poller'[q] = poller[q]
      BY <1>4, HandleSteps
    <2> QED BY <1>1, <1>2, <2>1 DEF CutoffInv
  <1>5. ASSUME NEW p \in Poller, StartCycle(p) \/ TurnFails(p) \/ ReleaseFence(p) \/ Crash(p)
        PROVE  CutoffInv'
    <2>1. /\ poller'[p].step # "answered" /\ poller'[p].cutoff \in {0, poller[p].cutoff, order'}
          /\ \A q \in Poller \ {p} : poller'[q] = poller[q]
      BY <1>5, TurnSteps
    <2> QED BY <1>1, <1>2, <2>1 DEF CutoffInv
  <1>6. ASSUME NEW p \in Poller, AcquireFence(p) \/ Fetch(p) PROVE CutoffInv'
    <2>1. /\ poller'[p].cutoff \in {0, poller[p].cutoff}
          /\ poller'[p].step = "answered" => poller'[p].answer.order = order
          /\ \A q \in Poller \ {p} : poller'[q] = poller[q]
      BY <1>6, ReadSteps
    <2> QED BY <1>1, <1>2, <2>1 DEF CutoffInv
  <1> QED
    BY <1>3, <1>4, <1>5, <1>6
    DEF Next, PollerStep, vars, Tick, PageChanges, PageListed, ActivateWatch, RemoveWatch,
        ClearFence
-------------------------------------------------------------------------------
(* Alerts. *)

\* Steps that change no page, row or Alert, and bring no new answer.
LEMMA QuietKeepsAlerts ==
    ASSUME AlertInv, UNCHANGED <<page, state, sent>>,
           \A p \in Poller : poller'[p].step = "answered" =>
               poller[p].step = "answered" /\ poller'[p].answer.page = poller[p].answer.page
    PROVE  AlertInv'
  BY DEF AlertInv, AnswerOlder, AlertedStaysOpen, OneAlertPerOpening

\* The page moves on: an opening begins with a number nobody was alerted for.
LEMMA PageKeepsAlerts ==
    ASSUME TypeOK, AlertInv, PageChanges \/ PageListed
    PROVE  AlertInv'
  <1>1. UNCHANGED <<state, sent, poller>>
    BY DEF PageChanges, PageListed
  <1>2. \A r \in Reasons :
            \/ /\ page'.opening[r] = page.opening[r]
               /\ r \in page'.open => r \in page.open
            \/ page'.opening[r].n = page.opening[r].n + 1
    <2>1. page \in Page
      BY DEF TypeOK
    <2>2. CASE PageListed
      <3>1. page' = [page EXCEPT !.gone = ~page.gone]
        BY <2>2 DEF PageListed
      <3> QED BY <2>1, <3>1 DEF Page
    <2>3. CASE PageChanges
      <3>1. PICK open \in SUBSET Reasons :
                page' = [page EXCEPT !.open = open,
                            !.opening = [r \in Reasons |->
                                IF r \in open \ page.open
                                THEN [n |-> page.opening[r].n + 1, at |-> clock]
                                ELSE page.opening[r]]]
        BY <2>3 DEF PageChanges
      <3>2. /\ page'.open = open
            /\ page'.opening = [r \in Reasons |->
                                   IF r \in open \ page.open
                                   THEN [n |-> page.opening[r].n + 1, at |-> clock]
                                   ELSE page.opening[r]]
        BY <2>1, <3>1 DEF Page
      <3> QED BY <3>2
    <2> QED BY <2>2, <2>3
  <1>3. \A r \in Reasons : page.opening[r].n \in Nat
    BY DEF TypeOK, Page, Opening
  <1>4. \A p \in Poller, r \in Reasons : poller[p].answer.page.opening[r].n \in Nat
    BY MemoryParts DEF Page, Opening
  <1>5. AlertedStaysOpen(page)'
    BY <1>1, <1>2, <1>3 DEF AlertInv, AlertedStaysOpen
  <1>6. \A p \in Poller : poller[p].step = "answered" => AnswerOlder(poller[p].answer.page)'
    BY <1>1, <1>2, <1>3, <1>4 DEF AlertInv, AnswerOlder
  <1>7. \A p \in Poller : poller[p].step = "answered" => AlertedStaysOpen(poller[p].answer.page)'
    BY <1>1 DEF AlertInv, AlertedStaysOpen
  <1>8. OneAlertPerOpening'
    BY <1>1 DEF AlertInv, OneAlertPerOpening
  <1> QED BY <1>1, <1>5, <1>6, <1>7, <1>8 DEF AlertInv

\* A fresh answer is what the page shows.
LEMMA FetchKeepsAlerts ==
    ASSUME TypeOK, AlertInv, NEW p \in Poller, AcquireFence(p) \/ Fetch(p)
    PROVE  AlertInv'
  <1>1. /\ UNCHANGED <<page, state, sent>>
        /\ \A q \in Poller \ {p} : poller'[q] = poller[q]
        /\ poller'[p].step = "answered" => poller'[p].answer.page = page
    BY ReadSteps
  <1>2. AnswerOlder(page)
    BY DEF AnswerOlder, TypeOK, Page, Opening
  <1> QED BY <1>1, <1>2 DEF AlertInv, AnswerOlder, AlertedStaysOpen, OneAlertPerOpening

\* Writing what an answer showed: what was alerted and lasts is still open.
LEMMA WriteKeepsOpen ==
    ASSUME TypeOK, NEW was \in Page, AnswerOlder(was), AlertedStaysOpen(was)',
           state'.open = was.open, UNCHANGED page
    PROVE  AlertedStaysOpen(page)'
  <1>1. SUFFICES ASSUME NEW s \in Subscriber, NEW r \in Reasons, NEW n \in 0..MaxOpenings,
                        sent'[s][r][n] # 0
                 PROVE  /\ n <= page.opening[r].n
                        /\ n = page.opening[r].n /\ r \in page.open => r \in state'.open
    BY DEF AlertedStaysOpen
  <1>2. n <= was.opening[r].n /\ was.opening[r].n <= page.opening[r].n
    BY <1>1 DEF AlertedStaysOpen, AnswerOlder
  <1>3. n \in Nat /\ was.opening[r].n \in Nat /\ page.opening[r].n \in Nat
    BY ObservationBounds DEF TypeOK, Page, Opening, ObservationBounds
  <1>4. n = page.opening[r].n /\ r \in page.open => r \in was.open
    BY <1>2, <1>3 DEF AnswerOlder
  <1> QED BY <1>2, <1>3, <1>4

\* What is left to show when p handled its answer: the others are not between
\* their read and their write, so only p's answer matters.
LEMMA WriterKeepsAlerts ==
    ASSUME TypeOK, ReadStaysCurrent, NEW p \in Poller,
           \/ HandleNotModified(p) \/ HandleClassGone(p) \/ HandleParserBroke(p)
           \/ HandleBaseline(p) \/ HandleOpening(p),
           OneAlertPerOpening', AlertedStaysOpen(page)'
    PROVE  AlertInv'
  <1>1. /\ poller[p].step = "answered" /\ poller'[p].step = "handled"
        /\ \A q \in Poller \ {p} : poller'[q] = poller[q]
    BY HandleSteps
  <1>2. \A q \in Poller \ {p} : poller[q].step # "answered"
    BY <1>1 DEF ReadStaysCurrent
  <1>3. \A q \in Poller : poller'[q].step # "answered"
    BY <1>1, <1>2
  <1> QED BY <1>3 DEF AlertInv

\* Every step keeps the account of Alerts.
LEMMA AlertStep == TypeOK /\ ReadStaysCurrent /\ AlertInv /\ [Next]_vars => AlertInv'
  <1> SUFFICES ASSUME TypeOK, ReadStaysCurrent, AlertInv, [Next]_vars PROVE AlertInv'
    OBVIOUS
  <1>1. CASE UNCHANGED <<page, state, sent, poller>>
    BY <1>1, QuietKeepsAlerts
  <1>2. ASSUME NEW p \in Poller, StartCycle(p) \/ TurnFails(p) \/ ReleaseFence(p) \/ Crash(p)
        PROVE  AlertInv'
    <2>1. /\ UNCHANGED <<page, state, sent>> /\ poller'[p].step # "answered"
          /\ \A q \in Poller \ {p} : poller'[q] = poller[q]
      BY <1>2, TurnSteps
    <2> QED BY <2>1, QuietKeepsAlerts
  <1>3. ASSUME NEW p \in Poller, HandleClassGone(p) \/ HandleParserBroke(p) PROVE AlertInv'
    <2>1. /\ UNCHANGED <<page, state, sent>> /\ poller'[p].step # "answered"
          /\ \A q \in Poller \ {p} : poller'[q] = poller[q]
      BY <1>3, HandleSteps DEF HandleClassGone, HandleParserBroke
    <2> QED BY <2>1, QuietKeepsAlerts
  <1>4. ASSUME NEW p \in Poller, HandleNotModified(p) PROVE AlertInv'
    <2>1. poller[p].previous = state
      BY <1>4 DEF HandleNotModified, ReadStaysCurrent
    <2>2. state'.open = state.open /\ UNCHANGED <<page, sent>>
      BY <1>4, <2>1 DEF HandleNotModified, Upsert, NextState
    <2>3. OneAlertPerOpening' /\ AlertedStaysOpen(page)'
      BY <2>2 DEF AlertInv, OneAlertPerOpening, AlertedStaysOpen
    <2> QED BY <1>4, <2>3, WriterKeepsAlerts
  <1>5. ASSUME NEW p \in Poller, HandleBaseline(p) \/ HandleOpening(p)
        PROVE  /\ AnswerOlder(poller[p].answer.page) /\ AlertedStaysOpen(poller[p].answer.page)
               /\ poller[p].previous = state /\ poller[p].answer.page \in Page
    BY <1>5, MemoryParts DEF HandleBaseline, HandleOpening, AlertInv, ReadStaysCurrent
  <1>6. ASSUME NEW p \in Poller, HandleBaseline(p) PROVE AlertInv'
    <2>1. PICK was \in Page : was = poller[p].answer.page
      BY <1>5, <1>6
    <2>2. state'.open = was.open /\ UNCHANGED <<page, sent>>
      BY <1>6, <2>1 DEF HandleBaseline, Upsert, NextState
    <2>3. AlertedStaysOpen(was)'
      BY <1>5, <1>6, <2>1, <2>2 DEF AlertedStaysOpen
    <2>4. AlertedStaysOpen(page)'
      BY <1>5, <1>6, <2>1, <2>2, <2>3, WriteKeepsOpen
    <2>5. OneAlertPerOpening'
      BY <2>2 DEF AlertInv, OneAlertPerOpening
    <2> QED BY <1>6, <2>4, <2>5, WriterKeepsAlerts
  <1>7. ASSUME NEW p \in Poller, HandleOpening(p) PROVE AlertInv'
    <2>1. PICK was \in Page : was = poller[p].answer.page
      BY <1>5, <1>7
    <2>2. CasHolds(p)
      BY <1>5, <1>7 DEF CasHolds
    <2>3. state'.open = was.open /\ UNCHANGED page
      BY <1>7, <2>1, <2>2 DEF HandleOpening, Upsert, NextState
    <2>4. PICK r \in Reasons :
              /\ r \in was.open /\ r \notin state.open
              /\ \A s \in Subscriber, q \in Reasons, k \in 0..MaxOpenings :
                     sent'[s][q][k] = IF s \in Targets /\ q = r /\ k = was.opening[r].n
                                      THEN sent[s][q][k] + 1 ELSE sent[s][q][k]
      BY <1>5, <1>7, <2>1, <2>2, OpeningAlerts DEF Opened
    <2>5. \A s \in Subscriber, k \in 0..MaxOpenings :
              k = was.opening[r].n => sent[s][r][k] = 0
      BY <1>5, <1>7, <2>1, <2>4 DEF AlertedStaysOpen
    <2>6. OneAlertPerOpening'
      BY <2>4, <2>5 DEF AlertInv, OneAlertPerOpening
    <2>7. AlertedStaysOpen(was)'
      <3>1. SUFFICES ASSUME NEW s \in Subscriber, NEW q \in Reasons, NEW k \in 0..MaxOpenings,
                            sent'[s][q][k] # 0
                     PROVE  /\ k <= was.opening[q].n
                            /\ k = was.opening[q].n /\ q \in was.open => q \in state'.open
        BY DEF AlertedStaysOpen
      <3>2. CASE sent[s][q][k] # 0
        BY <1>5, <1>7, <2>1, <2>3, <3>2 DEF AlertedStaysOpen
      <3>3. CASE sent[s][q][k] = 0
        BY <2>3, <2>4, <3>1, <3>3
      <3> QED BY <3>2, <3>3
    <2>8. AlertedStaysOpen(page)'
      BY <1>5, <1>7, <2>1, <2>3, <2>7, WriteKeepsOpen
    <2> QED BY <1>7, <2>6, <2>8, WriterKeepsAlerts
  <1> QED
    BY <1>1, <1>2, <1>3, <1>4, <1>6, <1>7, FetchKeepsAlerts, PageKeepsAlerts
    DEF Next, PollerStep, vars, Tick, ActivateWatch, RemoveWatch, ClearFence
-------------------------------------------------------------------------------
(* The theorems. *)

\* The inductive invariant of the observations of one Section.
LEMMA ObservationInvariant ==
    Spec => [](TypeOK /\ ReadStaysCurrent /\ CutoffInv /\ AlertInv)
  <1>1. Init => TypeOK /\ ReadStaysCurrent /\ CutoffInv /\ AlertInv
    <2> SUFFICES ASSUME Init PROVE TypeOK /\ ReadStaysCurrent /\ CutoffInv /\ AlertInv
      OBVIOUS
    <2>1. TypeOK
      BY TypeInit
    <2>2. \A p \in Poller : poller[p].step = "idle" /\ poller[p].cutoff = 0
      BY DEF Init, Asleep
    <2>3. ReadStaysCurrent /\ CutoffInv
      BY <2>2 DEF Init, ReadStaysCurrent, CutoffInv
    <2>4. \A s \in Subscriber, r \in Reasons, n \in 0..MaxOpenings : sent[s][r][n] = 0
      BY DEF Init
    <2>5. AlertInv
      BY <2>2, <2>4 DEF AlertInv, OneAlertPerOpening, AlertedStaysOpen
    <2> QED BY <2>1, <2>3, <2>5
  <1>2. TypeOK /\ ReadStaysCurrent /\ CutoffInv /\ AlertInv /\ [Next]_vars
          => (TypeOK /\ ReadStaysCurrent /\ CutoffInv /\ AlertInv)'
    BY TypeStep, ReadStep, CutoffStep, AlertStep
  <1> QED BY <1>1, <1>2, PTL DEF Spec

\* Every variable keeps its type.
THEOREM ObservationTypeCorrect == Spec => []TypeOK
  BY ObservationInvariant, PTL

\* The fence that spans getClassState and the write keeps the row a worker read
\* the row it replaces.
THEOREM ReadsStayCurrent == Spec => []ReadStaysCurrent
  BY ObservationInvariant, PTL

\* No interleaving, crash or cleared fence makes one opening alert a Subscriber
\* twice.
THEOREM OpeningsAlertOnce == Spec => []OneAlertPerOpening
  <1>1. AlertInv => OneAlertPerOpening
    BY DEF AlertInv
  <1> QED BY <1>1, ObservationInvariant, PTL

\* retireWatchesForClass spares every Watch younger than the answer it acts on.
THEOREM GoneSparesYounger == Spec => GoneRetiresOnlyEarlier
  <1>1. TypeOK /\ CutoffInv /\ [Next]_vars
          => [\A p \in Poller : HandleClassGone(p) =>
                  \A s \in Subscriber :
                      watch[s] > poller[p].answer.order => watch'[s] = watch[s]]_vars
    <2> SUFFICES ASSUME TypeOK, CutoffInv, NEW p \in Poller, HandleClassGone(p),
                        NEW s \in Subscriber, watch[s] > poller[p].answer.order
                 PROVE  watch'[s] = watch[s]
      OBVIOUS
    <2>1. poller[p].cutoff <= poller[p].answer.order
      BY DEF CutoffInv, HandleClassGone
    <2>2. poller[p].cutoff \in Nat /\ poller[p].answer.order \in Nat /\ watch[s] \in Nat
      BY MemoryParts DEF TypeOK, Answer
    <2>3. ~(watch[s] <= poller[p].cutoff)
      BY <2>1, <2>2
    <2> QED BY <2>3 DEF HandleClassGone
  <1> QED BY <1>1, ObservationInvariant, PTL DEF Spec, GoneRetiresOnlyEarlier
-------------------------------------------------------------------------------
(* Silent openings and accepted 304s. *)

\* Only a handled answer writes the row.
LEMMA RowWriters ==
    ASSUME TypeOK, [Next]_vars, state' # state
    PROVE  \E p \in Poller : HandleNotModified(p) \/ HandleBaseline(p) \/ HandleOpening(p)
  BY DEF Next, vars, PollerStep, Tick, PageChanges, PageListed, ClearFence, ActivateWatch,
         RemoveWatch, StartCycle, AcquireFence, Fetch, TurnFails, HandleClassGone,
         HandleParserBroke, ReleaseFence, Crash

\* The page's openings stay within the bound.
PageBounded == \A r \in Reasons : page.opening[r].n <= MaxOpenings

\* A page that changes keeps within the bound.
LEMMA BoundStep == TypeOK /\ PageBounded /\ [Next]_vars => PageBounded'
  <1> SUFFICES ASSUME TypeOK, PageBounded, [Next]_vars, NEW r \in Reasons
               PROVE  page'.opening[r].n <= MaxOpenings
    BY DEF PageBounded
  <1>1. /\ page \in Page /\ page.opening[r].n \in Nat /\ MaxOpenings \in Nat
        /\ page.opening[r].n <= MaxOpenings
    BY ObservationBounds DEF TypeOK, Page, Opening, PageBounded, ObservationBounds
  <1>2. CASE PageChanges
    <2>1. PICK open \in SUBSET Reasons :
              /\ \A q \in open \ page.open : page.opening[q].n < MaxOpenings
              /\ page' = [page EXCEPT !.open = open,
                             !.opening = [q \in Reasons |->
                                 IF q \in open \ page.open
                                 THEN [n |-> page.opening[q].n + 1, at |-> clock]
                                 ELSE page.opening[q]]]
      BY <1>2 DEF PageChanges
    <2>2. page'.opening = [q \in Reasons |-> IF q \in open \ page.open
                                             THEN [n |-> page.opening[q].n + 1, at |-> clock]
                                             ELSE page.opening[q]]
      BY <1>1, <2>1 DEF Page
    <2> QED BY <1>1, <2>1, <2>2
  <1>3. CASE PageListed
    BY <1>1, <1>3 DEF PageListed, Page
  <1>4. CASE UNCHANGED page
    BY <1>1, <1>4
  <1> QED
    BY <1>2, <1>3, <1>4
    DEF Next, vars, PollerStep, Tick, ClearFence, ActivateWatch, RemoveWatch, StartCycle,
        AcquireFence, Fetch, TurnFails, HandleNotModified, HandleClassGone, HandleParserBroke,
        HandleBaseline, HandleOpening, ReleaseFence, Crash

\* A row written over a fresh one opens nothing without alerting everyone whose
\* Watch the row had seen, for any number of workers.
THEOREM OpeningsAreNotSilent == Spec => NoSilentOpening
  <1> DEFINE Loud == state'.version # state.version /\ state.version # 0
                         /\ state'.open \ state.open # {} =>
                     \/ \A s \in Targets : \E r \in Reasons : Alerts(s, r)
                     \/ state.freshUntil + FreshFor < state'.freshUntil
  <1>1. ASSUME TypeOK, ReadStaysCurrent, AlertInv, PageBounded, [Next]_vars PROVE Loud
    <2> SUFFICES ASSUME state'.version # state.version, state.version # 0,
                        state'.open \ state.open # {}
                 PROVE  \/ \A s \in Targets : \E r \in Reasons : Alerts(s, r)
                        \/ state.freshUntil + FreshFor < state'.freshUntil
      OBVIOUS
    <2>1. PICK p \in Poller : HandleNotModified(p) \/ HandleBaseline(p) \/ HandleOpening(p)
      BY <1>1, RowWriters
    <2>2. poller[p].previous = state /\ poller[p].step = "answered"
      BY <1>1, <2>1, HandleSteps DEF ReadStaysCurrent
    <2>3. CASE HandleNotModified(p)
      BY <2>2, <2>3 DEF HandleNotModified, Upsert, NextState
    <2>4. CASE HandleBaseline(p)
      <3>1. /\ state'.open = poller[p].answer.page.open
            /\ state'.freshUntil = poller[p].answer.at + FreshFor
        BY <2>4 DEF HandleBaseline, Upsert, NextState
      <3>2. state.freshUntil < poller[p].answer.at
        BY <2>2, <2>4, <3>1 DEF HandleBaseline, Transition, Opened, BaselineStale
      <3>3. state.freshUntil \in Nat /\ poller[p].answer.at \in Nat /\ FreshFor \in Nat
        BY <1>1, MemoryParts, ObservationBounds DEF ObservationBounds, TypeOK, State, Answer
      <3> QED BY <3>1, <3>2, <3>3
    <2>5. CASE HandleOpening(p)
      <3>1. CasHolds(p)
        BY <2>2 DEF CasHolds
      <3>2. PICK r \in Reasons :
                \A s \in Subscriber, q \in Reasons, k \in 0..MaxOpenings :
                    sent'[s][q][k] = IF s \in Targets /\ q = r
                                        /\ k = poller[p].answer.page.opening[r].n
                                     THEN sent[s][q][k] + 1 ELSE sent[s][q][k]
        BY <1>1, <2>5, <3>1, OpeningAlerts
      <3>3. PICK k \in Nat : k = poller[p].answer.page.opening[r].n
        BY <1>1, MemoryParts DEF Page, Opening
      <3>4. k \in 0..MaxOpenings
        <4>1. k <= page.opening[r].n /\ page.opening[r].n <= MaxOpenings
          BY <1>1, <2>2, <3>3 DEF AlertInv, AnswerOlder, PageBounded
        <4>2. page.opening[r].n \in Nat /\ MaxOpenings \in Nat
          BY <1>1, ObservationBounds DEF TypeOK, Page, Opening, ObservationBounds
        <4> QED BY <4>1, <4>2
      <3>5. ASSUME NEW s \in Targets PROVE Alerts(s, r)
        <4>1. s \in Subscriber
          BY DEF Targets
        <4>2. sent[s] \in [Reasons -> [0..MaxOpenings -> Nat]]
          BY <1>1, <4>1 DEF TypeOK
        <4>3. sent[s][r][k] \in Nat
          BY <3>4, <4>2
        <4>4. sent'[s][r][k] = sent[s][r][k] + 1
          BY <3>2, <3>3, <3>4, <4>1
        <4> QED BY <3>4, <4>3, <4>4 DEF Alerts
      <3> QED BY <3>5
    <2> QED BY <2>1, <2>3, <2>4, <2>5
  <1>2. TypeOK /\ ReadStaysCurrent /\ AlertInv /\ PageBounded /\ [Next]_vars => [Loud]_vars
    BY <1>1
  <1>3. Init => PageBounded
    BY ObservationBounds DEF Init, StartPage, PageBounded, ObservationBounds
  <1> QED BY <1>2, <1>3, BoundStep, ObservationInvariant, PTL DEF Spec, NoSilentOpening

\* With one worker, what the validators stand for is what the row says, and a
\* waiting 304 was an answer to them.
HeldInv ==
    \A p \in Poller : Poller = {p} =>
        /\ poller[p].held.known /\ state.version # 0 => poller[p].held.open = state.open
        /\ poller[p].step = "answered" /\ poller[p].answer.kind = "not-modified" =>
               /\ poller[p].previous.version # 0
               /\ poller[p].held = [known |-> TRUE, open |-> poller[p].answer.page.open]

\* Outside a handled answer the validators are kept or forgotten.
LEMMA HeldSteps ==
    ASSUME TypeOK, NEW p \in Poller,
           \/ StartCycle(p) \/ AcquireFence(p) \/ TurnFails(p) \/ ReleaseFence(p) \/ Crash(p)
    PROVE  /\ poller'[p].step # "answered" /\ UNCHANGED state
           /\ poller'[p].held \in {poller[p].held, NoHeld}
  <1> DEFINE M(m) == m.step # "answered" /\ m.held \in {poller[p].held, NoHeld}
  <1>1. poller[p] \in Memory
    BY MemoryParts
  <1>2. \A h : h \in {poller[p].held, NoHeld} => M(Asleep(h))
    BY DEF Asleep
  <1>3. /\ \A c : M([poller[p] EXCEPT !.step = "ready", !.cutoff = c])
        /\ M([poller[p] EXCEPT !.step = "fetching", !.previous = state])
        /\ M([poller[p] EXCEPT !.step = "handled"])
    BY <1>1 DEF Memory
  <1> HIDE DEF M
  <1>4. \E m : Update(p, m) /\ M(m)
    <2>1. CASE StartCycle(p)
      BY <1>2, <1>3, <2>1 DEF StartCycle
    <2>2. CASE AcquireFence(p)
      BY <1>2, <1>3, <2>2 DEF AcquireFence
    <2>3. CASE TurnFails(p)
      BY <1>3, <2>3 DEF TurnFails
    <2>4. CASE ReleaseFence(p)
      BY <1>2, <2>4 DEF ReleaseFence
    <2>5. CASE Crash(p)
      BY <1>2, <2>5 DEF Crash
    <2> QED BY <2>1, <2>2, <2>3, <2>4, <2>5
  <1>5. UNCHANGED state
    BY DEF StartCycle, AcquireFence, TurnFails, ReleaseFence, Crash
  <1> QED BY <1>4, <1>5, OthersKeep DEF M

\* A handled answer leaves validators for what the row now says, or none.
LEMMA HandledHeld ==
    ASSUME TypeOK, ReadStaysCurrent, HeldInv, NEW p \in Poller, Poller = {p},
           \/ HandleNotModified(p) \/ HandleClassGone(p) \/ HandleParserBroke(p)
           \/ HandleBaseline(p) \/ HandleOpening(p)
    PROVE  poller'[p].held.known /\ state'.version # 0 => poller'[p].held.open = state'.open
  <1>1. poller[p] \in Memory /\ poller[p].step = "answered" /\ poller[p].previous = state
    BY MemoryParts, HandleSteps DEF ReadStaysCurrent
  <1>2. ASSUME NEW h, Handled(p, h) PROVE poller'[p].held = h
    <2>1. poller'[p] = [poller[p] EXCEPT !.step = "handled", !.held = h]
      BY <1>2, OthersKeep DEF Handled
    <2> QED BY <1>1, <2>1 DEF Memory
  <1>3. CASE HandleNotModified(p)
    <2>1. poller'[p].held = poller[p].held /\ state'.open = state.open
      BY <1>1, <1>2, <1>3 DEF HandleNotModified, Upsert, NextState
    <2>2. state.version # 0
      BY <1>1, <1>3 DEF HeldInv, HandleNotModified
    <2> QED BY <2>1, <2>2 DEF HeldInv
  <1>4. CASE HandleClassGone(p) \/ HandleParserBroke(p)
    <2>1. poller'[p].held = NoHeld
      BY <1>2, <1>4 DEF HandleClassGone, HandleParserBroke
    <2> QED BY <2>1 DEF NoHeld
  <1>5. CASE HandleBaseline(p) \/ HandleOpening(p)
    <2>1. CasHolds(p)
      BY <1>1 DEF CasHolds
    <2>2. state'.open = poller[p].answer.page.open
      <3>1. Upsert(p, poller[p].answer.page.open)
        BY <1>5, <2>1 DEF HandleBaseline, HandleOpening
      <3> QED BY <3>1 DEF Upsert, NextState
    <2>3. Handled(p, [known |-> TRUE, open |-> poller[p].answer.page.open])
      BY <1>5 DEF HandleBaseline, HandleOpening
    <2>4. poller'[p].held = [known |-> TRUE, open |-> poller[p].answer.page.open]
      BY <1>2, <2>3
    <2> QED BY <2>2, <2>4
  <1> QED BY <1>3, <1>4, <1>5

\* Every step keeps what the validators of a single worker stand for.
LEMMA HeldStep == TypeOK /\ ReadStaysCurrent /\ HeldInv /\ [Next]_vars => HeldInv'
  <1> SUFFICES ASSUME TypeOK, ReadStaysCurrent, HeldInv, [Next]_vars,
                      NEW p \in Poller, Poller = {p}
               PROVE  /\ poller'[p].held.known /\ state'.version # 0 =>
                             poller'[p].held.open = state'.open
                      /\ poller'[p].step = "answered" /\ poller'[p].answer.kind = "not-modified" =>
                             /\ poller'[p].previous.version # 0
                             /\ poller'[p].held =
                                    [known |-> TRUE, open |-> poller'[p].answer.page.open]
    BY DEF HeldInv
  <1>1. CASE UNCHANGED <<state, poller>>
    BY <1>1 DEF HeldInv
  <1>2. CASE \/ StartCycle(p) \/ AcquireFence(p) \/ TurnFails(p) \/ ReleaseFence(p) \/ Crash(p)
    BY <1>2, HeldSteps DEF HeldInv, NoHeld
  <1>3. CASE Fetch(p)
    <2>1. PICK kind \in Answers(p) :
              Update(p, [poller[p] EXCEPT !.step = "answered",
                  !.answer = [kind |-> kind, page |-> page, at |-> clock, order |-> order]])
      BY <1>3 DEF Fetch
    <2>2. poller'[p] = [poller[p] EXCEPT !.step = "answered",
              !.answer = [kind |-> kind, page |-> page, at |-> clock, order |-> order]]
      BY <2>1, OthersKeep
    <2>3. /\ poller'[p].held = poller[p].held /\ poller'[p].previous = poller[p].previous
          /\ poller'[p].answer.kind = kind /\ poller'[p].answer.page = page
      BY <2>2, MemoryParts DEF Memory
    <2>4. kind = "not-modified" =>
              /\ poller[p].previous.version # 0
              /\ poller[p].held = [known |-> TRUE, open |-> page.open]
      BY <2>1 DEF Answers
    <2> QED BY <1>3, <2>3, <2>4 DEF HeldInv, Fetch
  <1>4. CASE \/ HandleNotModified(p) \/ HandleClassGone(p) \/ HandleParserBroke(p)
             \/ HandleBaseline(p) \/ HandleOpening(p)
    BY <1>4, HandledHeld, HandleSteps
  <1> QED
    BY <1>1, <1>2, <1>3, <1>4
    DEF Next, PollerStep, vars, Tick, PageChanges, PageListed, ClearFence, ActivateWatch,
        RemoveWatch

\* The 304s a single worker accepts restate what the page shows.
THEOREM NotModifiedRestates == Spec => NotModifiedAgrees
  <1>1. Init => HeldInv
    BY DEF Init, Asleep, NoHeld, HeldInv
  <1>2. TypeOK /\ ReadStaysCurrent /\ HeldInv /\ [Next]_vars
          => [\A p \in Poller : Poller = {p} /\ HandleNotModified(p) =>
                  state'.open = poller[p].answer.page.open]_vars
    <2> SUFFICES ASSUME ReadStaysCurrent, HeldInv, NEW p \in Poller, Poller = {p},
                        HandleNotModified(p)
                 PROVE  state'.open = poller[p].answer.page.open
      OBVIOUS
    <2>1. state'.open = state.open /\ poller[p].previous = state
      BY DEF HandleNotModified, Upsert, NextState, ReadStaysCurrent
    <2>2. /\ state.version # 0
          /\ poller[p].held = [known |-> TRUE, open |-> poller[p].answer.page.open]
      BY <2>1 DEF HeldInv, HandleNotModified
    <2> QED BY <2>1, <2>2 DEF HeldInv
  <1> QED BY <1>1, <1>2, HeldStep, ObservationInvariant, PTL DEF Spec, NotModifiedAgrees

\* When things opened, for a single worker p: an opening the answer has not seen
\* began after it, and one the row has not seen began while the row was fresh.
FreshInv(p) ==
    /\ \A r \in Reasons : page.opening[r].at <= clock
    /\ state.version # 0 =>
          /\ state.freshUntil <= clock + FreshFor
          /\ \A r \in page.open \ state.open :
                 state.freshUntil <= page.opening[r].at + FreshFor
    /\ poller[p].step = "answered" =>
          /\ poller[p].answer.at <= clock
          /\ \A r \in page.open \ poller[p].answer.page.open :
                 poller[p].answer.at <= page.opening[r].at
          /\ state.version # 0 => \A r \in poller[p].answer.page.open \ state.open :
                 state.freshUntil <= poller[p].answer.page.opening[r].at + FreshFor

\* The numbers FreshInv compares.
LEMMA FreshTypes ==
    ASSUME TypeOK, NEW p \in Poller
    PROVE  /\ clock \in Nat /\ FreshFor \in Nat /\ state.freshUntil \in Nat
           /\ poller[p].answer.at \in Nat /\ page.open \in SUBSET Reasons
           /\ poller[p].answer.page.open \in SUBSET Reasons
           /\ \A r \in Reasons : /\ page.opening[r].at \in Nat
                                 /\ poller[p].answer.page.opening[r].at \in Nat
  BY MemoryParts, ObservationBounds DEF TypeOK, State, Page, Opening, Answer, ObservationBounds

\* What opens now begins now.
LEMMA PageKeepsFresh ==
    ASSUME TypeOK, NEW p \in Poller, FreshInv(p), PageChanges \/ PageListed
    PROVE  FreshInv(p)'
  <1>1. UNCHANGED <<clock, state, poller>>
    BY DEF PageChanges, PageListed
  <1>2. \A r \in Reasons :
            \/ /\ page'.opening[r] = page.opening[r]
               /\ r \in page'.open => r \in page.open
            \/ page'.opening[r].at = clock
    <2>1. page \in Page
      BY DEF TypeOK
    <2>2. CASE PageListed
      <3>1. page' = [page EXCEPT !.gone = ~page.gone]
        BY <2>2 DEF PageListed
      <3> QED BY <2>1, <3>1 DEF Page
    <2>3. CASE PageChanges
      <3>1. PICK open \in SUBSET Reasons :
                page' = [page EXCEPT !.open = open,
                            !.opening = [r \in Reasons |->
                                IF r \in open \ page.open
                                THEN [n |-> page.opening[r].n + 1, at |-> clock]
                                ELSE page.opening[r]]]
        BY <2>3 DEF PageChanges
      <3>2. /\ page'.open = open
            /\ page'.opening = [r \in Reasons |->
                                   IF r \in open \ page.open
                                   THEN [n |-> page.opening[r].n + 1, at |-> clock]
                                   ELSE page.opening[r]]
        BY <2>1, <3>1 DEF Page
      <3> QED BY <3>2
    <2> QED BY <2>2, <2>3
  <1>3. page'.open \in SUBSET Reasons
    BY TypeStep DEF TypeOK, Page, Next
  <1> QED BY <1>1, <1>2, <1>3, FreshTypes DEF FreshInv

\* A handled answer leaves a row as fresh as the answer.
LEMMA WriteKeepsFresh ==
    ASSUME TypeOK, ReadStaysCurrent, HeldInv, NEW p \in Poller, Poller = {p}, FreshInv(p),
           \/ HandleNotModified(p) \/ HandleClassGone(p) \/ HandleParserBroke(p)
           \/ HandleBaseline(p) \/ HandleOpening(p)
    PROVE  FreshInv(p)'
  <1>1. /\ poller[p].step = "answered" /\ poller'[p].step = "handled"
        /\ poller[p].previous = state /\ UNCHANGED <<clock, page>>
    BY HandleSteps
    DEF ReadStaysCurrent, HandleNotModified, HandleClassGone, HandleParserBroke,
        HandleBaseline, HandleOpening
  <1>2. \/ UNCHANGED state
        \/ /\ state'.open = poller[p].answer.page.open
           /\ state'.freshUntil = poller[p].answer.at + FreshFor
    <2>1. CASE HandleNotModified(p)
      <3>1. Upsert(p, state.open)
        BY <1>1, <2>1 DEF HandleNotModified
      <3>2. state.version # 0 /\ poller[p].held.known
            /\ poller[p].held.open = poller[p].answer.page.open
        BY <1>1, <2>1 DEF HeldInv, HandleNotModified
      <3>3. poller[p].held.open = state.open
        BY <3>2 DEF HeldInv
      <3> QED BY <3>1, <3>2, <3>3 DEF Upsert, NextState
    <2>2. CASE HandleClassGone(p) \/ HandleParserBroke(p)
      BY <2>2 DEF HandleClassGone, HandleParserBroke
    <2>3. CASE HandleBaseline(p) \/ HandleOpening(p)
      <3>1. Upsert(p, poller[p].answer.page.open) \/ UNCHANGED state
        BY <2>3 DEF HandleBaseline, HandleOpening
      <3> QED BY <3>1 DEF Upsert, NextState
    <2> QED BY <2>1, <2>2, <2>3
  <1>3. CASE UNCHANGED state
    BY <1>1, <1>3 DEF FreshInv
  <1>4. CASE /\ state'.open = poller[p].answer.page.open
             /\ state'.freshUntil = poller[p].answer.at + FreshFor
    BY <1>1, <1>4, FreshTypes DEF FreshInv
  <1> QED BY <1>2, <1>3, <1>4

\* Every step of a single worker, and of the world around it, keeps FreshInv.
LEMMA FreshStep ==
    ASSUME TypeOK, ReadStaysCurrent, HeldInv, NEW p \in Poller, Poller = {p}, FreshInv(p),
           [Next]_vars
    PROVE  FreshInv(p)'
  <1>1. CASE UNCHANGED <<clock, page, state, poller>>
    BY <1>1 DEF FreshInv
  <1>2. CASE Tick
    BY <1>2, FreshTypes DEF Tick, FreshInv
  <1>3. CASE \/ StartCycle(p) \/ AcquireFence(p) \/ TurnFails(p) \/ ReleaseFence(p) \/ Crash(p)
    BY <1>3, HeldSteps
    DEF FreshInv, StartCycle, AcquireFence, TurnFails, ReleaseFence, Crash
  <1>4. CASE Fetch(p)
    <2>1. PICK kind \in Answers(p) :
              Update(p, [poller[p] EXCEPT !.step = "answered",
                  !.answer = [kind |-> kind, page |-> page, at |-> clock, order |-> order]])
      BY <1>4 DEF Fetch
    <2>2. poller'[p] = [poller[p] EXCEPT !.step = "answered",
              !.answer = [kind |-> kind, page |-> page, at |-> clock, order |-> order]]
      BY <2>1, OthersKeep
    <2>3. poller'[p].answer.page = page /\ poller'[p].answer.at = clock
      BY <2>2, MemoryParts DEF Memory
    <2> QED BY <1>4, <2>3, FreshTypes DEF FreshInv, Fetch
  <1>5. CASE \/ HandleNotModified(p) \/ HandleClassGone(p) \/ HandleParserBroke(p)
             \/ HandleBaseline(p) \/ HandleOpening(p)
    BY <1>5, WriteKeepsFresh
  <1> QED
    BY <1>1, <1>2, <1>3, <1>4, <1>5, PageKeepsFresh
    DEF Next, PollerStep, vars, ActivateWatch, RemoveWatch, ClearFence

\* A single worker alerts only for openings within FreshFor of its answer.
THEOREM OpeningsAreFresh ==
    ASSUME NEW w \in Poller, Poller = {w}
    PROVE  Spec => NoStaleOpening
  <1>1. Init => FreshInv(w) /\ HeldInv
    BY DEF Init, StartPage, NoState, Asleep, NoHeld, FreshInv, HeldInv
  <1>2. TypeOK /\ ReadStaysCurrent /\ HeldInv /\ FreshInv(w) /\ [Next]_vars => FreshInv(w)'
    BY FreshStep
  <1>3. TypeOK /\ ReadStaysCurrent /\ HeldInv /\ FreshInv(w) /\ [Next]_vars
          => [\A s \in Subscriber, r \in Reasons : Alerts(s, r) =>
                  \E p \in Poller : /\ poller[p].answer.kind = "parsed"
                                    /\ r \in poller[p].answer.page.open
                                    /\ poller[p].answer.at <=
                                           poller[p].answer.page.opening[r].at + FreshFor]_vars
    <2> SUFFICES ASSUME TypeOK, ReadStaysCurrent, FreshInv(w), [Next]_vars,
                        NEW s \in Subscriber, NEW r \in Reasons, Alerts(s, r)
                 PROVE  /\ poller[w].answer.kind = "parsed"
                        /\ r \in poller[w].answer.page.open
                        /\ poller[w].answer.at <= poller[w].answer.page.opening[r].at + FreshFor
      OBVIOUS
    <2>1. PICK n \in 0..MaxOpenings : sent'[s][r][n] > sent[s][r][n]
      BY DEF Alerts
    <2>2. sent[s][r][n] \in Nat
      <3>1. sent[s] \in [Reasons -> [0..MaxOpenings -> Nat]]
        BY DEF TypeOK
      <3>2. sent[s][r] \in [0..MaxOpenings -> Nat]
        BY <3>1
      <3> QED BY <2>1, <3>2
    <2>3. sent' # sent
      BY <2>1, <2>2
    <2>4. HandleOpening(w) /\ CasHolds(w)
      BY <2>3
      DEF Next, vars, PollerStep, Tick, PageChanges, PageListed, ClearFence, ActivateWatch,
          RemoveWatch, StartCycle, AcquireFence, Fetch, TurnFails, HandleNotModified,
          HandleClassGone, HandleParserBroke, HandleBaseline, HandleOpening, ReleaseFence, Crash
    <2>5. /\ poller[w].step = "answered" /\ poller[w].answer.kind = "parsed"
          /\ Transition(w) /\ poller[w].previous = state
      BY <2>4 DEF HandleOpening, ReadStaysCurrent
    <2>6. r \in Opened(w)
      <3>1. PICK q \in Opened(w) :
                sent'[s][r][n] = IF s \in Targets /\ r = q
                                    /\ n = poller[w].answer.page.opening[q].n
                                 THEN sent[s][r][n] + 1 ELSE sent[s][r][n]
        BY <2>4, OpeningAlerts
      <3> QED BY <2>1, <2>2, <3>1
    <2>7. /\ r \in poller[w].answer.page.open \ state.open
          /\ state.version # 0 /\ ~(state.freshUntil < poller[w].answer.at)
      BY <2>5, <2>6 DEF Opened, Transition, BaselineStale
    <2>8. state.freshUntil <= poller[w].answer.page.opening[r].at + FreshFor
      BY <2>5, <2>7 DEF FreshInv
    <2> QED BY <2>5, <2>7, <2>8, FreshTypes
  <1> QED BY <1>1, <1>2, <1>3, HeldStep, ObservationInvariant, PTL DEF Spec, NoStaleOpening
===============================================================================
