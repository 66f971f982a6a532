------------------------- MODULE SeatObservationHistory -------------------------
(***************************************************************************)
(* SeatObservation with the page's openings each Watch was added into, and *)
(* the specification's corollary about them.                               *)
(***************************************************************************)
EXTENDS MCSeatObservation

\* <<s, r, n>>: s activated a Watch while the page showed opening n for r.
VARIABLE addedInto

HistoryInit == Init /\ addedInto = {}
HistoryNext ==
    /\ Next
    /\ addedInto' = addedInto \cup
           {<<s, r, page.opening[r].n>> : s \in {x \in Subscriber : watch[x] = 0 /\ watch'[x] # 0},
                                          r \in page.open}
HistorySpec == HistoryInit /\ [][HistoryNext]_<<vars, addedInto>>

\* FR-5's corollary in the specification: a Watch added while a class is already
\* open alerts only after it closes and re-opens, so never for that opening.
AlertsOnlyAfterReopening ==
    [][\A s \in Subscriber, r \in Reasons, n \in 0..MaxOpenings :
           sent'[s][r][n] > sent[s][r][n] => <<s, r, n>> \notin addedInto]_<<vars, addedInto>>
===============================================================================
