--------------------------- MODULE MCSeatObservation ---------------------------
(* Instances of SeatObservation for TLC. *)
EXTENDS SeatObservation, TLC

\* Workers run the same code, and Subscribers differ only in their Watches.
ObservationSymmetry == Permutations(Poller) \cup Permutations(Subscriber)
===============================================================================
