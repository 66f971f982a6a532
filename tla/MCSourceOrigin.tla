----------------------------- MODULE MCSourceOrigin -----------------------------
(* Instances of SourceOrigin for TLC. *)
EXTENDS SourceOrigin, TLC

\* The workers run the same code.
OriginSymmetry == Permutations(Worker)
===============================================================================
