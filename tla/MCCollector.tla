----------------------------- MODULE MCCollector -----------------------------
(* Instances of Collector for TLC. *)
EXTENDS Collector, TLC

\* neither objects nor replicas are told apart
MCSymmetry == Permutations(Objects) \cup Permutations(Replicas)
=============================================================================
