------------------------------ MODULE MCBaseline ----------------------------
(* Small instances of Baseline for TLC. *)
EXTENDS Baseline, TLC

\* Runs, tasks and products are interchangeable.
Symmetric == Permutations(Runs) \cup Permutations(Tasks) \cup Permutations(Products)
=============================================================================
