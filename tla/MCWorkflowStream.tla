-------------------------- MODULE MCWorkflowStream --------------------------
(* Small instances of WorkflowStream for TLC. *)
EXTENDS WorkflowStream, TLC

\* No action or property names a run, a task or a product.
Symmetric == Permutations(Runs) \cup Permutations(Tasks) \cup Permutations(Products)
=============================================================================
