---------------------------- MODULE MCPolicyIndex ---------------------------
(* Small instances of PolicyIndex for TLC. *)
EXTENDS PolicyIndex, TLC

\* Processes and models are interchangeable, and so are policies all of which
\* are listed, or none.
Symmetric == Permutations(Procs) \cup Permutations(Listed) \cup Permutations(Policies \ Listed)
=============================================================================
