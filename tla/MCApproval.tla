----------------------------- MODULE MCApproval -----------------------------
(* Small instances of Approval for TLC. *)
EXTENDS ApprovalInvariants, TLC

\* The constants are interchangeable: no action, invariant or action property
\* names an element of one.
Symmetric == Permutations(Threads) \cup Permutations(Procs) \cup Permutations(Products)
             \cup Permutations(TaskIds) \cup Permutations(Prices)

\* Approvers keep deciding what is pending, in either way.
Persistent ==
  \A t \in Threads : SF_vars(\E p \in Procs, d \in Decisions : DecideArrive(p, t, d))
PersistentSpec == FairSpec /\ Persistent

\* Whatever crashed or failed before, and wherever it left the checkpoint, a
\* pending thread is still closed once failures stop and somebody decides
\* again: no crash makes a displayed batch undecidable.
Calm == <>[][~Crash /\ \A p \in Procs : ~Fail(p)]_vars
PendingIsDecided ==
  Calm => \A t \in Threads : status[t] = "PENDING_APPROVAL" ~> status[t] \in Closed
=============================================================================
