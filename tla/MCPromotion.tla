----------------------------- MODULE MCPromotion ----------------------------
(* Small instances of Promotion for TLC. *)
EXTENDS Promotion, TLC

\* Products differ by their prices only.
Symmetric == Permutations(Products)
=============================================================================
