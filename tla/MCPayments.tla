----------------------------- MODULE MCPayments -----------------------------
(* Symmetric sessions and handlers for the safety runs of Payments *)
EXTENDS Payments, TLC

Symmetry == Permutations(Payment) \cup Permutations(Handler)
=============================================================================
