--------------------------- MODULE MCAirtableSync ---------------------------
(* Symmetric rows for the runs of AirtableSync without liveness *)
EXTENDS AirtableSync, TLC

Symmetry == Permutations(Row)
=============================================================================
