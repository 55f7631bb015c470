----------------------------- MODULE MCBilling -----------------------------
(* Small instances of Billing for TLC. *)
EXTENDS Billing, TLC

CONSTANTS i1, i2, q1, q2, q3, q4, q5

Symmetry == Permutations(Requests) \cup Permutations(InvoiceIds)
=============================================================================
