---------------------------- MODULE MCSupplierLedger ----------------------------
(* A small instance of SupplierLedger: an order of one or two copies.       *)
EXTENDS SupplierLedger, TLC

CONSTANTS w1, w2, p1, p2, r1, r2

\* No step tells payments, returns or requests apart.
Symmetry == Permutations({w1, w2}) \cup Permutations({p1, p2}) \cup Permutations({r1, r2})
===============================================================================
