---------------------------- MODULE MCSpecialOrders -----------------------------
(* A small instance of SpecialOrders: two customer orders and two purchase  *)
(* orders, so that a line can wait on both and both lines on one.           *)
EXTENDS SpecialOrders, TLC

CONSTANTS w1, w2, p1, p2, o1, o2

MCWorker == {w1, w2}
MCPo == {p1, p2}
MCOrders == <<o1, o2>>
MCMaxCopies == (p1 :> 2) @@ (p2 :> 1)
MCOrdered == (o1 :> 2) @@ (o2 :> 1)

\* No step tells one request from another.
Symmetry == Permutations(MCWorker)
===============================================================================
