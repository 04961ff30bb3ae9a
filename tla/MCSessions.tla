------------------------------- MODULE MCSessions -------------------------------
(* A small instance of Sessions: two tabs, and a second sign-in.            *)
EXTENDS Sessions

CONSTANTS t1, t2
===============================================================================
