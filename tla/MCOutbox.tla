------------------------------- MODULE MCOutbox -------------------------------
(* Small instances of Outbox for TLC.                                      *)
EXTENDS Outbox
CONSTANTS s1, s2, p1, p2
===============================================================================
