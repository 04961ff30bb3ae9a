---------------------------- MODULE MCIdempotency ----------------------------
(* Small instances of Idempotency for TLC.                                 *)
EXTENDS Idempotency
CONSTANTS k1, a1, a2, a3, a4
===============================================================================
