----------------------------- MODULE MCTradingDay -----------------------------
(* Small instances of TradingDay for TLC.                                  *)
EXTENDS TradingDay
CONSTANTS w1, w2
===============================================================================
