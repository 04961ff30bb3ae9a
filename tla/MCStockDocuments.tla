--------------------------- MODULE MCStockDocuments ---------------------------
(* A small instance of StockDocuments: a note of two books, one of which    *)
(* can arrive in parts.                                                     *)
EXTENDS StockDocuments, TLC

CONSTANTS b1, b2

TwoAndOne == (b1 :> 2) @@ (b2 :> 1)
OneAndNone == (b1 :> 1) @@ (b2 :> 0)
===============================================================================
