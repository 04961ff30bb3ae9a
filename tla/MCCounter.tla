------------------------------ MODULE MCCounter ------------------------------
(* Small instances of Counter: a sale of three copies one of which is bound, *)
(* exchanges that end either way, and payments that split or fall short.     *)
EXTENDS Counter, TLC

CONSTANTS w1, w2

Sale == [kind |-> "sale", copies |-> 3, price |-> 1000, bound |-> 2, fee |-> 500, tradeIn |-> 0]
Swap == [kind |-> "exchange", copies |-> 1, price |-> 800, bound |-> 1, fee |-> 300, tradeIn |-> 400]
TradeIn == [kind |-> "exchange", copies |-> 1, price |-> 500, bound |-> 1, fee |-> 300, tradeIn |-> 1000]

AllOffers == {Sale, Swap, TradeIn}

Cash(n) == [method |-> "cash", amount |-> n]
Credit(n) == [method |-> "store_credit", amount |-> n]

SplitOrShort == {<<>>, <<Cash(700)>>, <<Cash(1400)>>, <<Credit(800), Cash(700)>>, <<Cash(700), Credit(800)>>}

Symmetry == Permutations({w1, w2})
==============================================================================
