------------------------------- MODULE MCOrders -------------------------------
(* Small instances of Orders for TLC.                                      *)
EXTENDS Orders, TLC

CONSTANTS a, b, c1, o1, o2

Asked(book, quantity) == [book |-> book, quantity |-> quantity]

PriceOne == [book \in Book |-> 1]
PriceByBook == a :> 1 @@ b :> 2

\* One line, two lines of one book, two books.
ManyBaskets == {<<Asked(a, 1)>>, <<Asked(a, 2), Asked(a, 1)>>, <<Asked(a, 1), Asked(b, 1)>>}
ThreeCopies == {<<Asked(a, 1)>>, <<Asked(a, 3)>>}
OneOrTwo == {<<Asked(a, 1)>>, <<Asked(a, 2)>>}
===============================================================================
