------------------------------ MODULE SpecialOrders ------------------------------
(***************************************************************************)
(* Special orders: lines of customer orders for copies of a book that are  *)
(* not in stock, the purchase orders that bring them, and the links        *)
(* between the two (modules/procurement, modules/specialOrders and what    *)
(* modules/orders does to such a line).                                    *)
(*                                                                         *)
(* Purchasing holds the purchase order's lock, selling the customer        *)
(* order's; they meet at the order line, the link and the stock row.  A    *)
(* use case of either is two or three steps: what it reads when it takes   *)
(* its first lock, the locks it needs after that, and its commit.  There   *)
(* is one more meeting point that no code names: a reservation refers to   *)
(* its order, so inserting one waits for whoever holds the order           *)
(* (inventory_reservations.order_id), and a cycle of waits costs one of    *)
(* the transactions its life (Rollback).                                   *)
(*                                                                         *)
(* Every customer order has one line; all are for the same book and the    *)
(* same branch.  Money is in SupplierLedger and in Orders.                 *)
(***************************************************************************)
EXTENDS ProcurementRules, Sequences

CONSTANTS
  Worker,       \* requests that can be under way at once
  Po,           \* purchase orders
  Orders,       \* the customer orders, oldest first: a sequence
  Ordered,      \* [order -> copies on its line]
  InitialStock, \* copies in the shop
  Threshold,    \* copies a purchase order may have without approval
  Elsewhere,    \* bound: purchase orders whose copies may arrive at the other location
  MaxCopies     \* bound: [purchase order -> copies on it]

Order == {Orders[i] : i \in DOMAIN Orders}

ASSUME SpecialOrdersAssumption ==
  /\ Orders \in Seq(Order) /\ IsFiniteSet(Po)
  /\ Ordered \in [Order -> Nat \ {0}]
  /\ \A i, j \in DOMAIN Orders : Orders[i] = Orders[j] => i = j
  /\ InitialStock \in Nat /\ Threshold \in Nat /\ Elsewhere \subseteq Po /\ MaxCopies \in [Po -> Nat]

VARIABLES
  order,  \* [Order -> its status]
  line,   \* [Order -> copies of its line: reserved, delivered, cancelled]
  po,     \* [Po -> status, copies ordered and received, of which at another location]
  link,   \* [Order \X Po -> none, live or released, copies bought and reserved]
  stock,  \* copies in the shop
  away,   \* copies at the other location
  tx,     \* [Worker -> its transaction]
  raced   \* orders whose line was linked over a figure that was no longer true

vars == <<order, line, po, link, stock, away, tx, raced>>

OpenStatus == {"CONFIRMED", "PART_DELIVERED"}
Nothing == [o \in Order |-> 0]
NoCopies == [reserved |-> 0, delivered |-> 0, cancelled |-> 0]
Idle == [op |-> "none", at |-> "idle", o |-> "none", p |-> "none", n |-> 0, linked |-> 0, seen |-> NoCopies,
         here |-> TRUE, takes |-> Nothing, left |-> 0]

TypeOK ==
  /\ order \in [Order -> OpenStatus \cup {"COMPLETED", "CANCELLED"}]
  /\ line \in [Order -> [reserved : Nat, delivered : Nat, cancelled : Nat]]
  /\ po \in [Po -> [status : PoStatus, quantity : Nat, received : Nat, elsewhere : Nat]]
  /\ link \in [Order \X Po -> [status : {"none", "live", "released"}, quantity : Nat, reserved : Nat]]
  /\ stock \in Nat /\ away \in Nat /\ raced \subseteq Order
  /\ \A w \in Worker : tx[w].op \in {"none", "link", "sell", "receive"}

Init ==
  /\ order = [o \in Order |-> "CONFIRMED"]
  /\ line = [o \in Order |-> NoCopies]
  /\ po = [p \in Po |-> [status |-> "draft", quantity |-> 0, received |-> 0, elsewhere |-> 0]]
  /\ link = [k \in Order \X Po |-> [status |-> "none", quantity |-> 0, reserved |-> 0]]
  /\ stock = InitialStock
  /\ away = 0
  /\ tx = [w \in Worker |-> Idle]
  /\ raced = {}

-----------------------------------------------------------------------------
(* What is read.                                                           *)

\* ON_ORDER: copies neither reserved, delivered nor cancelled
OnOrder(o, l) == Max({0, Ordered[o] - l.reserved - l.delivered - l.cancelled})

Outstanding(o, p) == IF link[<<o, p>>].status = "live" THEN link[<<o, p>>].quantity - link[<<o, p>>].reserved ELSE 0

\* LINKED, of a line, and linkedByBook, of a purchase order
Linked(o) == SumFunction([p \in Po |-> Outstanding(o, p)])
LinkedOn(p) == SumFunction([o \in Order |-> Outstanding(o, p)])

-----------------------------------------------------------------------------
(* Locks.                                                                  *)

Holds(w, op, at) == tx[w].op = op /\ tx[w].at = at

\* The purchase order, from the first step of linking or receiving
PoFree(p) == \A w \in Worker : ~(tx[w].op \in {"link", "receive"} /\ tx[w].p = p)

\* The customer order, from the first step of a seller's use case
OrderFree(o) == \A w \in Worker : ~(tx[w].op = "sell" /\ tx[w].o = o)

\* The order line: held by a link once it has it, and by a receipt for every line it found
LineFree(o) == \A w \in Worker : ~(Holds(w, "link", "locked") /\ tx[w].o = o) /\ ~(tx[w].takes[o] > 0)

\* The links of a line: held by a receipt that found one
LinksFree(o) == \A w \in Worker : ~(tx[w].takes[o] > 0)

\* The stock row of the shop: held by a receipt there
StockFree == \A w \in Worker : ~(Holds(w, "receive", "locked") /\ tx[w].here)

\* Mutant: reservations do not refer to their order.
MutantNoForeignKey(o) == TRUE

\* Inserting a reservation checks that its order exists, with a key-share lock on it.
OrderKeyFree(o) == OrderFree(o)

End(w) == tx' = [tx EXCEPT ![w] = Idle]

-----------------------------------------------------------------------------
(* The purchase order.                                                     *)

\* createPurchaseOrder's lines, or updatePurchaseOrder's: a draft has at least the copies
\* linked lines wait for.
EditDraft(p, n) ==
  /\ po[p].status = "draft" /\ PoFree(p)
  /\ KeepsLinked(LinkedOn(p), n)
  /\ po' = [po EXCEPT ![p].quantity = n]
  /\ UNCHANGED <<order, line, link, stock, away, tx, raced>>

\* submitForApproval, approve, markAsOrdered
Proceed(p) ==
  /\ PoFree(p) /\ po[p].quantity > 0
  /\ \E next \in PoStatus :
       /\ \/ po[p].status = "draft" /\ next = StatusAfterSubmit(po[p].quantity, Threshold)
          \/ po[p].status = "pending_approval" /\ next = "approved"
          \/ po[p].status = "approved" /\ next = "ordered"
       /\ po' = [po EXCEPT ![p].status = next]
  /\ UNCHANGED <<order, line, link, stock, away, tx, raced>>

\* Mutant: a closed or cancelled purchase order keeps its links.
MutantLinksStay(p) == link

\* releaseForPo
ReleasedFor(p) ==
  [k \in DOMAIN link |-> IF k[2] = p /\ link[k].status = "live" THEN [link[k] EXCEPT !.status = "released"] ELSE link[k]]

\* cancel and close
EndPo(p) ==
  /\ PoFree(p)
  /\ \E next \in PoStatus :
       /\ \/ CanCancelPo(po[p].status, po[p].received > 0) /\ next = "cancelled"
          \/ CanClosePo(po[p].status) /\ next = "closed"
       /\ po' = [po EXCEPT ![p].status = next]
  /\ link' = ReleasedFor(p)
  /\ UNCHANGED <<order, line, stock, away, tx, raced>>

-----------------------------------------------------------------------------
(* Linking a line to a purchase order.                                     *)

\* link: the purchase order is locked; the statement that will lock the line reads the
\* status of its order, its other links and its cancelled copies, which are lines of returns,
\* as of now.  What no one else can change any more is checked here.
AskLink(w, p, o, n) ==
  /\ tx[w] = Idle /\ PoFree(p)
  /\ order[o] \in OpenStatus
  /\ PoTakes(po[p].status, po[p].quantity, po[p].received, LinkedOn(p), n)
  /\ po[p].status = "draft" => po[p].quantity + n <= MaxCopies[p]
  /\ tx' = [tx EXCEPT ![w] = [op |-> "link", at |-> "asked", o |-> o, p |-> p, n |-> n, linked |-> Linked(o),
                              seen |-> line[o], here |-> TRUE, takes |-> Nothing, left |-> 0]]
  /\ UNCHANGED <<order, line, po, link, stock, away, raced>>

\* lockLine has the line: the figures of its own row are read again, the others are not.
LockLine(w) ==
  LET t == tx[w]
      found == [line[t.o] EXCEPT !.cancelled = t.seen.cancelled]
  IN /\ Holds(w, "link", "asked") /\ LineFree(t.o)
     /\ Linkable(OnOrder(t.o, found), t.linked, t.n)
     /\ tx' = [tx EXCEPT ![w].at = "locked"]
     /\ UNCHANGED <<order, line, po, link, stock, away, raced>>

\* addLink: a released link takes its copies afresh.
WithLink(k, n) ==
  [status |-> "live", reserved |-> k.reserved,
   quantity |-> (IF k.status = "live" THEN k.quantity ELSE k.reserved) + n]

CommitLink(w) ==
  LET t == tx[w]
  IN /\ Holds(w, "link", "locked")
     /\ link' = [link EXCEPT ![<<t.o, t.p>>] = WithLink(@, t.n)]
     /\ po' = IF po[t.p].status = "draft" THEN [po EXCEPT ![t.p].quantity = @ + t.n] ELSE po
     /\ raced' = IF order[t.o] \notin OpenStatus \/ Linked(t.o) > t.linked THEN raced \cup {t.o} ELSE raced
     /\ End(w)
     /\ UNCHANGED <<order, line, stock, away>>

-----------------------------------------------------------------------------
(* Receiving.                                                              *)

\* Mutant: what a link waits for is not held against what its line still has on order.
MutantWaitsForLink(o, p) == IF order[o] \in OpenStatus THEN Outstanding(o, p) ELSE 0

\* openLinks: what each live link of an open order still waits for
WaitsFor(o, p) ==
  IF order[o] \in OpenStatus THEN Max({0, Min({Outstanding(o, p), OnOrder(o, line[o])})}) ELSE 0

Older(o, y) == \E i, j \in DOMAIN Orders : i < j /\ Orders[i] = o /\ Orders[j] = y

\* arrive: the copies go to the lines that wait, oldest order first; what is left stays.
Arrival(n, waits) ==
  {a \in [takes : [Order -> 0..n], left : 0..n] :
     /\ SumFunction(a.takes) = n - a.left
     /\ \A o \in Order :
          /\ a.takes[o] <= waits[o]
          /\ a.takes[o] < waits[o] => a.left = 0 /\ \A y \in Order : Older(o, y) => a.takes[y] = 0}

\* receive: the purchase order is locked, the stock row by receiveStock, then the links and
\* lines by openLinks.  Copies that arrive at another location are reserved for no one.
LockReceive(w, p, n, here) ==
  LET waits == [o \in Order |-> WaitsFor(o, p)]
  IN /\ tx[w] = Idle /\ PoFree(p)
     /\ CanReceivePo(po[p].status, po[p].quantity, po[p].received, n)
     /\ IF here THEN StockFree ELSE p \in Elsewhere
     /\ \A o \in Order : waits[o] > 0 => LineFree(o)
     /\ \E a \in IF here THEN Arrival(n, waits) ELSE {[takes |-> Nothing, left |-> 0]} :
          tx' = [tx EXCEPT ![w] = [op |-> "receive", at |-> "locked", o |-> "none", p |-> p, n |-> n, linked |-> 0,
                                   seen |-> NoCopies, here |-> here, takes |-> a.takes, left |-> a.left]]
     /\ UNCHANGED <<order, line, po, link, stock, away, raced>>

\* receive: the purchase order after n of its copies arrived
WithReceipt(q, n, here) ==
  [status |-> StatusAfterReceipt(q.quantity, q.received + n), quantity |-> q.quantity,
   received |-> q.received + n, elsewhere |-> IF here THEN q.elsewhere ELSE q.elsewhere + n]

\* reserveForLine and addReserved for each, and the receipt
CommitReceive(w) ==
  LET t == tx[w]
  IN /\ Holds(w, "receive", "locked")
     /\ \A o \in Order : t.takes[o] > 0 => OrderKeyFree(o)
     /\ po' = [po EXCEPT ![t.p] = WithReceipt(@, t.n, t.here)]
     /\ line' = [o \in Order |-> [line[o] EXCEPT !.reserved = @ + t.takes[o]]]
     /\ link' = [k \in DOMAIN link |->
                   IF k[2] = t.p THEN [link[k] EXCEPT !.reserved = @ + t.takes[k[1]]] ELSE link[k]]
     /\ stock' = stock + t.left
     /\ away' = IF t.here THEN away ELSE away + t.n
     /\ End(w)
     /\ UNCHANGED <<order, raced>>

\* moveStock brings copies over: the other location is one of the same branch.
BringOver(n) ==
  /\ n <= away /\ StockFree
  /\ stock' = stock + n /\ away' = away - n
  /\ UNCHANGED <<order, line, po, link, tx, raced>>

-----------------------------------------------------------------------------
(* The customer's order.                                                   *)

\* loadOrder FOR UPDATE, and its lines
LockOrder(w, o) ==
  /\ tx[w] = Idle /\ OrderFree(o) /\ order[o] \in OpenStatus
  /\ tx' = [tx EXCEPT ![w] = [op |-> "sell", at |-> "locked", o |-> o, p |-> "none", n |-> 0, linked |-> 0,
                              seen |-> line[o], here |-> TRUE, takes |-> Nothing, left |-> 0]]
  /\ UNCHANGED <<order, line, po, link, stock, away, raced>>

\* releaseForLines
ReleasedOf(o) ==
  [k \in DOMAIN link |-> IF k[1] = o /\ link[k].status = "live" THEN [link[k] EXCEPT !.status = "released"] ELSE link[k]]

\* Mutant: what was still on order goes back too.
MutantRestocksAll(o, l) == l.reserved + OnOrder(o, l)

\* Copies on order never left the stock, so only the reserved ones go back to it.
GoesBack(o, l) == l.reserved

\* cancel (checkCanCancel), from what it read: the reserved copies go back, the links are released.  The line
\* itself is written only if it had copies reserved.
CommitCancel(w) ==
  LET t == tx[w]
  IN /\ Holds(w, "sell", "locked") /\ order[t.o] = "CONFIRMED"
     /\ LinksFree(t.o)
     /\ t.seen.reserved > 0 => LineFree(t.o) /\ StockFree
     /\ order' = [order EXCEPT ![t.o] = "CANCELLED"]
     /\ line' = IF t.seen.reserved > 0 THEN [line EXCEPT ![t.o].reserved = 0] ELSE line
     /\ stock' = stock + GoesBack(t.o, t.seen)
     /\ link' = ReleasedOf(t.o)
     /\ End(w)
     /\ UNCHANGED <<po, away, raced>>

\* cancelRest (cancelRestLines): what is reserved goes back, what is on order was never there.
CommitCancelRest(w) ==
  LET t == tx[w]
  IN /\ Holds(w, "sell", "locked") /\ order[t.o] = "PART_DELIVERED"
     /\ LinksFree(t.o) /\ LineFree(t.o) /\ (t.seen.reserved > 0 => StockFree)
     /\ order' = [order EXCEPT ![t.o] = "COMPLETED"]
     /\ line' = [line EXCEPT ![t.o].reserved = 0, ![t.o].cancelled = t.seen.reserved + OnOrder(t.o, t.seen)]
     /\ stock' = stock + GoesBack(t.o, t.seen)
     /\ link' = ReleasedOf(t.o)
     /\ End(w)
     /\ UNCHANGED <<po, away, raced>>

\* deliver some or all of what is reserved; the order is done when nothing waits.  Repeatable
\* read: a line changed since then makes it fail.
CommitDeliver(w, n) ==
  LET t == tx[w]
      waiting == t.seen.reserved - n + OnOrder(t.o, t.seen)
  IN /\ Holds(w, "sell", "locked") /\ n <= t.seen.reserved
     /\ LineFree(t.o)
     /\ line[t.o] = t.seen
     /\ line' = [line EXCEPT ![t.o].reserved = @ - n, ![t.o].delivered = @ + n]
     /\ order' = [order EXCEPT ![t.o] = IF waiting > 0 THEN "PART_DELIVERED" ELSE "COMPLETED"]
     /\ End(w)
     /\ UNCHANGED <<po, link, stock, away, raced>>

\* consumeLinks: the copies count against the links of the line, in their order of creation,
\* which is left open here.
Consumed(o, n) ==
  LET total == Min({n, Linked(o)})
      Shares == {f \in [Po -> 0..n] : SumFunction(f) = total /\ \A p \in Po : f[p] <= Outstanding(o, p)}
  IN {[k \in DOMAIN link |-> IF k[1] = o THEN [link[k] EXCEPT !.reserved = @ + f[k[2]]] ELSE link[k]] : f \in Shares}

\* reserveSpecial (specialLineToReserve): as many of the copies on order as the shop has
CommitReserve(w) ==
  LET t == tx[w]
      n == Min({OnOrder(t.o, t.seen), stock})
  IN /\ Holds(w, "sell", "locked")
     /\ LinksFree(t.o) /\ LineFree(t.o) /\ StockFree
     /\ n > 0
     /\ stock' = stock - n
     /\ line' = [line EXCEPT ![t.o].reserved = t.seen.reserved + n]
     /\ link' \in Consumed(t.o, n)
     /\ End(w)
     /\ UNCHANGED <<order, po, away, raced>>

-----------------------------------------------------------------------------

\* A check refused it, the process died, or it was the victim of a cycle of waits.
Rollback(w) ==
  /\ tx[w] # Idle
  /\ End(w)
  /\ UNCHANGED <<order, line, po, link, stock, away, raced>>

Next ==
  \/ \E p \in Po :
       \/ \E n \in 1..MaxCopies[p] : EditDraft(p, n)
       \/ Proceed(p)
       \/ EndPo(p)
  \/ \E n \in 1..away : BringOver(n)
  \/ \E w \in Worker :
       \/ \E p \in Po, o \in Order : \E n \in 1..MaxCopies[p] : AskLink(w, p, o, n)
       \/ LockLine(w)
       \/ CommitLink(w)
       \/ \E p \in Po, here \in BOOLEAN : \E n \in 1..MaxCopies[p] : LockReceive(w, p, n, here)
       \/ CommitReceive(w)
       \/ \E o \in Order : LockOrder(w, o)
       \/ CommitCancel(w)
       \/ CommitCancelRest(w)
       \/ \E n \in 1..tx[w].seen.reserved : CommitDeliver(w, n)
       \/ CommitReserve(w)
       \/ Rollback(w)

Spec == Init /\ [][Next]_vars

-----------------------------------------------------------------------------
(* Properties.                                                             *)

\* A closed order holds no copies.  arrive reserves copies without the order's lock that
\* reserveForLine says its caller holds (orders.service.ts:570); that an order cancelled
\* meanwhile ends up with none rests on the reservation's reference to it.
ReservedOnlyWhileOpen == \A o \in Order : line[o].reserved > 0 => order[o] \in OpenStatus

\* A line's copies, reserved, delivered or cancelled, are no more than were ordered, also
\* when two purchase orders bring them and others are taken from the shelf (rules.ts:457).
NeverMoreThanOrdered ==
  \A o \in Order : line[o].reserved + line[o].delivered + line[o].cancelled <= Ordered[o]

\* No line is promised more than it asked for, and no shelf or link falls below zero.
WithinOrdered == TypeOK /\ NeverMoreThanOrdered

\* No copy is lost or made up: what was there and what purchase orders brought is in the shop,
\* at the other location, reserved or delivered.
EveryCopyAccounted ==
  stock + away + SumFunction([o \in Order |-> line[o].reserved + line[o].delivered])
    = InitialStock + SumFunction([p \in Po |-> po[p].received])

\* "A special-order line waits on purchase orders for no more than it has on order", and a
\* closed order's for none (rules.ts:462), unless the line was linked over a figure another
\* transaction was changing: lockLine reads its order and its other links before it waits.
LinksWithinOnOrder ==
  \A o \in Order \ raced :
    Linked(o) <= (IF order[o] \in OpenStatus THEN OnOrder(o, line[o]) ELSE 0)

\* What lines wait for on a purchase order is still to come, or arrived at another location:
\* never on one that was cancelled or closed, and never more than its copies (placement,
\* checkKeepsLinked, releaseForPo).
PoBringsWhatLinesWaitFor ==
  \A p \in Po :
    (\A o \in raced : Outstanding(o, p) = 0) /\ LinkedOn(p) > 0
      => /\ po[p].status \notin {"cancelled", "closed"}
         /\ LinkedOn(p) <= po[p].quantity - po[p].received + po[p].elsewhere

\* The links between lines and purchase orders are right from both ends.
LinksAreKept == LinksWithinOnOrder /\ PoBringsWhatLinesWaitFor
===============================================================================
