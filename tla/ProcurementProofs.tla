--------------------------- MODULE ProcurementProofs ---------------------------
(***************************************************************************)
(* What purchasing and selling may rely on when they meet at a line, for   *)
(* any orders, purchase orders, workers and quantities: no line gets more  *)
(* than it ordered, a closed order holds no copies, no copy is lost, and   *)
(* what lines wait for on a purchase order can still come (SpecialOrders). *)
(* And what an order owes its supplier, for any payments, returns and      *)
(* clerks (SupplierLedger).                                                *)
(*                                                                         *)
(* The inductive invariants of the first are IInv and, on top of it, LInv. *)
(* The core of IInv is Transaction: what a seller has read is still so,    *)
(* and what a receipt is about to give is still waited for.  The one of    *)
(* the second is Ledger, at the end of the module.                         *)
(***************************************************************************)
EXTENDS SpecialOrders, SupplierLedger, SumTheorems, TLAPS

Line == [reserved : Nat, delivered : Nat, cancelled : Nat]
Link == [status : {"none", "live", "released"}, quantity : Nat, reserved : Nat]

\* The figure of the other links is what the statement found, whatever that is.
TxRecord(t) ==
  t \in [op : {"none", "link", "sell", "receive"}, at : {"idle", "asked", "locked"}, o : Order \cup {"none"},
         p : Po \cup {"none"}, n : Nat, linked : {t.linked}, seen : Line, here : BOOLEAN,
         takes : [Order -> Nat], left : Nat]

Sells(w, o) == tx[w].op = "sell" /\ tx[w].o = o

Transaction(t) ==
  /\ TxRecord(t)
  /\ t.op = "link" => t.o \in Order /\ t.p \in Po /\ t.seen.cancelled = 0
  /\ t.op = "receive" => t.p \in Po
  /\ t.op = "sell" => /\ t.o \in Order /\ t.seen = line[t.o]
                      /\ order[t.o] \in OpenStatus
  /\ \A o \in Order : t.takes[o] > 0 =>
       /\ t.op = "receive" /\ order[o] \in OpenStatus
       /\ t.takes[o] <= OnOrder(o, line[o])

Transactions ==
  /\ tx = [w \in Worker |-> tx[w]]
  /\ \A w \in Worker : Transaction(tx[w])

\* An order has one seller, a line one receipt that gives it copies.
OneOfEach ==
  \A v, w \in Worker : v # w =>
    \A o \in Order : ~(Sells(v, o) /\ Sells(w, o)) /\ ~(tx[v].takes[o] > 0 /\ tx[w].takes[o] > 0)

\* Copies are cancelled with the rest of an order, never of one still open.
NothingCancelledWhileOpen == \A o \in Order : order[o] \in OpenStatus => line[o].cancelled = 0

IInv ==
  /\ TypeOK
  /\ Transactions
  /\ OneOfEach
  /\ NeverMoreThanOrdered
  /\ ReservedOnlyWhileOpen
  /\ NothingCancelledWhileOpen

-----------------------------------------------------------------------------
(* The operators.                                                          *)

LEMMA MaxOfTwo ==
  ASSUME NEW a \in Int, NEW b \in Int
  PROVE  Max({a, b}) = IF a >= b THEN a ELSE b
<1>1. \E x \in {a, b} : \A y \in {a, b} : x >= y
  OBVIOUS
<1> QED BY <1>1 DEF Max

LEMMA MinOfTwo ==
  ASSUME NEW a \in Int, NEW b \in Int
  PROVE  Min({a, b}) = IF a <= b THEN a ELSE b
<1>1. \E x \in {a, b} : \A y \in {a, b} : x <= y
  OBVIOUS
<1> QED BY <1>1 DEF Min

LEMMA OnOrderFacts ==
  ASSUME NEW o \in Order, NEW l \in Line
  PROVE  /\ OnOrder(o, l) \in Nat
         /\ l.reserved + l.delivered + l.cancelled <= Ordered[o] =>
              OnOrder(o, l) = Ordered[o] - l.reserved - l.delivered - l.cancelled
<1>1. Ordered[o] \in Nat /\ l.reserved \in Nat /\ l.delivered \in Nat /\ l.cancelled \in Nat
  BY SpecialOrdersAssumption DEF Line
<1>2. Ordered[o] - l.reserved - l.delivered - l.cancelled \in Int
  BY <1>1
<1>3. OnOrder(o, l) = IF 0 >= Ordered[o] - l.reserved - l.delivered - l.cancelled
                      THEN 0 ELSE Ordered[o] - l.reserved - l.delivered - l.cancelled
  BY <1>2, MaxOfTwo DEF OnOrder
<1> QED BY <1>1, <1>2, <1>3

LEMMA WaitsForFacts ==
  ASSUME TypeOK, NEW o \in Order, NEW p \in Po
  PROVE  /\ WaitsFor(o, p) \in Nat /\ WaitsFor(o, p) <= OnOrder(o, line[o])
         /\ WaitsFor(o, p) > 0 => order[o] \in OpenStatus
<1>1. line[o] \in Line /\ link[<<o, p>>] \in Link
  BY DEF TypeOK, Line, Link
<1>2. OnOrder(o, line[o]) \in Nat /\ Outstanding(o, p) \in Int
  BY <1>1, OnOrderFacts DEF Outstanding, Link
<1> DEFINE least == Min({Outstanding(o, p), OnOrder(o, line[o])})
<1>3. least \in Int /\ least <= OnOrder(o, line[o])
  BY <1>2, MinOfTwo
<1> HIDE DEF least
<1>4. WaitsFor(o, p) = IF order[o] \in OpenStatus THEN Max({0, least}) ELSE 0
  BY DEF WaitsFor, least
<1>5. Max({0, least}) = IF 0 >= least THEN 0 ELSE least
  BY <1>3, MaxOfTwo
<1> QED BY <1>2, <1>3, <1>4, <1>5

LEMMA IdleIsOne == Transaction(Idle) /\ Idle.op = "none" /\ \A o \in Order : Idle.takes[o] = 0
  BY DEF Transaction, TxRecord, Idle, NoCopies, Nothing, Line

LEMMA InitIInv == Init => IInv
<1> SUFFICES ASSUME Init PROVE IInv
  OBVIOUS
<1> USE DEF Init
<1>1. TypeOK
  BY SpecialOrdersAssumption DEF TypeOK, OpenStatus, PoStatus, Idle, NoCopies
<1>2. Transactions /\ OneOfEach
  BY IdleIsOne DEF Transactions, OneOfEach, Sells
<1>3. NeverMoreThanOrdered /\ ReservedOnlyWhileOpen /\ NothingCancelledWhileOpen
  BY SpecialOrdersAssumption
     DEF NeverMoreThanOrdered, ReservedOnlyWhileOpen, NothingCancelledWhileOpen, NoCopies
<1> QED BY <1>1, <1>2, <1>3 DEF IInv

-----------------------------------------------------------------------------
(* Steps.                                                                  *)

\* A step of one worker that changes only its transaction
LEMMA OnlyTx ==
  ASSUME IInv, UNCHANGED <<order, line, po, link, stock, away, raced>>, NEW w \in Worker, NEW t,
         tx' = [tx EXCEPT ![w] = t], Transaction(t),
         \A v \in Worker \ {w}, o \in Order : ~(t.op = "sell" /\ t.o = o /\ Sells(v, o)),
         \A v \in Worker \ {w}, o \in Order : ~(t.takes[o] > 0 /\ tx[v].takes[o] > 0)
  PROVE  IInv'
<1>1. tx' = [v \in Worker |-> IF v = w THEN t ELSE tx[v]]
  BY DEF IInv, Transactions
<1>2. Transactions'
  <2>1. ASSUME NEW v \in Worker PROVE Transaction(tx'[v])
    BY <1>1, <2>1 DEF IInv, Transactions
  <2>2. ASSUME NEW v \in Worker PROVE Transaction(tx[v])'
    <3>1. Transaction(tx'[v])
      BY <2>1, <2>2
    <3> QED BY <3>1 DEF Transaction, TxRecord, OnOrder
  <2> QED BY <1>1, <2>2 DEF Transactions
<1>3. OneOfEach'
  BY <1>1 DEF IInv, OneOfEach, Sells
<1>4. TypeOK'
  <2>1. \A v \in Worker : tx'[v].op \in {"none", "link", "sell", "receive"}
    BY <1>2 DEF Transactions, Transaction, TxRecord
  <2> QED BY <2>1 DEF IInv, TypeOK
<1>5. NeverMoreThanOrdered' /\ ReservedOnlyWhileOpen' /\ NothingCancelledWhileOpen'
  BY DEF IInv, NeverMoreThanOrdered, ReservedOnlyWhileOpen, NothingCancelledWhileOpen
<1> QED BY <1>2, <1>3, <1>4, <1>5 DEF IInv

\* A step that takes no part in any transaction and leaves orders and lines alone
LEMMA OnlyPo ==
  ASSUME IInv, UNCHANGED <<order, line, tx>>, TypeOK' PROVE IInv'
<1>1. Transactions' /\ OneOfEach'
  BY DEF IInv, Transactions, Transaction, TxRecord, OnOrder, OneOfEach, Sells
<1>2. NeverMoreThanOrdered' /\ ReservedOnlyWhileOpen' /\ NothingCancelledWhileOpen'
  BY DEF IInv, NeverMoreThanOrdered, ReservedOnlyWhileOpen, NothingCancelledWhileOpen
<1> QED BY <1>1, <1>2 DEF IInv

\* A transaction commits: where it changes an order or its line, no other has read or found it.
LEMMA Committed ==
  ASSUME IInv, NEW w \in Worker, tx' = [tx EXCEPT ![w] = Idle],
         \A o \in Order : \/ order'[o] = order[o] /\ line'[o] = line[o]
                          \/ \A v \in Worker \ {w} : ~Sells(v, o) /\ tx[v].takes[o] = 0
  PROVE  Transactions' /\ OneOfEach' /\ \A v \in Worker : tx'[v].op \in {"none", "link", "sell", "receive"}
<1>1. tx' = [v \in Worker |-> IF v = w THEN Idle ELSE tx[v]]
  BY DEF IInv, Transactions
<1>2. ASSUME NEW v \in Worker PROVE Transaction(tx[v])'
  <2>1. CASE v = w
    BY <1>1, <2>1, IdleIsOne DEF Transaction, TxRecord, Idle, NoCopies, Nothing
  <2>2. CASE v # w
    <3>1. tx'[v] = tx[v] /\ Transaction(tx[v])
      BY <1>1, <2>2 DEF IInv, Transactions
    <3>2. ASSUME tx[v].op = "sell"
          PROVE  LET o == tx[v].o IN o \in Order /\ tx[v].seen = line'[o] /\ order'[o] \in OpenStatus
      <4>1. tx[v].o \in Order /\ Sells(v, tx[v].o)
        BY <3>1, <3>2 DEF Transaction, Sells
      <4>2. order'[tx[v].o] = order[tx[v].o] /\ line'[tx[v].o] = line[tx[v].o]
        BY <2>2, <4>1
      <4> QED BY <3>1, <3>2, <4>1, <4>2 DEF Transaction
    <3>3. ASSUME NEW o \in Order, tx[v].takes[o] > 0
          PROVE  tx[v].op = "receive" /\ order'[o] \in OpenStatus /\ tx[v].takes[o] <= OnOrder(o, line'[o])
      <4>1. order'[o] = order[o] /\ line'[o] = line[o]
        BY <2>2, <3>3
      <4> QED BY <3>1, <3>3, <4>1 DEF Transaction
    <3>4. /\ TxRecord(tx[v])
          /\ (tx[v].op = "link" => tx[v].o \in Order /\ tx[v].p \in Po /\ tx[v].seen.cancelled = 0)
          /\ (tx[v].op = "receive" => tx[v].p \in Po)
      BY <3>1 DEF Transaction
    <3> QED BY <3>1, <3>2, <3>3, <3>4 DEF Transaction, TxRecord, OnOrder
  <2> QED BY <2>1, <2>2
<1>3. Transactions'
  BY <1>1, <1>2 DEF Transactions
<1>4. OneOfEach'
  BY <1>1, IdleIsOne DEF IInv, OneOfEach, Sells
<1>5. \A v \in Worker : tx'[v].op \in {"none", "link", "sell", "receive"}
  BY <1>3 DEF Transactions, Transaction, TxRecord
<1> QED BY <1>3, <1>4, <1>5

\* What a worker knows of an order it sells, and of a line it found free
LEMMA SellerFacts ==
  ASSUME IInv, NEW w \in Worker, Holds(w, "sell", "locked")
  PROVE  LET o == tx[w].o IN
           /\ o \in Order /\ tx[w].seen = line[o] /\ line[o] \in Line /\ order[o] \in OpenStatus
           /\ \A v \in Worker \ {w} : ~Sells(v, o)
           /\ OnOrder(o, line[o]) \in Nat
           /\ OnOrder(o, line[o]) = Ordered[o] - line[o].reserved - line[o].delivered - line[o].cancelled
<1>1. tx[w].o \in Order /\ tx[w].seen = line[tx[w].o] /\ order[tx[w].o] \in OpenStatus
  BY DEF IInv, Transactions, Transaction, Holds
<1>2. line[tx[w].o] \in Line
  BY <1>1 DEF IInv, TypeOK, Line
<1>3. \A v \in Worker \ {w} : ~Sells(v, tx[w].o)
  BY <1>1 DEF IInv, OneOfEach, Sells, Holds
<1>4. line[tx[w].o].reserved + line[tx[w].o].delivered + line[tx[w].o].cancelled <= Ordered[tx[w].o]
  BY <1>1 DEF IInv, NeverMoreThanOrdered
<1> QED BY <1>1, <1>2, <1>3, <1>4, OnOrderFacts

LEMMA FreeFacts ==
  ASSUME IInv, NEW o \in Order
  PROVE  /\ LineFree(o) \/ LinksFree(o) => \A v \in Worker : tx[v].takes[o] = 0
         /\ OrderFree(o) => \A v \in Worker : ~Sells(v, o)
<1>1. \A v \in Worker : tx[v].takes[o] \in Nat
  BY DEF IInv, Transactions, Transaction, TxRecord
<1> QED BY <1>1 DEF LineFree, LinksFree, OrderFree, Sells

-----------------------------------------------------------------------------
(* The purchase order and the transfer.                                    *)

LEMMA EditDraftKeeps ==
  ASSUME IInv, NEW p \in Po, NEW n \in 1..MaxCopies[p], EditDraft(p, n) PROVE IInv'
<1>1. n \in Nat
  BY SpecialOrdersAssumption
<1>2. TypeOK'
  BY <1>1 DEF IInv, TypeOK, EditDraft
<1> QED BY <1>2, OnlyPo DEF EditDraft

LEMMA ProceedKeeps ==
  ASSUME IInv, NEW p \in Po, Proceed(p) PROVE IInv'
<1>1. PICK next \in PoStatus : po' = [po EXCEPT ![p].status = next]
  BY DEF Proceed
<1>2. TypeOK'
  BY <1>1 DEF IInv, TypeOK, Proceed
<1> QED BY <1>2, OnlyPo DEF Proceed

LEMMA EndPoKeeps ==
  ASSUME IInv, NEW p \in Po, EndPo(p) PROVE IInv'
<1>1. PICK next \in PoStatus : po' = [po EXCEPT ![p].status = next]
  BY DEF EndPo
<1>2. link' \in [Order \X Po -> Link]
  <2>1. link \in [Order \X Po -> Link] /\ link' = ReleasedFor(p)
    BY DEF IInv, TypeOK, EndPo, Link
  <2>2. \A u \in Link : [u EXCEPT !.status = "released"] \in Link
    BY DEF Link
  <2> QED BY <2>1, <2>2 DEF ReleasedFor
<1>3. po' \in [Po -> [status : PoStatus, quantity : Nat, received : Nat, elsewhere : Nat]]
  BY <1>1 DEF IInv, TypeOK
<1>4. UNCHANGED <<order, line, stock, away, tx, raced>>
  BY DEF EndPo
<1>5. TypeOK'
  BY <1>2, <1>3, <1>4 DEF IInv, TypeOK, Link
<1> QED BY <1>4, <1>5, OnlyPo

LEMMA BringOverKeeps ==
  ASSUME IInv, NEW n \in 1..away, BringOver(n) PROVE IInv'
<1>1. TypeOK'
  BY DEF IInv, TypeOK, BringOver
<1> QED BY <1>1, OnlyPo DEF BringOver

-----------------------------------------------------------------------------
(* The first steps of a use case, and its end without a commit.            *)

LEMMA AskLinkKeeps ==
  ASSUME IInv, NEW w \in Worker, NEW p \in Po, NEW o \in Order, NEW n \in 1..MaxCopies[p],
         AskLink(w, p, o, n)
  PROVE  IInv'
<1> DEFINE t == [op |-> "link", at |-> "asked", o |-> o, p |-> p, n |-> n, linked |-> Linked(o),
                 seen |-> line[o], here |-> TRUE, takes |-> Nothing, left |-> 0]
<1>1. tx' = [tx EXCEPT ![w] = t] /\ UNCHANGED <<order, line, po, link, stock, away, raced>>
  BY DEF AskLink
<1>2. /\ n \in Nat /\ line[o] \in Line /\ line[o].cancelled = 0
      /\ Nothing \in [Order -> Nat] /\ \A x \in Order : Nothing[x] = 0
  BY SpecialOrdersAssumption DEF AskLink, IInv, TypeOK, NothingCancelledWhileOpen, Line, Nothing
<1>3. Transaction(t)
  BY <1>2 DEF Transaction, TxRecord
<1>4. t.op # "sell" /\ \A x \in Order : ~(t.takes[x] > 0)
  BY <1>2
<1> HIDE DEF t
<1> QED BY <1>1, <1>3, <1>4, OnlyTx

LEMMA LockLineKeeps ==
  ASSUME IInv, NEW w \in Worker, LockLine(w) PROVE IInv'
<1> DEFINE t == [tx[w] EXCEPT !.at = "locked"]
<1>1. UNCHANGED <<order, line, po, link, stock, away, raced>> /\ tx' = [tx EXCEPT ![w] = t]
  BY DEF LockLine
<1>2. Transaction(tx[w]) /\ tx[w].op = "link"
  BY DEF IInv, Transactions, LockLine, Holds
<1>3. /\ t \in [op : {"none", "link", "sell", "receive"}, at : {"idle", "asked", "locked"}, o : Order \cup {"none"},
                p : Po \cup {"none"}, n : Nat, linked : {tx[w].linked}, seen : Line, here : BOOLEAN,
                takes : [Order -> Nat], left : Nat]
      /\ t.op = tx[w].op /\ t.o = tx[w].o /\ t.p = tx[w].p /\ t.takes = tx[w].takes /\ t.linked = tx[w].linked
      /\ t.seen = tx[w].seen
  BY <1>2 DEF Transaction, TxRecord
<1> HIDE DEF t
<1>4. Transaction(t)
  BY <1>2, <1>3 DEF Transaction, TxRecord
<1>5. t.op # "sell" /\ \A x \in Order : ~(t.takes[x] > 0)
  BY <1>2, <1>3 DEF Transaction
<1> QED BY <1>1, <1>4, <1>5, OnlyTx

LEMMA LockOrderKeeps ==
  ASSUME IInv, NEW w \in Worker, NEW o \in Order, LockOrder(w, o) PROVE IInv'
<1> DEFINE t == [op |-> "sell", at |-> "locked", o |-> o, p |-> "none", n |-> 0, linked |-> 0,
                 seen |-> line[o], here |-> TRUE, takes |-> Nothing, left |-> 0]
<1>1. UNCHANGED <<order, line, po, link, stock, away, raced>> /\ tx' = [tx EXCEPT ![w] = t]
  BY DEF LockOrder
<1>2. line[o] \in Line /\ Nothing \in [Order -> Nat] /\ \A x \in Order : Nothing[x] = 0
  BY DEF IInv, TypeOK, Line, Nothing
<1>3. Transaction(t)
  BY <1>2 DEF Transaction, TxRecord, LockOrder
<1>4. \A x \in Order : ~(t.takes[x] > 0)
  BY <1>2
<1>5. t.o = o /\ \A v \in Worker : ~Sells(v, o)
  BY FreeFacts DEF LockOrder
<1> HIDE DEF t
<1> QED BY <1>1, <1>3, <1>4, <1>5, OnlyTx

\* Copies are promised to a line only within what it waits for, while its order is open, and
\* while no other receipt has promised it any.
LEMMA LockReceiveKeeps ==
  ASSUME IInv, NEW w \in Worker, NEW p \in Po, NEW here \in BOOLEAN, NEW n \in 1..MaxCopies[p],
         LockReceive(w, p, n, here)
  PROVE  IInv'
<1> DEFINE waits == [o \in Order |-> WaitsFor(o, p)]
<1>1. \A o \in Order : waits[o] \in Nat /\ (waits[o] > 0 => LineFree(o))
  BY WaitsForFacts DEF IInv, LockReceive
<1>2. PICK a \in IF here THEN Arrival(n, waits) ELSE {[takes |-> Nothing, left |-> 0]} :
        tx' = [tx EXCEPT ![w] = [op |-> "receive", at |-> "locked", o |-> "none", p |-> p, n |-> n, linked |-> 0,
                                 seen |-> NoCopies, here |-> here, takes |-> a.takes, left |-> a.left]]
  BY DEF LockReceive
<1>3. \A o \in Order : waits[o] = WaitsFor(o, p)
  OBVIOUS
<1> HIDE DEF waits
<1>4. n \in Nat
  BY SpecialOrdersAssumption
<1>5. a.takes \in [Order -> Nat] /\ a.left \in Nat /\ \A o \in Order : a.takes[o] <= waits[o]
  BY <1>1, <1>2, <1>4 DEF Arrival, Nothing
<1> DEFINE t == [op |-> "receive", at |-> "locked", o |-> "none", p |-> p, n |-> n, linked |-> 0,
                 seen |-> NoCopies, here |-> here, takes |-> a.takes, left |-> a.left]
<1>6. tx' = [tx EXCEPT ![w] = t] /\ UNCHANGED <<order, line, po, link, stock, away, raced>>
  BY <1>2 DEF LockReceive
<1>7. t.op = "receive" /\ t.p = p /\ t.takes = a.takes
  OBVIOUS
<1>8. NoCopies \in Line
  BY DEF NoCopies, Line
<1>9. TxRecord(t)
  BY <1>4, <1>5, <1>8 DEF TxRecord
<1> HIDE DEF t
<1>10. ASSUME NEW o \in Order, t.takes[o] > 0
       PROVE  order[o] \in OpenStatus /\ t.takes[o] <= OnOrder(o, line[o]) /\ LineFree(o)
  <2>1. a.takes[o] \in Nat /\ a.takes[o] > 0 /\ a.takes[o] <= waits[o]
    BY <1>5, <1>7, <1>10
  <2>2. waits[o] > 0 /\ LineFree(o)
    BY <2>1, <1>1
  <2>3. line[o] \in Line
    BY DEF IInv, TypeOK, Line
  <2>4. OnOrder(o, line[o]) \in Nat
    BY <2>3, OnOrderFacts
  <2>5. /\ WaitsFor(o, p) \in Nat /\ WaitsFor(o, p) <= OnOrder(o, line[o])
        /\ WaitsFor(o, p) > 0 => order[o] \in OpenStatus
    BY WaitsForFacts DEF IInv
  <2> QED BY <1>3, <1>7, <2>1, <2>2, <2>4, <2>5
<1>11. Transaction(t)
  BY <1>7, <1>9, <1>10 DEF Transaction
<1>12. \A v \in Worker \ {w}, o \in Order : ~(t.takes[o] > 0 /\ tx[v].takes[o] > 0)
  BY <1>10, FreeFacts
<1>13. t.op # "sell"
  BY <1>7
<1> QED BY <1>6, <1>11, <1>12, <1>13, OnlyTx

LEMMA RollbackKeeps ==
  ASSUME IInv, NEW w \in Worker, Rollback(w) PROVE IInv'
<1>1. UNCHANGED <<order, line, po, link, stock, away, raced>> /\ tx' = [tx EXCEPT ![w] = Idle]
  BY DEF Rollback, End
<1>2. Idle.op # "sell" /\ \A o \in Order : ~(Idle.takes[o] > 0)
  BY IdleIsOne
<1> QED BY <1>1, <1>2, IdleIsOne, OnlyTx

LEMMA ReleasedOfType ==
  ASSUME IInv, NEW o \in Order PROVE ReleasedOf(o) \in [Order \X Po -> Link]
<1>1. link \in [Order \X Po -> Link]
  BY DEF IInv, TypeOK, Link
<1>2. \A u \in Link : [u EXCEPT !.status = "released"] \in Link
  BY DEF Link
<1> QED BY <1>1, <1>2 DEF ReleasedOf

\* What has to be shown when one line changes
LEMMA OneLine ==
  ASSUME IInv, NEW o \in Order,
         \A x \in Order : x # o => order'[x] = order[x] /\ line'[x] = line[x],
         line'[o].reserved + line'[o].delivered + line'[o].cancelled <= Ordered[o],
         line'[o].reserved = 0 \/ order'[o] \in OpenStatus,
         line'[o].cancelled = 0 \/ order'[o] \notin OpenStatus
  PROVE  NeverMoreThanOrdered' /\ ReservedOnlyWhileOpen' /\ NothingCancelledWhileOpen'
<1>1. NeverMoreThanOrdered'
  BY DEF IInv, NeverMoreThanOrdered
<1>2. ReservedOnlyWhileOpen'
  BY DEF IInv, ReservedOnlyWhileOpen
<1>3. NothingCancelledWhileOpen'
  BY DEF IInv, NothingCancelledWhileOpen
<1> QED BY <1>1, <1>2, <1>3

-----------------------------------------------------------------------------
(* Commits.                                                                *)

LEMMA CommitLinkKeeps ==
  ASSUME IInv, NEW w \in Worker, CommitLink(w) PROVE IInv'
<1> DEFINE t == tx[w]
<1>1. t.o \in Order /\ t.p \in Po /\ t.n \in Nat
  BY DEF IInv, Transactions, Transaction, TxRecord, CommitLink, Holds
<1>2. UNCHANGED <<order, line, stock, away>> /\ tx' = [tx EXCEPT ![w] = Idle]
  BY DEF CommitLink, End
<1>3. Transactions' /\ OneOfEach' /\ \A v \in Worker : tx'[v].op \in {"none", "link", "sell", "receive"}
  BY <1>2, Committed
<1>4. link' \in [Order \X Po -> Link]
  <2>1. link \in [Order \X Po -> Link] /\ link' = [link EXCEPT ![<<t.o, t.p>>] = WithLink(@, t.n)]
    BY DEF IInv, TypeOK, CommitLink, Link
  <2>2. \A u \in Link : WithLink(u, t.n) \in Link
    BY <1>1 DEF Link, WithLink
  <2> QED BY <1>1, <2>1, <2>2
<1>5. po' \in [Po -> [status : PoStatus, quantity : Nat, received : Nat, elsewhere : Nat]]
  <2>1. po' = IF po[t.p].status = "draft" THEN [po EXCEPT ![t.p].quantity = @ + t.n] ELSE po
    BY DEF CommitLink
  <2>2. po \in [Po -> [status : PoStatus, quantity : Nat, received : Nat, elsewhere : Nat]]
    BY DEF IInv, TypeOK
  <2>3. PICK p \in Po, n \in Nat : p = t.p /\ n = t.n
    BY <1>1
  <2> HIDE DEF t
  <2> QED BY <2>1, <2>2, <2>3
<1>6. raced' \subseteq Order
  BY <1>1 DEF IInv, TypeOK, CommitLink
<1>7. TypeOK'
  BY <1>2, <1>3, <1>4, <1>5, <1>6 DEF IInv, TypeOK, Link
<1>8. NeverMoreThanOrdered' /\ ReservedOnlyWhileOpen' /\ NothingCancelledWhileOpen'
  BY <1>2 DEF IInv, NeverMoreThanOrdered, ReservedOnlyWhileOpen, NothingCancelledWhileOpen
<1> QED BY <1>3, <1>7, <1>8 DEF IInv

\* The copies a receipt reserves are still on order: no seller can have changed the line, for it
\* would hold the order, which the reservation needs.
LEMMA CommitReceiveKeeps ==
  ASSUME IInv, NEW w \in Worker, CommitReceive(w) PROVE IInv'
<1> DEFINE t == tx[w]
           n == t.n
<1>1. t.p \in Po /\ n \in Nat /\ t.left \in Nat /\ t.takes \in [Order -> Nat] /\ t.here \in BOOLEAN
  BY DEF IInv, Transactions, Transaction, TxRecord, CommitReceive, Holds
<1>2. UNCHANGED <<order, raced>> /\ tx' = [tx EXCEPT ![w] = Idle] /\ stock' = stock + t.left
      /\ away' = IF t.here THEN away ELSE away + n
  BY DEF CommitReceive, End
<1>3. line' = [o \in Order |-> [line[o] EXCEPT !.reserved = @ + t.takes[o]]]
  BY DEF CommitReceive
<1>4. ASSUME NEW o \in Order
      PROVE  /\ line[o] \in Line /\ line'[o] \in Line /\ t.takes[o] \in Nat
             /\ line'[o].reserved = line[o].reserved + t.takes[o]
             /\ line'[o].delivered = line[o].delivered /\ line'[o].cancelled = line[o].cancelled
  BY <1>1, <1>3, <1>4 DEF IInv, TypeOK, Line
<1>5. ASSUME NEW o \in Order, t.takes[o] > 0
      PROVE  order[o] \in OpenStatus /\ t.takes[o] <= OnOrder(o, line[o]) /\ OrderFree(o)
  BY <1>5 DEF IInv, Transactions, Transaction, CommitReceive, OrderKeyFree
<1>6. \A o \in Order : \/ order'[o] = order[o] /\ line'[o] = line[o]
                       \/ \A v \in Worker \ {w} : ~Sells(v, o) /\ tx[v].takes[o] = 0
  <2> SUFFICES ASSUME NEW o \in Order
               PROVE  \/ order'[o] = order[o] /\ line'[o] = line[o]
                      \/ \A v \in Worker \ {w} : ~Sells(v, o) /\ tx[v].takes[o] = 0
    OBVIOUS
  <2>1. CASE t.takes[o] = 0
    BY <1>2, <1>4, <2>1 DEF Line
  <2>2. CASE t.takes[o] > 0
    <3>1. \A v \in Worker : ~Sells(v, o)
      BY <1>5, <2>2, FreeFacts
    <3>2. \A v \in Worker \ {w} : tx[v].takes[o] \in Nat /\ ~(tx[v].takes[o] > 0)
      BY <2>2 DEF IInv, OneOfEach, Transactions, Transaction, TxRecord
    <3> QED BY <3>1, <3>2
  <2> QED BY <1>4, <2>1, <2>2
<1>7. Transactions' /\ OneOfEach' /\ \A v \in Worker : tx'[v].op \in {"none", "link", "sell", "receive"}
  BY <1>2, <1>6, Committed
<1>8. link' \in [Order \X Po -> Link]
  <2>1. link \in [Order \X Po -> Link] /\
        link' = [k \in Order \X Po |->
                   IF k[2] = t.p THEN [link[k] EXCEPT !.reserved = @ + t.takes[k[1]]] ELSE link[k]]
    BY DEF IInv, TypeOK, CommitReceive, Link
  <2>2. \A u \in Link : \A m \in Nat : [u EXCEPT !.reserved = @ + m] \in Link
    BY DEF Link
  <2>3. \A k \in Order \X Po : t.takes[k[1]] \in Nat
    BY <1>1
  <2> QED BY <2>1, <2>2, <2>3
<1>9. po' \in [Po -> [status : PoStatus, quantity : Nat, received : Nat, elsewhere : Nat]]
  <2>1. po' = [po EXCEPT ![t.p] = WithReceipt(@, n, t.here)]
    BY DEF CommitReceive
  <2>2. po[t.p] \in [status : PoStatus, quantity : Nat, received : Nat, elsewhere : Nat]
    BY <1>1 DEF IInv, TypeOK
  <2>3. WithReceipt(po[t.p], n, t.here) \in [status : PoStatus, quantity : Nat, received : Nat, elsewhere : Nat]
    BY <1>1, <2>2 DEF WithReceipt, StatusAfterReceipt, PoStatus
  <2> QED BY <1>1, <2>1, <2>3 DEF IInv, TypeOK
<1>10. line' \in [Order -> Line]
  BY <1>3, <1>4
<1>11. stock' \in Nat /\ away' \in Nat
  BY <1>1, <1>2 DEF IInv, TypeOK
<1>12. TypeOK'
  BY <1>2, <1>7, <1>8, <1>9, <1>10, <1>11 DEF IInv, TypeOK, Link, Line
<1>13. NeverMoreThanOrdered'
  <2> SUFFICES ASSUME NEW o \in Order
               PROVE  line'[o].reserved + line'[o].delivered + line'[o].cancelled <= Ordered[o]
    BY DEF NeverMoreThanOrdered
  <2>1. line[o].reserved + line[o].delivered + line[o].cancelled <= Ordered[o]
    BY DEF IInv, NeverMoreThanOrdered
  <2>2. OnOrder(o, line[o]) = Ordered[o] - line[o].reserved - line[o].delivered - line[o].cancelled
    BY <1>4, <2>1, OnOrderFacts
  <2>3. Ordered[o] \in Nat
    BY SpecialOrdersAssumption
  <2>4. t.takes[o] > 0 => t.takes[o] <= OnOrder(o, line[o])
    BY <1>5
  <2> HIDE DEF t
  <2> QED BY <1>4, <2>1, <2>2, <2>3, <2>4 DEF Line
<1>14. ReservedOnlyWhileOpen'
  <2>1. \A o \in Order : line'[o].reserved > 0 => line[o].reserved > 0 \/ t.takes[o] > 0
    BY <1>4 DEF Line
  <2> QED BY <1>2, <1>5, <2>1 DEF IInv, ReservedOnlyWhileOpen
<1>15. NothingCancelledWhileOpen'
  BY <1>2, <1>4 DEF IInv, NothingCancelledWhileOpen
<1> QED BY <1>7, <1>12, <1>13, <1>14, <1>15 DEF IInv

LEMMA CommitCancelKeeps ==
  ASSUME IInv, NEW w \in Worker, CommitCancel(w) PROVE IInv'
<1> DEFINE o == tx[w].o
           n == tx[w].seen.reserved
<1>1. /\ o \in Order /\ tx[w].seen = line[o] /\ line[o] \in Line
      /\ \A v \in Worker \ {w} : ~Sells(v, o)
  BY SellerFacts DEF CommitCancel
<1>2. /\ UNCHANGED <<po, away, raced>> /\ tx' = [tx EXCEPT ![w] = Idle]
      /\ order' = [order EXCEPT ![o] = "CANCELLED"]
      /\ line' = IF n > 0 THEN [line EXCEPT ![o].reserved = 0] ELSE line
      /\ stock' = stock + n /\ link' = ReleasedOf(o) /\ LinksFree(o)
  BY DEF CommitCancel, End, GoesBack
<1>3. n = line[o].reserved /\ n \in Nat
  BY <1>1 DEF Line
<1>4. line'[o] = [line[o] EXCEPT !.reserved = 0] /\ line' \in [Order -> Line]
  <2>1. line \in [Order -> Line]
    BY DEF IInv, TypeOK, Line
  <2> HIDE DEF n, o
  <2> QED BY <1>1, <1>2, <1>3, <2>1 DEF Line
<1>5. \A x \in Order : x # o => order'[x] = order[x] /\ line'[x] = line[x]
  BY <1>1, <1>2 DEF IInv, TypeOK
<1>6. \A v \in Worker : tx[v].takes[o] = 0
  BY <1>1, <1>2, FreeFacts
<1>7. Transactions' /\ OneOfEach' /\ \A v \in Worker : tx'[v].op \in {"none", "link", "sell", "receive"}
  BY <1>1, <1>2, <1>5, <1>6, Committed
<1>8. link' \in [Order \X Po -> Link]
  BY <1>1, <1>2, ReleasedOfType
<1>9. order' \in [Order -> OpenStatus \cup {"COMPLETED", "CANCELLED"}] /\ stock' \in Nat
  <2>1. stock \in Nat /\ order \in [Order -> OpenStatus \cup {"COMPLETED", "CANCELLED"}]
    BY DEF IInv, TypeOK
  <2>2. stock' \in Nat
    BY <1>2, <1>3, <2>1
  <2>3. order' = [order EXCEPT ![o] = "CANCELLED"]
    BY <1>2
  <2> HIDE DEF o
  <2>4. order' \in [Order -> OpenStatus \cup {"COMPLETED", "CANCELLED"}]
    BY <2>1, <2>3
  <2> QED BY <2>2, <2>4
<1>10. TypeOK'
  BY <1>2, <1>4, <1>7, <1>8, <1>9 DEF IInv, TypeOK, Line, Link
<1>11. line'[o].reserved = 0 /\ line'[o].delivered = line[o].delivered /\ line'[o].cancelled = line[o].cancelled
  BY <1>1, <1>4 DEF Line
<1>12. line'[o].reserved + line'[o].delivered + line'[o].cancelled <= Ordered[o]
  <2>1. Ordered[o] \in Nat /\ line[o].reserved + line[o].delivered + line[o].cancelled <= Ordered[o]
    BY <1>1, SpecialOrdersAssumption DEF IInv, NeverMoreThanOrdered
  <2> QED BY <1>1, <1>3, <1>11, <2>1 DEF Line
<1>13. NeverMoreThanOrdered' /\ ReservedOnlyWhileOpen' /\ NothingCancelledWhileOpen'
  <2>1. order'[o] \notin OpenStatus
    BY <1>1, <1>2 DEF IInv, TypeOK, OpenStatus
  <2> QED BY <1>1, <1>5, <1>11, <1>12, <2>1, OneLine
<1> QED BY <1>7, <1>10, <1>13 DEF IInv

LEMMA CommitCancelRestKeeps ==
  ASSUME IInv, NEW w \in Worker, CommitCancelRest(w) PROVE IInv'
<1> DEFINE o == tx[w].o
           s == tx[w].seen
           rest == s.reserved + OnOrder(o, s)
<1>1. /\ o \in Order /\ s = line[o] /\ line[o] \in Line
      /\ \A v \in Worker \ {w} : ~Sells(v, o)
      /\ OnOrder(o, line[o]) \in Nat
      /\ OnOrder(o, line[o]) = Ordered[o] - line[o].reserved - line[o].delivered - line[o].cancelled
  BY SellerFacts DEF CommitCancelRest
<1>2. /\ UNCHANGED <<po, away, raced>> /\ tx' = [tx EXCEPT ![w] = Idle]
      /\ order' = [order EXCEPT ![o] = "COMPLETED"]
      /\ line' = [line EXCEPT ![o].reserved = 0, ![o].cancelled = rest]
      /\ stock' = stock + s.reserved /\ link' = ReleasedOf(o) /\ LinksFree(o)
  BY DEF CommitCancelRest, End, GoesBack
<1>3. s.reserved \in Nat /\ rest \in Nat /\ rest = line[o].reserved + OnOrder(o, line[o])
  BY <1>1 DEF Line
<1> HIDE DEF rest
<1>4. line'[o] = [line[o] EXCEPT !.reserved = 0, !.cancelled = rest] /\ line' \in [Order -> Line]
      /\ \A x \in Order : x # o => line'[x] = line[x]
  <2>1. line \in [Order -> Line]
    BY DEF IInv, TypeOK, Line
  <2> HIDE DEF o, s
  <2> QED BY <1>1, <1>2, <1>3, <2>1 DEF Line
<1>5. \A x \in Order : x # o => order'[x] = order[x] /\ line'[x] = line[x]
  BY <1>1, <1>2, <1>4 DEF IInv, TypeOK
<1>6. \A v \in Worker : tx[v].takes[o] = 0
  BY <1>1, <1>2, FreeFacts
<1>7. Transactions' /\ OneOfEach' /\ \A v \in Worker : tx'[v].op \in {"none", "link", "sell", "receive"}
  BY <1>1, <1>2, <1>5, <1>6, Committed
<1>8. link' \in [Order \X Po -> Link]
  BY <1>1, <1>2, ReleasedOfType
<1>9. order' \in [Order -> OpenStatus \cup {"COMPLETED", "CANCELLED"}] /\ stock' \in Nat
  <2>1. stock \in Nat /\ order \in [Order -> OpenStatus \cup {"COMPLETED", "CANCELLED"}]
    BY DEF IInv, TypeOK
  <2>2. stock' \in Nat
    BY <1>2, <1>3, <2>1
  <2>3. order' = [order EXCEPT ![o] = "COMPLETED"]
    BY <1>2
  <2> HIDE DEF o
  <2>4. order' \in [Order -> OpenStatus \cup {"COMPLETED", "CANCELLED"}]
    BY <2>1, <2>3
  <2> QED BY <2>2, <2>4
<1>10. TypeOK'
  BY <1>2, <1>4, <1>7, <1>8, <1>9 DEF IInv, TypeOK, Line, Link
<1>11. line'[o].reserved = 0 /\ line'[o].delivered = line[o].delivered /\ line'[o].cancelled = rest
  BY <1>1, <1>4 DEF Line
<1>12. line'[o].reserved + line'[o].delivered + line'[o].cancelled <= Ordered[o]
  <2>1. Ordered[o] \in Nat
    BY <1>1, SpecialOrdersAssumption
  <2> QED BY <1>1, <1>3, <1>11, <2>1 DEF Line
<1>13. NeverMoreThanOrdered' /\ ReservedOnlyWhileOpen' /\ NothingCancelledWhileOpen'
  <2>1. order'[o] \notin OpenStatus
    BY <1>1, <1>2 DEF IInv, TypeOK, OpenStatus
  <2> QED BY <1>1, <1>5, <1>11, <1>12, <2>1, OneLine
<1> QED BY <1>7, <1>10, <1>13 DEF IInv

LEMMA CommitDeliverKeeps ==
  ASSUME IInv, NEW w \in Worker, NEW n \in 1..tx[w].seen.reserved, CommitDeliver(w, n) PROVE IInv'
<1> DEFINE o == tx[w].o
           status == IF tx[w].seen.reserved - n + OnOrder(o, tx[w].seen) > 0 THEN "PART_DELIVERED" ELSE "COMPLETED"
<1>1. /\ o \in Order /\ tx[w].seen = line[o] /\ line[o] \in Line /\ order[o] \in OpenStatus
      /\ \A v \in Worker \ {w} : ~Sells(v, o)
      /\ OnOrder(o, line[o]) \in Nat
  BY SellerFacts DEF CommitDeliver
<1>2. /\ UNCHANGED <<po, link, stock, away, raced>> /\ tx' = [tx EXCEPT ![w] = Idle]
      /\ order' = [order EXCEPT ![o] = status]
      /\ line' = [line EXCEPT ![o].reserved = @ - n, ![o].delivered = @ + n] /\ LineFree(o)
  BY DEF CommitDeliver, End
<1>3. n \in Nat /\ n <= line[o].reserved
  BY <1>1 DEF Line
<1>4. /\ line' \in [Order -> Line] /\ \A x \in Order : x # o => line'[x] = line[x]
      /\ line'[o].reserved = line[o].reserved - n /\ line'[o].delivered = line[o].delivered + n
      /\ line'[o].cancelled = line[o].cancelled
  <2> DEFINE rest == [line EXCEPT ![o].reserved = @ - n]
  <2>1. line \in [Order -> Line]
    BY DEF IInv, TypeOK, Line
  <2>2. line' = [rest EXCEPT ![o].delivered = line[o].delivered + n]
    BY <1>2
  <2> HIDE DEF o, status
  <2>3. line[o].delivered + n \in Nat /\ line[o].reserved - n \in Nat
    BY <1>1, <1>3 DEF Line
  <2>4. /\ rest \in [Order -> Line] /\ \A x \in Order : x # o => rest[x] = line[x]
        /\ rest[o].reserved = line[o].reserved - n /\ rest[o].cancelled = line[o].cancelled
    BY <1>1, <2>1, <2>3 DEF Line
  <2> HIDE DEF rest
  <2> QED BY <1>1, <2>2, <2>3, <2>4 DEF Line
<1>5. \A x \in Order : x # o => order'[x] = order[x] /\ line'[x] = line[x]
  BY <1>1, <1>2, <1>4 DEF IInv, TypeOK
<1>6. \A v \in Worker : tx[v].takes[o] = 0
  BY <1>1, <1>2, FreeFacts
<1>7. Transactions' /\ OneOfEach' /\ \A v \in Worker : tx'[v].op \in {"none", "link", "sell", "receive"}
  BY <1>1, <1>2, <1>5, <1>6, Committed
<1>8. order' \in [Order -> OpenStatus \cup {"COMPLETED", "CANCELLED"}] /\ order'[o] = status
  <2>1. order \in [Order -> OpenStatus \cup {"COMPLETED", "CANCELLED"}]
    BY DEF IInv, TypeOK
  <2>2. status \in OpenStatus \cup {"COMPLETED", "CANCELLED"}
    BY DEF OpenStatus
  <2>3. order' = [order EXCEPT ![o] = status]
    BY <1>2
  <2>4. o \in Order
    BY <1>1
  <2> HIDE DEF o, status
  <2> QED BY <2>1, <2>2, <2>3, <2>4
<1>9. TypeOK'
  BY <1>2, <1>4, <1>7, <1>8 DEF IInv, TypeOK, Line
<1>10. line'[o].reserved + line'[o].delivered + line'[o].cancelled <= Ordered[o]
  <2>1. Ordered[o] \in Nat /\ line[o].reserved + line[o].delivered + line[o].cancelled <= Ordered[o]
    BY <1>1, SpecialOrdersAssumption DEF IInv, NeverMoreThanOrdered
  <2> QED BY <1>1, <1>3, <1>4, <2>1 DEF Line
<1>11. line'[o].reserved = 0 \/ order'[o] \in OpenStatus
  <2>1. line[o].reserved - n \in Nat
    BY <1>1, <1>3 DEF Line
  <2>2. CASE line[o].reserved - n = 0
    BY <1>4, <2>2
  <2>3. CASE line[o].reserved - n > 0
    <3>1. line[o].reserved - n + OnOrder(o, line[o]) > 0
      BY <1>1, <2>1, <2>3
    <3> QED BY <1>1, <1>8, <3>1 DEF OpenStatus
  <2> QED BY <2>1, <2>2, <2>3
<1>12. line'[o].cancelled = 0
  BY <1>1, <1>4 DEF IInv, NothingCancelledWhileOpen
<1>13. NeverMoreThanOrdered' /\ ReservedOnlyWhileOpen' /\ NothingCancelledWhileOpen'
  BY <1>1, <1>5, <1>10, <1>11, <1>12, OneLine
<1> QED BY <1>7, <1>9, <1>13 DEF IInv

LEMMA CommitReserveKeeps ==
  ASSUME IInv, NEW w \in Worker, CommitReserve(w) PROVE IInv'
<1> DEFINE o == tx[w].o
           n == Min({OnOrder(o, tx[w].seen), stock})
<1>1. /\ o \in Order /\ tx[w].seen = line[o] /\ line[o] \in Line /\ order[o] \in OpenStatus
      /\ \A v \in Worker \ {w} : ~Sells(v, o)
      /\ OnOrder(o, line[o]) \in Nat
      /\ OnOrder(o, line[o]) = Ordered[o] - line[o].reserved - line[o].delivered - line[o].cancelled
  BY SellerFacts DEF CommitReserve
<1>2. /\ UNCHANGED <<order, po, away, raced>> /\ tx' = [tx EXCEPT ![w] = Idle]
      /\ stock' = stock - n
      /\ line' = [line EXCEPT ![o].reserved = tx[w].seen.reserved + n]
      /\ link' \in Consumed(o, n) /\ LinksFree(o) /\ n > 0
  BY DEF CommitReserve, End
<1>3. stock \in Nat /\ n \in Int /\ n <= stock /\ n <= OnOrder(o, line[o])
  <2>1. stock \in Nat /\ OnOrder(o, line[o]) \in Nat
    BY <1>1 DEF IInv, TypeOK
  <2>2. n = Min({OnOrder(o, line[o]), stock})
    BY <1>1
  <2>3. Min({OnOrder(o, line[o]), stock}) = IF OnOrder(o, line[o]) <= stock THEN OnOrder(o, line[o]) ELSE stock
    BY <2>1, MinOfTwo
  <2> HIDE DEF n
  <2> QED BY <2>1, <2>2, <2>3
<1> HIDE DEF n
<1>4. n \in Nat /\ stock' \in Nat
  BY <1>2, <1>3
<1>5. line'[o] = [line[o] EXCEPT !.reserved = @ + n] /\ line' \in [Order -> Line]
      /\ \A x \in Order : x # o => line'[x] = line[x]
  <2>1. line \in [Order -> Line]
    BY DEF IInv, TypeOK, Line
  <2> HIDE DEF o
  <2> QED BY <1>1, <1>2, <1>4, <2>1 DEF Line
<1>6. \A v \in Worker : tx[v].takes[o] = 0
  BY <1>1, <1>2, FreeFacts
<1>7. Transactions' /\ OneOfEach' /\ \A v \in Worker : tx'[v].op \in {"none", "link", "sell", "receive"}
  <2>1. \A x \in Order : x # o => order'[x] = order[x] /\ line'[x] = line[x]
    BY <1>2, <1>5
  <2>2. \A v \in Worker \ {w} : ~Sells(v, o) /\ tx[v].takes[o] = 0
    BY <1>1, <1>6
  <2>3. tx' = [tx EXCEPT ![w] = Idle]
    BY <1>2
  <2> HIDE DEF o
  <2> QED BY <2>1, <2>2, <2>3, Committed
<1>8. link' \in [Order \X Po -> Link]
  <2>1. PICK f \in [Po -> 0..n] :
          link' = [k \in Order \X Po |->
                     IF k[1] = o THEN [link[k] EXCEPT !.reserved = @ + f[k[2]]] ELSE link[k]]
    <3>1. \E f \in [Po -> 0..n] :
            link' = [k \in DOMAIN link |-> IF k[1] = o THEN [link[k] EXCEPT !.reserved = @ + f[k[2]]] ELSE link[k]]
      BY <1>2 DEF Consumed
    <3> QED BY <3>1 DEF IInv, TypeOK
  <2>2. \A u \in Link : \A m \in Nat : [u EXCEPT !.reserved = @ + m] \in Link
    BY DEF Link
  <2>3. \A k \in Order \X Po : f[k[2]] \in Nat
    BY <1>4
  <2>4. link \in [Order \X Po -> Link]
    BY DEF IInv, TypeOK, Link
  <2> QED BY <2>1, <2>2, <2>3, <2>4
<1>9. TypeOK'
  BY <1>2, <1>4, <1>5, <1>7, <1>8 DEF IInv, TypeOK, Line, Link
<1>10. /\ line'[o].reserved = line[o].reserved + n /\ line'[o].delivered = line[o].delivered
       /\ line'[o].cancelled = line[o].cancelled
  BY <1>1, <1>5 DEF Line
<1>11. line'[o].reserved + line'[o].delivered + line'[o].cancelled <= Ordered[o]
  <2>1. Ordered[o] \in Nat
    BY <1>1, SpecialOrdersAssumption
  <2> QED BY <1>1, <1>3, <1>4, <1>10, <2>1 DEF Line
<1>12. NeverMoreThanOrdered' /\ ReservedOnlyWhileOpen' /\ NothingCancelledWhileOpen'
  <2>1. line'[o].cancelled = 0
    BY <1>1, <1>10 DEF IInv, NothingCancelledWhileOpen
  <2> QED BY <1>1, <1>2, <1>5, <1>11, <2>1, OneLine
<1> QED BY <1>7, <1>9, <1>12 DEF IInv

-----------------------------------------------------------------------------
(* All steps.                                                              *)

LEMMA NextKeeps ==
  ASSUME IInv, Next PROVE IInv'
<1>1. CASE \E p \in Po : (\E n \in 1..MaxCopies[p] : EditDraft(p, n)) \/ Proceed(p) \/ EndPo(p)
  BY <1>1, EditDraftKeeps, ProceedKeeps, EndPoKeeps
<1>2. CASE \E n \in 1..away : BringOver(n)
  BY <1>2, BringOverKeeps
<1>3. CASE \E w \in Worker, p \in Po, o \in Order : \E n \in 1..MaxCopies[p] : AskLink(w, p, o, n)
  BY <1>3, AskLinkKeeps
<1>4. CASE \E w \in Worker, p \in Po, here \in BOOLEAN : \E n \in 1..MaxCopies[p] : LockReceive(w, p, n, here)
  BY <1>4, LockReceiveKeeps
<1>5. CASE \E w \in Worker, o \in Order : LockOrder(w, o)
  BY <1>5, LockOrderKeeps
<1>6. CASE \E w \in Worker : LockLine(w) \/ CommitLink(w) \/ CommitReceive(w) \/ Rollback(w)
  BY <1>6, LockLineKeeps, CommitLinkKeeps, CommitReceiveKeeps, RollbackKeeps
<1>7. CASE \E w \in Worker : CommitCancel(w) \/ CommitCancelRest(w) \/ CommitReserve(w)
  BY <1>7, CommitCancelKeeps, CommitCancelRestKeeps, CommitReserveKeeps
<1>8. CASE \E w \in Worker : \E n \in 1..tx[w].seen.reserved : CommitDeliver(w, n)
  BY <1>8, CommitDeliverKeeps
<1> QED BY <1>1, <1>2, <1>3, <1>4, <1>5, <1>6, <1>7, <1>8 DEF Next

LEMMA StutterKeeps ==
  ASSUME IInv, UNCHANGED vars PROVE IInv'
<1>1. TypeOK' /\ UNCHANGED <<order, line, tx>>
  BY DEF vars, IInv, TypeOK
<1> QED BY <1>1, OnlyPo

LEMMA Inductive == Spec => []IInv
<1>1. IInv /\ [Next]_vars => IInv'
  BY NextKeeps, StutterKeeps
<1> QED BY InitIInv, <1>1, PTL DEF Spec

\* No line is reserved, delivered and cancelled more copies than it ordered, however many
\* purchase orders bring them and whatever is taken from the shelf meanwhile; and no stock,
\* link or line figure falls below zero (arrive, reserveSpecial, cancelRestLines).
THEOREM NoLineGetsMoreThanItOrdered == Spec => []WithinOrdered
<1>1. IInv => WithinOrdered
  BY DEF IInv, WithinOrdered
<1> QED BY Inductive, <1>1, PTL

\* An order that was cancelled, or has nothing left to deliver, holds no copies, although a
\* receipt reserves them without having locked it: the reservation refers to the order.
THEOREM ClosedOrdersHoldNothing == Spec => []ReservedOnlyWhileOpen
<1>1. IInv => ReservedOnlyWhileOpen
  BY DEF IInv
<1> QED BY Inductive, <1>1, PTL

-----------------------------------------------------------------------------
(***************************************************************************)
(* The links between lines and purchase orders, and the balance of copies. *)
(* The inductive invariant is LInv, beside IInv.  It says what a request   *)
(* may rely on between its steps (Purchase), why two requests do not spoil *)
(* each other's figures (Apart), and of each purchase order what still     *)
(* comes (Brings): once a line was linked over a stale figure, more is     *)
(* waited for than comes, and what is left then is that other lines wait   *)
(* for nothing.                                                            *)
(***************************************************************************)

\* What a request that links or receives has found is still so when it commits: what the
\* purchase order may still take, what a locked line has on order while its order is open, and,
\* once copies are left over, that no line waits for more than it gets.
Purchase(t) ==
  /\ t.op = "link" => /\ t.n > 0 /\ t.linked \in Int
                      /\ PoTakes(po[t.p].status, po[t.p].quantity, po[t.p].received, LinkedOn(t.p), t.n)
                      /\ t.at = "locked" /\ order[t.o] \in OpenStatus =>
                           t.linked + t.n <= OnOrder(t.o, line[t.o])
  /\ t.op = "receive" =>
       /\ \A o \in Order : t.takes[o] <= Outstanding(o, t.p)
       /\ t.left > 0 => \A o \in Order \ raced : t.takes[o] >= Outstanding(o, t.p)
       /\ IF t.here THEN SumFunction(t.takes) = t.n - t.left
                    ELSE t.left = 0 /\ \A o \in Order : t.takes[o] = 0

Buys(v, p) == tx[v].op \in {"link", "receive"} /\ tx[v].p = p
LinksLine(v, o) == Holds(v, "link", "locked") /\ tx[v].o = o

\* A purchase order has one request that links or receives, and a line that is being linked
\* gets no copies meanwhile.
Apart ==
  \A v, w \in Worker : v # w =>
    /\ \A p \in Po : ~(Buys(v, p) /\ Buys(w, p))
    /\ \A o \in Order : ~(LinksLine(v, o) /\ tx[w].takes[o] > 0)

\* No link has more copies reserved than bought.
LinksCovered == \A o \in Order, p \in Po : Outstanding(o, p) >= 0

\* Nothing waits on a purchase order that has ended; what waits on another is still to come, or
\* is at the other location, but for lines linked over a stale figure: their surplus stays when
\* all copies have come, and all other lines have theirs then.
Brings(p) ==
  /\ po[p].status \in {"cancelled", "closed"} => \A o \in Order : Outstanding(o, p) = 0
  /\ po[p].status = "draft" => po[p].received = 0 /\ LinkedOn(p) <= po[p].quantity
  /\ \/ LinkedOn(p) <= po[p].quantity - po[p].received + po[p].elsewhere
     \/ \A o \in Order \ raced : Outstanding(o, p) = 0

LInv ==
  /\ \A v \in Worker : Purchase(tx[v])
  /\ Apart
  /\ LinksCovered
  /\ LinksWithinOnOrder
  /\ \A p \in Po : Brings(p)
  /\ EveryCopyAccounted

Held == SumFunction([o \in Order |-> line[o].reserved + line[o].delivered])
Arrived == SumFunction([p \in Po |-> po[p].received])

-----------------------------------------------------------------------------
(* Sums over lines, links and purchase orders.                             *)

LEMMA OrderIsFinite == IsFiniteSet(Order)
<1> DEFINE at == [i \in 1..Len(Orders) |-> Orders[i]]
<1>1. Orders \in Seq(Order)
  BY SpecialOrdersAssumption
<1>2. DOMAIN Orders = 1..Len(Orders) /\ Len(Orders) \in Nat
  BY <1>1
<1>3. at \in Surjection(1..Len(Orders), Order)
  BY <1>2 DEF Order, Surjection
<1>4. IsFiniteSet(1..Len(Orders))
  BY <1>2, FS_Interval
<1> QED BY <1>3, <1>4, FS_Surjection

LEMMA SumsUnfold ==
  /\ \A o \in Order : Linked(o) = SumFunctionOnSet([p \in Po |-> Outstanding(o, p)], Po)
  /\ \A p \in Po : LinkedOn(p) = SumFunctionOnSet([o \in Order |-> Outstanding(o, p)], Order)
  /\ Held = SumFunctionOnSet([o \in Order |-> line[o].reserved + line[o].delivered], Order)
  /\ Arrived = SumFunctionOnSet([p \in Po |-> po[p].received], Po)
  BY DEF Linked, LinkedOn, Held, Arrived, SumFunction

LEMMA Totals ==
  ASSUME TypeOK
  PROVE  /\ \A o \in Order, p \in Po : Outstanding(o, p) \in Int
         /\ \A o \in Order : Linked(o) \in Int
         /\ \A p \in Po : LinkedOn(p) \in Int
<1>1. \A o \in Order, p \in Po : Outstanding(o, p) \in Int
  BY DEF TypeOK, Outstanding
<1>2. ASSUME NEW o \in Order PROVE Linked(o) \in Int
  <2> DEFINE f == [p \in Po |-> Outstanding(o, p)]
  <2>1. \A p \in Po : f[p] \in Int
    BY <1>1
  <2> HIDE DEF f
  <2>2. SumFunctionOnSet(f, Po) \in Int
    BY <2>1, SumInteger, SpecialOrdersAssumption
  <2> QED BY <2>2, SumsUnfold DEF f
<1>3. ASSUME NEW p \in Po PROVE LinkedOn(p) \in Int
  <2> DEFINE f == [o \in Order |-> Outstanding(o, p)]
  <2>1. \A o \in Order : f[o] \in Int
    BY <1>1
  <2> HIDE DEF f
  <2>2. SumFunctionOnSet(f, Order) \in Int
    BY <2>1, SumInteger, OrderIsFinite
  <2> QED BY <2>2, SumsUnfold DEF f
<1> QED BY <1>1, <1>2, <1>3

LEMMA NextOutstanding ==
  ASSUME TypeOK'
  PROVE  \A o \in Order, p \in Po : Outstanding(o, p)' \in Int
  BY DEF TypeOK, Outstanding

\* What one line waits for, when links change
LEMMA LinkedStep ==
  ASSUME TypeOK, TypeOK', NEW o \in Order
  PROVE  /\ Linked(o) \in Int /\ Linked(o)' \in Int
         /\ (\A p \in Po : Outstanding(o, p)' = Outstanding(o, p)) => Linked(o)' = Linked(o)
         /\ (\A p \in Po : Outstanding(o, p)' <= Outstanding(o, p)) => Linked(o)' <= Linked(o)
         /\ (\A p \in Po : Outstanding(o, p)' = 0) => Linked(o)' = 0
         /\ \A p \in Po : (\A q \in Po \ {p} : Outstanding(o, q)' = Outstanding(o, q)) =>
              Linked(o)' = Linked(o) - Outstanding(o, p) + Outstanding(o, p)'
<1> DEFINE f == [p \in Po |-> Outstanding(o, p)]
           g == [p \in Po |-> Outstanding(o, p)']
<1>1. \A p \in Po : f[p] \in Int /\ g[p] \in Int /\ f[p] = Outstanding(o, p) /\ g[p] = Outstanding(o, p)'
  BY Totals, SumsUnfold DEF TypeOK, Outstanding
<1>2. Linked(o) = SumFunctionOnSet(f, Po) /\ Linked(o)' = SumFunctionOnSet(g, Po)
  <2>1. Linked(o)' = SumFunctionOnSet(g, Po)
    BY DEF Linked, SumFunction
  <2> QED BY <2>1, SumsUnfold
<1>3. IsFiniteSet(Po)
  BY SpecialOrdersAssumption
<1> HIDE DEF f, g
<1>4. (\A p \in Po : g[p] = f[p]) => SumFunctionOnSet(g, Po) = SumFunctionOnSet(f, Po)
  BY <1>3, SumEqual
<1>5. (\A p \in Po : g[p] <= f[p]) => SumFunctionOnSet(g, Po) <= SumFunctionOnSet(f, Po)
  BY <1>1, <1>3, SumAtMost
<1>6. (\A p \in Po : g[p] = 0) => SumFunctionOnSet(g, Po) = 0
  BY <1>3, SumZero
<1>7. ASSUME NEW p \in Po, \A q \in Po \ {p} : g[q] = f[q]
      PROVE  SumFunctionOnSet(g, Po) = SumFunctionOnSet(f, Po) - f[p] + g[p]
  BY <1>1, <1>3, <1>7, SumChange
<1>8. SumFunctionOnSet(f, Po) \in Int /\ SumFunctionOnSet(g, Po) \in Int
  BY <1>1, <1>3, SumInteger
<1> QED BY <1>1, <1>2, <1>4, <1>5, <1>6, <1>7, <1>8

\* What lines wait for on one purchase order, when links change
LEMMA LinkedOnStep ==
  ASSUME TypeOK, TypeOK', NEW p \in Po
  PROVE  /\ LinkedOn(p) \in Int /\ LinkedOn(p)' \in Int
         /\ (\A o \in Order : Outstanding(o, p)' = Outstanding(o, p)) => LinkedOn(p)' = LinkedOn(p)
         /\ (\A o \in Order : Outstanding(o, p)' <= Outstanding(o, p)) => LinkedOn(p)' <= LinkedOn(p)
         /\ (\A o \in Order : Outstanding(o, p)' = 0) => LinkedOn(p)' = 0
         /\ \A o \in Order : (\A y \in Order \ {o} : Outstanding(y, p)' = Outstanding(y, p)) =>
              LinkedOn(p)' = LinkedOn(p) - Outstanding(o, p) + Outstanding(o, p)'
<1> DEFINE f == [o \in Order |-> Outstanding(o, p)]
           g == [o \in Order |-> Outstanding(o, p)']
<1>1. \A o \in Order : f[o] \in Int /\ g[o] \in Int /\ f[o] = Outstanding(o, p) /\ g[o] = Outstanding(o, p)'
  BY Totals, SumsUnfold DEF TypeOK, Outstanding
<1>2. LinkedOn(p) = SumFunctionOnSet(f, Order) /\ LinkedOn(p)' = SumFunctionOnSet(g, Order)
  <2>1. LinkedOn(p)' = SumFunctionOnSet(g, Order)
    BY DEF LinkedOn, SumFunction
  <2> QED BY <2>1, SumsUnfold
<1> HIDE DEF f, g
<1>4. (\A o \in Order : g[o] = f[o]) => SumFunctionOnSet(g, Order) = SumFunctionOnSet(f, Order)
  BY OrderIsFinite, SumEqual
<1>5. (\A o \in Order : g[o] <= f[o]) => SumFunctionOnSet(g, Order) <= SumFunctionOnSet(f, Order)
  BY <1>1, OrderIsFinite, SumAtMost
<1>6. (\A o \in Order : g[o] = 0) => SumFunctionOnSet(g, Order) = 0
  BY OrderIsFinite, SumZero
<1>7. ASSUME NEW o \in Order, \A y \in Order \ {o} : g[y] = f[y]
      PROVE  SumFunctionOnSet(g, Order) = SumFunctionOnSet(f, Order) - f[o] + g[o]
  BY <1>1, OrderIsFinite, <1>7, SumChange
<1>8. SumFunctionOnSet(f, Order) \in Int /\ SumFunctionOnSet(g, Order) \in Int
  BY <1>1, OrderIsFinite, SumInteger
<1> QED BY <1>1, <1>2, <1>4, <1>5, <1>6, <1>7, <1>8

-----------------------------------------------------------------------------
(* Requests under way.                                                     *)

\* A step leaves alone what the request v has found.
Undisturbed(v) ==
  /\ tx'[v] = tx[v]
  /\ \A p \in Po : Buys(v, p) =>
       /\ po'[p] = po[p]
       /\ \A o \in Order : Outstanding(o, p)' <= Outstanding(o, p)
       /\ \A o \in Order : tx[v].takes[o] > 0 => Outstanding(o, p)' = Outstanding(o, p)
  /\ \A o \in Order : LinksLine(v, o) =>
       line'[o] = line[o] /\ (order'[o] \in OpenStatus => order[o] \in OpenStatus)

LEMMA UndisturbedKeeps ==
  ASSUME IInv, LInv, TypeOK', LinksCovered', raced \subseteq raced', NEW v \in Worker, Undisturbed(v)
  PROVE  Purchase(tx[v])'
<1>1. Transaction(tx[v]) /\ Purchase(tx[v]) /\ tx'[v] = tx[v]
  BY DEF IInv, Transactions, LInv, Undisturbed
<1>2. CASE tx[v].op \notin {"link", "receive"}
  BY <1>1, <1>2 DEF Purchase
<1>3. CASE tx[v].op \in {"link", "receive"}
  <2>1. PICK p \in Po : tx[v].p = p
    BY <1>1, <1>3 DEF Transaction
  <2>2. /\ po'[p] = po[p]
        /\ \A o \in Order : Outstanding(o, p)' <= Outstanding(o, p)
        /\ \A o \in Order : tx[v].takes[o] > 0 => Outstanding(o, p)' = Outstanding(o, p)
    BY <1>3, <2>1 DEF Undisturbed, Buys
  <2>3. LinkedOn(p)' <= LinkedOn(p) /\ LinkedOn(p) \in Int /\ LinkedOn(p)' \in Int
    BY <2>2, LinkedOnStep DEF IInv
  <2>4. CASE tx[v].op = "link"
    <3>1. /\ tx[v].n > 0 /\ tx[v].linked \in Int
          /\ PoTakes(po[p].status, po[p].quantity, po[p].received, LinkedOn(p), tx[v].n)
          /\ tx[v].at = "locked" /\ order[tx[v].o] \in OpenStatus =>
               tx[v].linked + tx[v].n <= OnOrder(tx[v].o, line[tx[v].o])
      BY <1>1, <2>1, <2>4 DEF Purchase
    <3>2. PoTakes(po[p].status, po[p].quantity, po[p].received, LinkedOn(p)', tx[v].n)
      <4>1. po[p].quantity \in Nat /\ po[p].received \in Nat /\ tx[v].n \in Nat
        BY <1>1 DEF IInv, TypeOK, Transaction, TxRecord
      <4> QED BY <3>1, <4>1, <2>3 DEF PoTakes
    <3>3. tx[v].at = "locked" => /\ line'[tx[v].o] = line[tx[v].o]
                                 /\ order'[tx[v].o] \in OpenStatus => order[tx[v].o] \in OpenStatus
      <4>1. tx[v].o \in Order
        BY <1>1, <2>4 DEF Transaction
      <4> QED BY <4>1, <2>4 DEF Undisturbed, LinksLine, Holds
    <3>4. tx'[v].at = "locked" /\ order'[tx'[v].o] \in OpenStatus =>
            tx'[v].linked + tx'[v].n <= OnOrder(tx'[v].o, line'[tx'[v].o])
      BY <1>1, <3>1, <3>3
    <3>5. PoTakes(po'[tx'[v].p].status, po'[tx'[v].p].quantity, po'[tx'[v].p].received, LinkedOn(p)', tx'[v].n)
      BY <1>1, <2>1, <2>2, <3>2
    <3>6. LinkedOn(tx[v].p)' = LinkedOn(p)'
      BY <1>1, <2>1 DEF LinkedOn, Outstanding
    <3>7. tx'[v].n > 0 /\ tx'[v].linked \in Int /\ tx'[v].op = "link"
      BY <1>1, <3>1, <2>4
    <3>8. OnOrder(tx[v].o, line[tx[v].o])' = OnOrder(tx'[v].o, line'[tx'[v].o])
      BY DEF OnOrder
    <3> QED BY <3>4, <3>5, <3>6, <3>7, <3>8 DEF Purchase
  <2>5. CASE tx[v].op = "receive"
    <3>1. /\ \A o \in Order : tx[v].takes[o] <= Outstanding(o, p)
          /\ tx[v].left > 0 => \A o \in Order \ raced : tx[v].takes[o] >= Outstanding(o, p)
          /\ IF tx[v].here THEN SumFunction(tx[v].takes) = tx[v].n - tx[v].left
                           ELSE tx[v].left = 0 /\ \A o \in Order : tx[v].takes[o] = 0
      BY <1>1, <2>1, <2>5 DEF Purchase
    <3>2. \A o \in Order : /\ tx[v].takes[o] \in Nat
                           /\ Outstanding(o, p) \in Int /\ Outstanding(o, p)' \in Int /\ Outstanding(o, p)' >= 0
      <4>1. \A o \in Order : Outstanding(o, p)' \in Int
        BY NextOutstanding
      <4> QED BY <4>1, <1>1, Totals DEF IInv, Transaction, TxRecord, LinksCovered
    <3>3. \A o \in Order : tx[v].takes[o] <= Outstanding(o, p)'
      BY <2>2, <3>1, <3>2
    <3>4. tx[v].left > 0 => \A o \in Order \ raced' : tx[v].takes[o] >= Outstanding(o, p)'
      BY <2>2, <3>1, <3>2
    <3>5. \A o \in Order : Outstanding(o, tx[v].p)' = Outstanding(o, p)'
      BY <1>1, <2>1 DEF Outstanding
    <3> QED BY <1>1, <2>5, <3>1, <3>3, <3>4, <3>5 DEF Purchase
  <2> QED BY <1>3, <2>4, <2>5
<1> QED BY <1>2, <1>3

LEMMA IdleBuysNothing ==
  ASSUME NEW v \in Worker, tx'[v] = Idle
  PROVE  Purchase(tx[v])'
  BY DEF Purchase, Idle

\* Requests that end, and others that are not disturbed
LEMMA OthersKeep ==
  ASSUME IInv, LInv, TypeOK', LinksCovered', raced \subseteq raced',
         \A v \in Worker : tx'[v] = Idle \/ Undisturbed(v)
  PROVE  (\A v \in Worker : Purchase(tx[v])') /\ Apart'
<1>1. \A v \in Worker : Purchase(tx[v])'
  BY UndisturbedKeeps, IdleBuysNothing
<1>2. \A v \in Worker : tx'[v] = Idle \/ tx'[v] = tx[v]
  BY DEF Undisturbed
<1>3. Idle.op = "none" /\ \A o \in Order : ~(Idle.takes[o] > 0)
  BY IdleIsOne
<1>4. Apart'
  BY <1>2, <1>3 DEF LInv, Apart, Buys, LinksLine, Holds
<1> QED BY <1>1, <1>4

\* A step that only changes a transaction, or only moves copies between the locations
LEMMA OnlyTxLinks ==
  ASSUME IInv, LInv, UNCHANGED <<order, line, po, link, raced>>, stock' + away' = stock + away,
         \A v \in Worker : Purchase(tx[v])', Apart'
  PROVE  LInv'
<1>1. \A o \in Order, p \in Po : Outstanding(o, p)' = Outstanding(o, p)
  BY DEF Outstanding
<1>2. /\ \A o \in Order : Linked(o)' = Linked(o)
      /\ \A p \in Po : LinkedOn(p)' = LinkedOn(p)
  BY DEF Linked, LinkedOn, Outstanding
<1>3. LinksCovered'
  BY <1>1 DEF LInv, LinksCovered
<1>4. LinksWithinOnOrder'
  BY <1>2 DEF LInv, LinksWithinOnOrder, OnOrder
<1>5. \A p \in Po : Brings(p)'
  BY <1>1, <1>2 DEF LInv, Brings
<1>6. EveryCopyAccounted'
  BY DEF LInv, EveryCopyAccounted
<1> QED BY <1>3, <1>4, <1>5, <1>6 DEF LInv

\* The transaction t does not meet that of v.
ApartFrom(v, t) ==
  /\ \A p \in Po : ~(t.op \in {"link", "receive"} /\ t.p = p /\ Buys(v, p))
  /\ \A o \in Order : ~(t.op = "link" /\ t.at = "locked" /\ t.o = o /\ tx[v].takes[o] > 0)
  /\ \A o \in Order : ~(t.takes[o] > 0 /\ LinksLine(v, o))

\* Then the transactions of the others are not disturbed.
LEMMA OneTxLinks ==
  ASSUME IInv, LInv, TypeOK', UNCHANGED <<order, line, po, link, stock, away, raced>>,
         NEW w \in Worker, NEW t, tx' = [tx EXCEPT ![w] = t], Purchase(t),
         \A v \in Worker \ {w} : ApartFrom(v, t)
  PROVE  LInv'
<1>1. tx' = [v \in Worker |-> IF v = w THEN t ELSE tx[v]]
  BY DEF IInv, Transactions
<1>2. \A o \in Order, p \in Po : Outstanding(o, p)' = Outstanding(o, p) /\ Outstanding(o, p) \in Int
  BY Totals DEF Outstanding, IInv
<1>3. LinksCovered'
  BY <1>2 DEF LInv, LinksCovered
<1>4. \A v \in Worker \ {w} : Undisturbed(v)
  BY <1>1, <1>2 DEF Undisturbed
<1>5. \A v \in Worker \ {w} : Purchase(tx[v])'
  BY <1>3, <1>4, UndisturbedKeeps
<1>6. Purchase(tx[w])'
  <2>1. tx'[w] = t
    BY <1>1
  <2> QED BY <2>1 DEF Purchase, LinkedOn, Outstanding, OnOrder
<1>7. Apart'
  BY <1>1 DEF LInv, Apart, ApartFrom, Buys, LinksLine, Holds
<1>8. stock' + away' = stock + away
  OBVIOUS
<1> QED BY <1>5, <1>6, <1>7, <1>8, OnlyTxLinks

-----------------------------------------------------------------------------
(* Copies.                                                                 *)

LEMMA CopiesStep ==
  ASSUME TypeOK, TypeOK'
  PROVE  /\ Held \in Int /\ Arrived \in Int /\ Held' \in Int /\ Arrived' \in Int
         /\ EveryCopyAccounted <=> stock + away + Held = InitialStock + Arrived
         /\ EveryCopyAccounted' <=> stock' + away' + Held' = InitialStock + Arrived'
         /\ (\A p \in Po : po'[p].received = po[p].received) => Arrived' = Arrived
         /\ \A o \in Order : (\A x \in Order \ {o} : line'[x] = line[x]) =>
              Held' = Held - (line[o].reserved + line[o].delivered) + (line'[o].reserved + line'[o].delivered)
<1> DEFINE f == [o \in Order |-> line[o].reserved + line[o].delivered]
           g == [o \in Order |-> line'[o].reserved + line'[o].delivered]
           a == [p \in Po |-> po[p].received]
           b == [p \in Po |-> po'[p].received]
<1>1. /\ Held = SumFunctionOnSet(f, Order) /\ Held' = SumFunctionOnSet(g, Order)
      /\ Arrived = SumFunctionOnSet(a, Po) /\ Arrived' = SumFunctionOnSet(b, Po)
  <2>1. Held' = SumFunctionOnSet(g, Order) /\ Arrived' = SumFunctionOnSet(b, Po)
    BY DEF Held, Arrived, SumFunction
  <2> QED BY <2>1, SumsUnfold
<1>2. /\ \A o \in Order : /\ f[o] = line[o].reserved + line[o].delivered
                          /\ g[o] = line'[o].reserved + line'[o].delivered
      /\ \A p \in Po : a[p] = po[p].received /\ b[p] = po'[p].received
  OBVIOUS
<1>3. (\A o \in Order : f[o] \in Int /\ g[o] \in Int) /\ (\A p \in Po : a[p] \in Int /\ b[p] \in Int)
  BY DEF TypeOK
<1> HIDE DEF f, g, a, b
<1>4. Held \in Int /\ Arrived \in Int /\ Held' \in Int /\ Arrived' \in Int
  BY <1>1, <1>3, SumInteger, OrderIsFinite, SpecialOrdersAssumption
<1>5. (\A p \in Po : po'[p].received = po[p].received) => Arrived' = Arrived
  BY <1>1, <1>2, SumEqual, SpecialOrdersAssumption
<1>6. ASSUME NEW o \in Order, \A x \in Order \ {o} : line'[x] = line[x]
      PROVE  Held' = Held - (line[o].reserved + line[o].delivered) + (line'[o].reserved + line'[o].delivered)
  <2>1. \A x \in Order \ {o} : g[x] = f[x]
    BY <1>2, <1>6
  <2>2. SumFunctionOnSet(g, Order) = SumFunctionOnSet(f, Order) - f[o] + g[o]
    BY <1>3, <2>1, SumChange, OrderIsFinite
  <2> QED BY <1>1, <1>2, <2>2
<1>7. /\ EveryCopyAccounted <=> stock + away + Held = InitialStock + Arrived
      /\ EveryCopyAccounted' <=> stock' + away' + Held' = InitialStock + Arrived'
  BY DEF EveryCopyAccounted, Held, Arrived
<1> QED BY <1>4, <1>5, <1>6, <1>7

LEMMA InitLInv == Init => LInv
<1> SUFFICES ASSUME Init PROVE LInv
  OBVIOUS
<1>1. TypeOK
  BY InitIInv DEF IInv
<1>2. \A o \in Order, p \in Po : Outstanding(o, p) = 0
  BY DEF Init, Outstanding
<1>3. \A v \in Worker : tx[v] = Idle
  BY DEF Init
<1>4. (\A v \in Worker : Purchase(tx[v])) /\ Apart /\ LinksCovered
  BY <1>2, <1>3, IdleIsOne DEF Purchase, Apart, Buys, LinksLine, Holds, LinksCovered
<1>5. ASSUME NEW o \in Order PROVE Linked(o) = 0
  <2> DEFINE f == [p \in Po |-> Outstanding(o, p)]
  <2>1. \A p \in Po : f[p] = 0
    BY <1>2
  <2> HIDE DEF f
  <2>2. SumFunctionOnSet(f, Po) = 0
    BY <2>1, SumZero, SpecialOrdersAssumption
  <2> QED BY <2>2, SumsUnfold DEF f
<1>6. ASSUME NEW p \in Po PROVE LinkedOn(p) = 0
  <2> DEFINE f == [o \in Order |-> Outstanding(o, p)]
  <2>1. \A o \in Order : f[o] = 0
    BY <1>2
  <2> HIDE DEF f
  <2>2. SumFunctionOnSet(f, Order) = 0
    BY <2>1, SumZero, OrderIsFinite
  <2> QED BY <2>2, SumsUnfold DEF f
<1>7. LinksWithinOnOrder
  <2>1. \A o \in Order : OnOrder(o, line[o]) \in Nat
    BY <1>1, OnOrderFacts DEF TypeOK, Line
  <2> QED BY <1>5, <2>1 DEF LinksWithinOnOrder
<1>8. \A p \in Po : Brings(p)
  BY <1>2, <1>6 DEF Brings, Init
<1>9. Held = 0 /\ Arrived = 0
  <2> DEFINE f == [o \in Order |-> line[o].reserved + line[o].delivered]
             a == [p \in Po |-> po[p].received]
  <2>1. (\A o \in Order : f[o] = 0) /\ (\A p \in Po : a[p] = 0)
    BY DEF Init, NoCopies
  <2> HIDE DEF f, a
  <2>2. SumFunctionOnSet(f, Order) = 0 /\ SumFunctionOnSet(a, Po) = 0
    BY <2>1, SumZero, OrderIsFinite, SpecialOrdersAssumption
  <2> QED BY <2>2, SumsUnfold DEF f, a
<1>10. EveryCopyAccounted
  <2>1. stock + away + Held = InitialStock + Arrived
    BY <1>9, SpecialOrdersAssumption DEF Init
  <2> QED BY <2>1 DEF EveryCopyAccounted, Held, Arrived
<1> QED BY <1>4, <1>7, <1>8, <1>10 DEF LInv

-----------------------------------------------------------------------------
(* The purchase order.                                                     *)

LEMMA NobodyBuys ==
  ASSUME NEW p \in Po, PoFree(p)
  PROVE  \A v \in Worker : ~Buys(v, p)
  BY DEF PoFree, Buys

\* A purchase order changes that no request works on; nothing else does, but the links to it.
LEMMA OnePo ==
  ASSUME IInv, LInv, TypeOK', UNCHANGED <<order, line, stock, away, tx, raced>>, NEW p \in Po, PoFree(p),
         \A q \in Po \ {p} : po'[q] = po[q], po'[p].received = po[p].received,
         \A o \in Order : \A q \in Po \ {p} : Outstanding(o, q)' = Outstanding(o, q),
         \A o \in Order : Outstanding(o, p)' <= Outstanding(o, p) /\ Outstanding(o, p)' >= 0,
         Brings(p)'
  PROVE  LInv'
<1>1. \A o \in Order, q \in Po : /\ Outstanding(o, q) \in Int /\ Outstanding(o, q)' \in Int
                                 /\ Outstanding(o, q)' <= Outstanding(o, q) /\ Outstanding(o, q)' >= 0
  <2>1. \A o \in Order, q \in Po : Outstanding(o, q) \in Int /\ Outstanding(o, q) >= 0
    BY Totals DEF IInv, LInv, LinksCovered
  <2>2. \A o \in Order, q \in Po : Outstanding(o, q)' \in Int
    BY NextOutstanding
  <2> QED BY <2>1, <2>2
<1>2. LinksCovered'
  BY <1>1 DEF LinksCovered
<1>3. \A v \in Worker : Undisturbed(v)
  BY <1>1, NobodyBuys DEF Undisturbed
<1>4. (\A v \in Worker : Purchase(tx[v])') /\ Apart'
  BY <1>2, <1>3, OthersKeep
<1>5. LinksWithinOnOrder'
  <2>1. \A o \in Order : Linked(o)' <= Linked(o) /\ Linked(o) \in Int /\ Linked(o)' \in Int
    BY <1>1, LinkedStep DEF IInv
  <2>2. \A o \in Order : OnOrder(o, line[o]) \in Nat
    BY OnOrderFacts DEF IInv, TypeOK, Line
  <2>3. \A o \in Order : OnOrder(o, line[o])' = OnOrder(o, line[o])
    BY DEF OnOrder
  <2> QED BY <2>1, <2>2, <2>3 DEF LInv, LinksWithinOnOrder
<1>6. ASSUME NEW q \in Po \ {p} PROVE Brings(q)'
  <2>1. LinkedOn(q)' = LinkedOn(q)
    BY LinkedOnStep DEF IInv
  <2> QED BY <2>1 DEF LInv, Brings
<1>7. EveryCopyAccounted'
  <2>1. Arrived' = Arrived
    BY CopiesStep DEF IInv
  <2>2. Held' = Held
    BY DEF Held
  <2> QED BY <2>1, <2>2, CopiesStep DEF IInv, LInv
<1> QED BY <1>2, <1>4, <1>5, <1>6, <1>7 DEF LInv

LEMMA EditDraftLinks ==
  ASSUME IInv, LInv, TypeOK', NEW p \in Po, NEW n \in 1..MaxCopies[p], EditDraft(p, n) PROVE LInv'
<1>1. /\ po' = [po EXCEPT ![p].quantity = n] /\ po[p].status = "draft" /\ PoFree(p) /\ n \in Nat
      /\ LinkedOn(p) <= n /\ UNCHANGED <<order, line, link, stock, away, tx, raced>>
  BY SpecialOrdersAssumption, Totals DEF EditDraft, KeepsLinked, IInv
<1>2. /\ \A q \in Po \ {p} : po'[q] = po[q]
      /\ po'[p].received = po[p].received /\ po'[p].status = po[p].status /\ po'[p].quantity = n
      /\ po'[p].elsewhere = po[p].elsewhere
  BY <1>1 DEF IInv, TypeOK
<1>3. \A o \in Order, q \in Po : Outstanding(o, q)' = Outstanding(o, q) /\ Outstanding(o, q) \in Int /\ Outstanding(o, q) >= 0
  BY <1>1, Totals DEF Outstanding, IInv, LInv, LinksCovered
<1>4. LinkedOn(p)' = LinkedOn(p) /\ LinkedOn(p) \in Int
  BY <1>3, LinkedOnStep DEF IInv
<1>5. Brings(p)'
  <2>1. po[p].received = 0 /\ po[p].elsewhere \in Nat
    BY <1>1 DEF LInv, Brings, IInv, TypeOK
  <2>2. LinkedOn(p)' <= n /\ LinkedOn(p)' <= n - 0 + po[p].elsewhere
    BY <1>1, <1>4, <2>1
  <2> QED BY <1>1, <1>2, <2>1, <2>2 DEF Brings
<1> QED BY <1>1, <1>2, <1>3, <1>5, OnePo

LEMMA ProceedLinks ==
  ASSUME IInv, LInv, TypeOK', NEW p \in Po, Proceed(p) PROVE LInv'
<1>1. PICK next \in PoStatus : /\ po' = [po EXCEPT ![p].status = next]
                               /\ next \in {"pending_approval", "approved", "ordered"}
  BY DEF Proceed, StatusAfterSubmit
<1>2. PoFree(p) /\ UNCHANGED <<order, line, link, stock, away, tx, raced>>
  BY DEF Proceed
<1>3. /\ \A q \in Po \ {p} : po'[q] = po[q]
      /\ po'[p].received = po[p].received /\ po'[p].status = next /\ po'[p].quantity = po[p].quantity
      /\ po'[p].elsewhere = po[p].elsewhere
  BY <1>1 DEF IInv, TypeOK
<1>4. \A o \in Order, q \in Po : Outstanding(o, q)' = Outstanding(o, q) /\ Outstanding(o, q) \in Int /\ Outstanding(o, q) >= 0
  BY <1>2, Totals DEF Outstanding, IInv, LInv, LinksCovered
<1>5. LinkedOn(p)' = LinkedOn(p)
  BY <1>4, LinkedOnStep DEF IInv
<1>6. Brings(p)'
  BY <1>1, <1>2, <1>3, <1>4, <1>5 DEF LInv, Brings
<1> QED BY <1>2, <1>3, <1>4, <1>6, OnePo

LEMMA EndPoLinks ==
  ASSUME IInv, LInv, TypeOK', NEW p \in Po, EndPo(p) PROVE LInv'
<1>1. PICK next \in PoStatus : po' = [po EXCEPT ![p].status = next] /\ next \in {"cancelled", "closed"}
  BY DEF EndPo
<1>2. PoFree(p) /\ link' = ReleasedFor(p) /\ UNCHANGED <<order, line, stock, away, tx, raced>>
  BY DEF EndPo
<1>3. /\ \A q \in Po \ {p} : po'[q] = po[q]
      /\ po'[p].received = po[p].received /\ po'[p].status = next
  BY <1>1 DEF IInv, TypeOK
<1>4. \A o \in Order : Outstanding(o, p)' = 0
  BY <1>2 DEF ReleasedFor, Outstanding, IInv, TypeOK
<1>5. \A o \in Order : \A q \in Po \ {p} : Outstanding(o, q)' = Outstanding(o, q)
  BY <1>2 DEF ReleasedFor, Outstanding, IInv, TypeOK
<1>6. \A o \in Order : Outstanding(o, p)' <= Outstanding(o, p) /\ Outstanding(o, p)' >= 0
  BY <1>4, Totals DEF IInv, LInv, LinksCovered
<1>7. Brings(p)'
  BY <1>1, <1>3, <1>4 DEF Brings
<1> QED BY <1>2, <1>3, <1>5, <1>6, <1>7, OnePo

LEMMA BringOverLinks ==
  ASSUME IInv, LInv, TypeOK', NEW n \in 1..away, BringOver(n) PROVE LInv'
<1>1. UNCHANGED <<order, line, po, link, tx, raced>> /\ stock' + away' = stock + away
  BY DEF BringOver, IInv, TypeOK
<1>2. Apart' /\ \A v \in Worker : Purchase(tx[v])'
  BY <1>1 DEF LInv, Apart, Buys, LinksLine, Holds, Purchase, LinkedOn, Outstanding, OnOrder
<1> QED BY <1>1, <1>2, OnlyTxLinks

-----------------------------------------------------------------------------
(* The first steps of a use case.                                          *)

LEMMA AskLinkLinks ==
  ASSUME IInv, LInv, TypeOK', NEW w \in Worker, NEW p \in Po, NEW o \in Order, NEW n \in 1..MaxCopies[p],
         AskLink(w, p, o, n)
  PROVE  LInv'
<1> DEFINE t == [op |-> "link", at |-> "asked", o |-> o, p |-> p, n |-> n, linked |-> Linked(o),
                 seen |-> line[o], here |-> TRUE, takes |-> Nothing, left |-> 0]
<1>1. /\ tx' = [tx EXCEPT ![w] = t] /\ UNCHANGED <<order, line, po, link, stock, away, raced>>
      /\ PoFree(p) /\ PoTakes(po[p].status, po[p].quantity, po[p].received, LinkedOn(p), n)
  BY DEF AskLink
<1>2. n > 0 /\ Linked(o) \in Int /\ \A x \in Order : Nothing[x] = 0
  BY SpecialOrdersAssumption, Totals DEF Nothing, IInv
<1>3. /\ t.op = "link" /\ t.at = "asked" /\ t.p = p /\ t.n = n /\ t.linked = Linked(o)
      /\ \A x \in Order : t.takes[x] = 0
  BY <1>2
<1>4. \A v \in Worker : ~Buys(v, p)
  BY <1>1, NobodyBuys
<1> HIDE DEF t
<1>5. Purchase(t)
  BY <1>1, <1>2, <1>3 DEF Purchase
<1>6. \A v \in Worker \ {w} : ApartFrom(v, t)
  BY <1>3, <1>4 DEF ApartFrom
<1> QED BY <1>1, <1>5, <1>6, OneTxLinks

\* The line is held, so that its own figures stay as they are.  Those of an open order are what
\* was found: nothing of it was cancelled when the statement began, and nothing is now.
LEMMA LockLineLinks ==
  ASSUME IInv, LInv, TypeOK', NEW w \in Worker, LockLine(w) PROVE LInv'
<1> DEFINE t == [tx[w] EXCEPT !.at = "locked"]
<1>1. /\ UNCHANGED <<order, line, po, link, stock, away, raced>> /\ tx' = [tx EXCEPT ![w] = t]
      /\ tx[w].op = "link" /\ LineFree(tx[w].o)
      /\ Linkable(OnOrder(tx[w].o, [line[tx[w].o] EXCEPT !.cancelled = tx[w].seen.cancelled]), tx[w].linked, tx[w].n)
  BY DEF LockLine, Holds
<1>2. /\ Transaction(tx[w]) /\ Purchase(tx[w])
  BY DEF IInv, Transactions, LInv
<1>3. /\ t.op = "link" /\ t.at = "locked" /\ t.o = tx[w].o /\ t.p = tx[w].p /\ t.n = tx[w].n
      /\ t.linked = tx[w].linked /\ t.takes = tx[w].takes
  BY <1>1, <1>2 DEF Transaction, TxRecord
<1> HIDE DEF t
<1>4. t.o \in Order /\ t.p \in Po /\ t.n \in Nat /\ t.n > 0 /\ t.linked \in Int
  BY <1>1, <1>2, <1>3 DEF Transaction, TxRecord, Purchase
<1>5. OnOrder(t.o, line[t.o]) \in Nat
  BY <1>4, OnOrderFacts DEF IInv, TypeOK, Line
<1>6. order[t.o] \in OpenStatus => t.linked + t.n <= OnOrder(t.o, line[t.o])
  <2> HAVE order[t.o] \in OpenStatus
  <2>1. line[t.o].cancelled = 0 /\ tx[w].seen.cancelled = 0 /\ line[t.o] \in Line
    BY <1>1, <1>2, <1>4 DEF IInv, TypeOK, NothingCancelledWhileOpen, Transaction, Line
  <2>2. [line[t.o] EXCEPT !.cancelled = 0] = line[t.o]
    BY <2>1 DEF Line
  <2>3. Linkable(OnOrder(t.o, line[t.o]), t.linked, t.n)
    BY <1>1, <1>3, <2>1, <2>2
  <2>4. t.n <= Max({0, OnOrder(t.o, line[t.o]) - t.linked})
    BY <2>3 DEF Linkable
  <2>5. OnOrder(t.o, line[t.o]) - t.linked \in Int
    BY <1>4, <1>5
  <2>6. Max({0, OnOrder(t.o, line[t.o]) - t.linked}) =
          IF 0 >= OnOrder(t.o, line[t.o]) - t.linked THEN 0 ELSE OnOrder(t.o, line[t.o]) - t.linked
    BY <2>5, MaxOfTwo
  <2> QED BY <1>4, <1>5, <2>4, <2>5, <2>6
<1>7. Purchase(t)
  BY <1>1, <1>2, <1>3, <1>4, <1>6 DEF Purchase
<1>8. \A x \in Order : ~(t.takes[x] > 0)
  BY <1>1, <1>2, <1>3 DEF Transaction
<1>9. \A v \in Worker : ~(tx[v].takes[t.o] > 0)
  BY <1>1, <1>3 DEF LineFree
<1>10. \A v \in Worker \ {w} : ~Buys(v, t.p)
  BY <1>1, <1>3, <1>4 DEF LInv, Apart, Buys
<1>11. \A v \in Worker \ {w} : ApartFrom(v, t)
  BY <1>4, <1>8, <1>9, <1>10 DEF ApartFrom
<1> QED BY <1>1, <1>7, <1>11, OneTxLinks

LEMMA LockOrderLinks ==
  ASSUME IInv, LInv, TypeOK', NEW w \in Worker, NEW o \in Order, LockOrder(w, o) PROVE LInv'
<1> DEFINE t == [op |-> "sell", at |-> "locked", o |-> o, p |-> "none", n |-> 0, linked |-> 0,
                 seen |-> line[o], here |-> TRUE, takes |-> Nothing, left |-> 0]
<1>1. UNCHANGED <<order, line, po, link, stock, away, raced>> /\ tx' = [tx EXCEPT ![w] = t]
  BY DEF LockOrder
<1>2. t.op = "sell" /\ \A x \in Order : t.takes[x] = 0
  BY DEF Nothing
<1> HIDE DEF t
<1>3. Purchase(t)
  BY <1>2 DEF Purchase
<1>4. \A v \in Worker \ {w} : ApartFrom(v, t)
  BY <1>2 DEF ApartFrom
<1> QED BY <1>1, <1>3, <1>4, OneTxLinks

LEMMA RollbackLinks ==
  ASSUME IInv, LInv, TypeOK', NEW w \in Worker, Rollback(w) PROVE LInv'
<1>1. UNCHANGED <<order, line, po, link, stock, away, raced>> /\ tx' = [tx EXCEPT ![w] = Idle]
  BY DEF Rollback, End
<1>2. Idle.op = "none" /\ \A o \in Order : Idle.takes[o] = 0
  BY IdleIsOne
<1>3. Purchase(Idle)
  BY <1>2 DEF Purchase
<1>4. \A v \in Worker \ {w} : ApartFrom(v, Idle)
  BY <1>2 DEF ApartFrom
<1> QED BY <1>1, <1>3, <1>4, OneTxLinks

\* A line waits on each purchase order for what its link says, unless it was linked over a
\* stale figure: then it may have less on order.
LEMMA WaitsForLink ==
  ASSUME IInv, LInv, NEW o \in Order, NEW p \in Po
  PROVE  /\ WaitsFor(o, p) <= Outstanding(o, p)
         /\ o \notin raced => WaitsFor(o, p) = Outstanding(o, p)
<1> DEFINE f == [q \in Po |-> Outstanding(o, q)]
           least == Min({Outstanding(o, p), OnOrder(o, line[o])})
<1>1. Outstanding(o, p) \in Nat /\ OnOrder(o, line[o]) \in Nat /\ Linked(o) \in Int
  BY Totals, OnOrderFacts DEF IInv, TypeOK, Line, LInv, LinksCovered
<1>2. Outstanding(o, p) <= Linked(o)
  <2>1. \A q \in Po : f[q] \in Nat
    BY Totals DEF IInv, LInv, LinksCovered
  <2>2. f[p] = Outstanding(o, p) /\ Linked(o) = SumFunctionOnSet(f, Po)
    BY SumsUnfold
  <2> HIDE DEF f
  <2>3. f[p] <= SumFunctionOnSet(f, Po)
    BY <2>1, SumMember, SpecialOrdersAssumption
  <2> QED BY <2>2, <2>3
<1>3. least = IF Outstanding(o, p) <= OnOrder(o, line[o]) THEN Outstanding(o, p) ELSE OnOrder(o, line[o])
  BY <1>1, MinOfTwo
<1>4. WaitsFor(o, p) = IF order[o] \in OpenStatus THEN Max({0, least}) ELSE 0
  BY DEF WaitsFor
<1> HIDE DEF least
<1>5. least \in Nat /\ Max({0, least}) = IF 0 >= least THEN 0 ELSE least
  BY <1>1, <1>3, MaxOfTwo
<1>6. o \notin raced => Linked(o) <= (IF order[o] \in OpenStatus THEN OnOrder(o, line[o]) ELSE 0)
  BY DEF LInv, LinksWithinOnOrder
<1> QED BY <1>1, <1>2, <1>3, <1>4, <1>5, <1>6

LEMMA LockReceiveLinks ==
  ASSUME IInv, LInv, TypeOK', NEW w \in Worker, NEW p \in Po, NEW here \in BOOLEAN, NEW n \in 1..MaxCopies[p],
         LockReceive(w, p, n, here)
  PROVE  LInv'
<1> DEFINE waits == [o \in Order |-> WaitsFor(o, p)]
<1>1. /\ PoFree(p) /\ UNCHANGED <<order, line, po, link, stock, away, raced>>
      /\ \A o \in Order : waits[o] > 0 => LineFree(o)
  BY DEF LockReceive
<1>2. PICK a \in IF here THEN Arrival(n, waits) ELSE {[takes |-> Nothing, left |-> 0]} :
        tx' = [tx EXCEPT ![w] = [op |-> "receive", at |-> "locked", o |-> "none", p |-> p, n |-> n, linked |-> 0,
                                 seen |-> NoCopies, here |-> here, takes |-> a.takes, left |-> a.left]]
  BY DEF LockReceive
<1>3. \A o \in Order : /\ waits[o] = WaitsFor(o, p) /\ waits[o] \in Nat
                       /\ waits[o] <= Outstanding(o, p)
                       /\ o \notin raced => waits[o] = Outstanding(o, p)
  BY WaitsForFacts, WaitsForLink DEF IInv
<1>4. \A o \in Order : Outstanding(o, p) \in Int
  BY Totals DEF IInv
<1>5. n \in Nat
  BY SpecialOrdersAssumption
<1> HIDE DEF waits
<1>6. a.takes \in [Order -> Nat] /\ a.left \in Nat /\ \A o \in Order : a.takes[o] <= waits[o]
  BY <1>2, <1>3, <1>5 DEF Arrival, Nothing
<1>7. a.left > 0 => \A o \in Order : a.takes[o] >= waits[o]
  <2>1. CASE here
    <3>1. \A o \in Order : a.takes[o] < waits[o] => a.left = 0
      BY <1>2, <2>1 DEF Arrival
    <3> QED BY <1>3, <1>6, <3>1
  <2>2. CASE ~here
    BY <1>2, <2>2
  <2> QED BY <2>1, <2>2
<1>8. IF here THEN SumFunction(a.takes) = n - a.left ELSE a.left = 0 /\ \A o \in Order : a.takes[o] = 0
  BY <1>2 DEF Arrival, Nothing
<1> DEFINE t == [op |-> "receive", at |-> "locked", o |-> "none", p |-> p, n |-> n, linked |-> 0,
                 seen |-> NoCopies, here |-> here, takes |-> a.takes, left |-> a.left]
<1>9. tx' = [tx EXCEPT ![w] = t]
  BY <1>2
<1>10. t.op = "receive" /\ t.p = p /\ t.takes = a.takes /\ t.left = a.left /\ t.here = here /\ t.n = n
  OBVIOUS
<1> HIDE DEF t
<1>11. Purchase(t)
  <2>1. \A o \in Order : t.takes[o] <= Outstanding(o, p)
    BY <1>3, <1>4, <1>6, <1>10
  <2>2. t.left > 0 => \A o \in Order \ raced : t.takes[o] >= Outstanding(o, p)
    BY <1>3, <1>4, <1>6, <1>7, <1>10
  <2> QED BY <1>8, <1>10, <2>1, <2>2 DEF Purchase
<1>12. \A v \in Worker : ~Buys(v, p)
  BY <1>1, NobodyBuys
<1>13. \A v \in Worker, o \in Order : ~(t.takes[o] > 0 /\ LinksLine(v, o))
  <2>1. \A o \in Order : t.takes[o] > 0 => LineFree(o)
    BY <1>1, <1>3, <1>6, <1>10
  <2> QED BY <2>1 DEF LineFree, LinksLine
<1>14. \A v \in Worker \ {w} : ApartFrom(v, t)
  BY <1>10, <1>12, <1>13 DEF ApartFrom
<1> QED BY <1>1, <1>9, <1>11, <1>14, OneTxLinks

-----------------------------------------------------------------------------
(* Commits.                                                                *)

LEMMA CopiesOfOneLine ==
  ASSUME TypeOK, TypeOK', EveryCopyAccounted, NEW o \in Order, away' = away, po' = po,
         \A x \in Order \ {o} : line'[x] = line[x]
  PROVE  stock' + line'[o].reserved + line'[o].delivered = stock + line[o].reserved + line[o].delivered
           => EveryCopyAccounted'
<1>1. Arrived' = Arrived
  BY CopiesStep
<1>2. Held' = Held - (line[o].reserved + line[o].delivered) + (line'[o].reserved + line'[o].delivered)
  BY CopiesStep
<1>3. /\ stock \in Nat /\ stock' \in Nat /\ away \in Nat
      /\ line[o].reserved \in Nat /\ line[o].delivered \in Nat
      /\ line'[o].reserved \in Nat /\ line'[o].delivered \in Nat
  BY DEF TypeOK
<1>4. Held \in Int /\ Arrived \in Int /\ Held' \in Int /\ InitialStock \in Nat
  BY CopiesStep, SpecialOrdersAssumption
<1>5. stock + away + Held = InitialStock + Arrived
  BY CopiesStep
<1> DEFINE x == line[o].reserved + line[o].delivered
           y == line'[o].reserved + line'[o].delivered
<1>6. /\ x \in Int /\ y \in Int /\ Held' = Held - x + y
      /\ stock' + line'[o].reserved + line'[o].delivered = stock' + y
      /\ stock + line[o].reserved + line[o].delivered = stock + x
  BY <1>2, <1>3
<1> HIDE DEF x, y
<1>7. stock' + y = stock + x => stock' + away + Held' = InitialStock + Arrived
  <2>1. PICK t \in Int, t2 \in Int, a \in Int, h \in Int, h2 \in Int, total \in Int, c \in Int, d \in Int :
          t = stock /\ t2 = stock' /\ a = away /\ h = Held /\ h2 = Held' /\ total = InitialStock + Arrived /\ c = x /\ d = y
    BY <1>3, <1>4, <1>6
  <2>2. t + a + h = total /\ h2 = h - c + d
    BY <1>5, <1>6, <2>1
  <2>3. t2 + d = t + c => t2 + a + h2 = total
    BY <2>2
  <2> QED BY <2>1, <2>3
<1> QED BY <1>1, <1>6, <1>7, CopiesStep

\* A seller's commit changes one order, its line and its links, which no receipt has found, and
\* makes nothing wait for more than before.
LEMMA OneSale ==
  ASSUME IInv, LInv, TypeOK', UNCHANGED <<po, away, raced>>,
         NEW w \in Worker, tx' = [tx EXCEPT ![w] = Idle], NEW o \in Order,
         \A x \in Order \ {o} : order'[x] = order[x] /\ line'[x] = line[x],
         \A x \in Order \ {o} : \A p \in Po : Outstanding(x, p)' = Outstanding(x, p),
         \A p \in Po : Outstanding(o, p)' <= Outstanding(o, p) /\ Outstanding(o, p)' >= 0,
         order[o] \in OpenStatus, line'[o] = line[o] \/ LineFree(o),
         \A v \in Worker : tx[v].takes[o] = 0,
         o \notin raced => Linked(o)' <= (IF order'[o] \in OpenStatus THEN OnOrder(o, line'[o]) ELSE 0),
         stock' + line'[o].reserved + line'[o].delivered = stock + line[o].reserved + line[o].delivered
  PROVE  LInv'
<1>1. \A x \in Order, p \in Po : /\ Outstanding(x, p) \in Int /\ Outstanding(x, p)' \in Int
                                 /\ Outstanding(x, p)' <= Outstanding(x, p) /\ Outstanding(x, p)' >= 0
  <2>1. \A x \in Order, p \in Po : Outstanding(x, p) \in Int /\ Outstanding(x, p) >= 0
    BY Totals DEF IInv, LInv, LinksCovered
  <2>2. \A x \in Order, p \in Po : Outstanding(x, p)' \in Int
    BY NextOutstanding
  <2> QED BY <2>1, <2>2
<1>2. LinksCovered'
  BY <1>1 DEF LinksCovered
<1>3. tx' = [v \in Worker |-> IF v = w THEN Idle ELSE tx[v]]
  BY DEF IInv, Transactions
<1>4. \A v \in Worker \ {w} : Undisturbed(v)
  <2> SUFFICES ASSUME NEW v \in Worker \ {w} PROVE Undisturbed(v)
    OBVIOUS
  <2>1. \A x \in Order : LinksLine(v, x) =>
          line'[x] = line[x] /\ (order'[x] \in OpenStatus => order[x] \in OpenStatus)
    BY DEF LineFree, LinksLine
  <2>2. \A x \in Order : tx[v].takes[x] > 0 => x # o
    OBVIOUS
  <2> QED BY <1>1, <1>3, <2>1, <2>2 DEF Undisturbed
<1>5. (\A v \in Worker : Purchase(tx[v])') /\ Apart'
  BY <1>2, <1>3, <1>4, OthersKeep
<1>6. LinksWithinOnOrder'
  <2>1. \A x \in Order \ {o} : Linked(x)' = Linked(x) /\ OnOrder(x, line'[x]) = OnOrder(x, line[x])
    BY LinkedStep DEF IInv
  <2>2. \A x \in Order : OnOrder(x, line[x])' = OnOrder(x, line'[x])
    BY DEF OnOrder
  <2> QED BY <2>1, <2>2 DEF LInv, LinksWithinOnOrder
<1>7. ASSUME NEW p \in Po PROVE Brings(p)'
  <2>1. LinkedOn(p)' <= LinkedOn(p) /\ LinkedOn(p) \in Int /\ LinkedOn(p)' \in Int
    BY <1>1, LinkedOnStep DEF IInv
  <2>2. \A x \in Order : Outstanding(x, p) = 0 => Outstanding(x, p)' = 0
    BY <1>1
  <2>3. po[p].quantity \in Nat /\ po[p].received \in Nat /\ po[p].elsewhere \in Nat
    BY DEF IInv, TypeOK
  <2>4. Brings(p)
    BY DEF LInv
  <2>5. po'[p] = po[p]
    OBVIOUS
  <2> QED BY <2>1, <2>2, <2>3, <2>4, <2>5 DEF Brings
<1>8. EveryCopyAccounted'
  BY CopiesOfOneLine DEF IInv, LInv
<1> QED BY <1>2, <1>5, <1>6, <1>7, <1>8 DEF LInv

LEMMA ReleasedOfLinks ==
  ASSUME IInv, NEW o \in Order, link' = ReleasedOf(o)
  PROVE  /\ \A p \in Po : Outstanding(o, p)' = 0
         /\ \A x \in Order \ {o} : \A p \in Po : Outstanding(x, p)' = Outstanding(x, p)
  BY DEF ReleasedOf, Outstanding, IInv, TypeOK

LEMMA CommitCancelLinks ==
  ASSUME IInv, LInv, TypeOK', NEW w \in Worker, NEW o \in Order, tx[w].o = o, CommitCancel(w) PROVE LInv'
<1> DEFINE n == tx[w].seen.reserved
<1>1. tx[w].seen = line[o] /\ line[o] \in Line /\ order[o] \in OpenStatus
  BY SellerFacts DEF CommitCancel
<1>2. /\ UNCHANGED <<po, away, raced>> /\ tx' = [tx EXCEPT ![w] = Idle]
      /\ order' = [order EXCEPT ![o] = "CANCELLED"]
      /\ line' = IF n > 0 THEN [line EXCEPT ![o].reserved = 0] ELSE line
      /\ stock' = stock + n /\ link' = ReleasedOf(o) /\ LinksFree(o) /\ (n > 0 => LineFree(o))
  BY DEF CommitCancel, End, GoesBack
<1>3. n = line[o].reserved /\ n \in Nat
  BY <1>1 DEF Line
<1>4. /\ line'[o].reserved = 0 /\ line'[o].delivered = line[o].delivered /\ order'[o] \notin OpenStatus
      /\ \A x \in Order \ {o} : order'[x] = order[x] /\ line'[x] = line[x]
  BY <1>1, <1>2, <1>3 DEF IInv, TypeOK, OpenStatus
<1>5. \A v \in Worker : tx[v].takes[o] = 0
  BY <1>2, FreeFacts
<1>6. /\ \A p \in Po : Outstanding(o, p)' = 0
      /\ \A x \in Order \ {o} : \A p \in Po : Outstanding(x, p)' = Outstanding(x, p)
  BY <1>2, ReleasedOfLinks
<1>7. \A p \in Po : Outstanding(o, p)' <= Outstanding(o, p) /\ Outstanding(o, p)' >= 0
  BY <1>6, Totals DEF IInv, LInv, LinksCovered
<1>8. Linked(o)' = 0
  BY <1>6, LinkedStep DEF IInv
<1>9. stock' + line'[o].reserved + line'[o].delivered = stock + line[o].reserved + line[o].delivered
  BY <1>1, <1>2, <1>3, <1>4 DEF IInv, TypeOK, Line
<1>10. line'[o] = line[o] \/ LineFree(o)
  BY <1>2
<1> HIDE DEF n
<1>11. o \notin raced => Linked(o)' <= (IF order'[o] \in OpenStatus THEN OnOrder(o, line'[o]) ELSE 0)
  BY <1>4, <1>8
<1>12. order[o] \in OpenStatus
  BY <1>1
<1> QED BY <1>2, <1>4, <1>5, <1>6, <1>7, <1>9, <1>10, <1>11, <1>12, OneSale

LEMMA CommitCancelRestLinks ==
  ASSUME IInv, LInv, TypeOK', NEW w \in Worker, NEW o \in Order, tx[w].o = o, CommitCancelRest(w) PROVE LInv'
<1> DEFINE s == tx[w].seen
           rest == s.reserved + OnOrder(o, s)
<1>1. s = line[o] /\ line[o] \in Line /\ order[o] \in OpenStatus
  BY SellerFacts DEF CommitCancelRest
<1>2. /\ UNCHANGED <<po, away, raced>> /\ tx' = [tx EXCEPT ![w] = Idle]
      /\ order' = [order EXCEPT ![o] = "COMPLETED"]
      /\ line' = [line EXCEPT ![o].reserved = 0, ![o].cancelled = rest]
      /\ stock' = stock + s.reserved /\ link' = ReleasedOf(o) /\ LinksFree(o) /\ LineFree(o)
  BY DEF CommitCancelRest, End, GoesBack
<1> HIDE DEF rest
<1>3. /\ line'[o].reserved = 0 /\ line'[o].delivered = line[o].delivered
      /\ \A x \in Order \ {o} : line'[x] = line[x]
  <2>1. line \in [Order -> Line]
    BY DEF IInv, TypeOK, Line
  <2>2. line' = [[line EXCEPT ![o].reserved = 0] EXCEPT ![o].cancelled = rest]
    BY <1>2
  <2> QED BY <2>1, <2>2 DEF Line
<1>4. order'[o] \notin OpenStatus /\ \A x \in Order \ {o} : order'[x] = order[x]
  BY <1>2 DEF IInv, TypeOK, OpenStatus
<1>5. \A v \in Worker : tx[v].takes[o] = 0
  BY <1>2, FreeFacts
<1>6. /\ \A p \in Po : Outstanding(o, p)' = 0
      /\ \A x \in Order \ {o} : \A p \in Po : Outstanding(x, p)' = Outstanding(x, p)
  BY <1>2, ReleasedOfLinks
<1>7. \A p \in Po : Outstanding(o, p)' <= Outstanding(o, p) /\ Outstanding(o, p)' >= 0
  BY <1>6, Totals DEF IInv, LInv, LinksCovered
<1>8. Linked(o)' = 0
  BY <1>6, LinkedStep DEF IInv
<1>9. stock' + line'[o].reserved + line'[o].delivered = stock + line[o].reserved + line[o].delivered
  BY <1>1, <1>2, <1>3 DEF IInv, TypeOK, Line
<1> HIDE DEF s
<1>10. o \notin raced => Linked(o)' <= (IF order'[o] \in OpenStatus THEN OnOrder(o, line'[o]) ELSE 0)
  BY <1>4, <1>8
<1>11. order[o] \in OpenStatus
  BY <1>1
<1> QED BY <1>2, <1>3, <1>4, <1>5, <1>6, <1>7, <1>9, <1>10, <1>11, OneSale

LEMMA CommitDeliverLinks ==
  ASSUME IInv, LInv, TypeOK', NEW w \in Worker, NEW o \in Order, tx[w].o = o,
         NEW n \in 1..tx[w].seen.reserved, CommitDeliver(w, n)
  PROVE  LInv'
<1> DEFINE status == IF tx[w].seen.reserved - n + OnOrder(o, tx[w].seen) > 0 THEN "PART_DELIVERED" ELSE "COMPLETED"
<1>1. /\ tx[w].seen = line[o] /\ line[o] \in Line /\ OnOrder(o, line[o]) \in Nat
      /\ order[o] \in OpenStatus
  BY SellerFacts DEF CommitDeliver
<1>2. /\ UNCHANGED <<po, link, stock, away, raced>> /\ tx' = [tx EXCEPT ![w] = Idle]
      /\ order' = [order EXCEPT ![o] = status]
      /\ line' = [line EXCEPT ![o].reserved = @ - n, ![o].delivered = @ + n] /\ LineFree(o)
  BY DEF CommitDeliver, End
<1>3. n \in Nat /\ line[o].reserved - n \in Nat
  BY <1>1 DEF Line
<1>4. /\ \A x \in Order \ {o} : line'[x] = line[x]
      /\ line'[o].reserved = line[o].reserved - n /\ line'[o].delivered = line[o].delivered + n
      /\ line'[o].cancelled = line[o].cancelled
  <2>1. line \in [Order -> Line]
    BY DEF IInv, TypeOK, Line
  <2>2. line' = [[line EXCEPT ![o].reserved = @ - n] EXCEPT ![o].delivered = line[o].delivered + n]
    BY <1>2
  <2> QED BY <2>1, <2>2 DEF Line
<1>5. order'[o] = status /\ \A x \in Order \ {o} : order'[x] = order[x]
  <2> HIDE DEF status
  <2> QED BY <1>2 DEF IInv, TypeOK
<1>6. \A v \in Worker : tx[v].takes[o] = 0
  BY <1>2, FreeFacts
<1>7. \A x \in Order, p \in Po : Outstanding(x, p)' = Outstanding(x, p)
  BY <1>2 DEF Outstanding
<1>8. \A p \in Po : Outstanding(o, p)' <= Outstanding(o, p) /\ Outstanding(o, p)' >= 0
  BY <1>7, Totals DEF IInv, LInv, LinksCovered
<1>9. OnOrder(o, line'[o]) = OnOrder(o, line[o])
  <2>1. Ordered[o] - line'[o].reserved - line'[o].delivered - line'[o].cancelled
          = Ordered[o] - line[o].reserved - line[o].delivered - line[o].cancelled
    BY <1>1, <1>3, <1>4, SpecialOrdersAssumption DEF Line
  <2> QED BY <2>1 DEF OnOrder
<1>10. o \notin raced => Linked(o)' <= (IF order'[o] \in OpenStatus THEN OnOrder(o, line'[o]) ELSE 0)
  <2>1. Linked(o)' = Linked(o) /\ Linked(o) \in Int
    BY <1>7, LinkedStep DEF IInv
  <2>2. o \notin raced => Linked(o) <= OnOrder(o, line[o])
    BY <1>1 DEF LInv, LinksWithinOnOrder
  <2>3. IF line[o].reserved - n + OnOrder(o, line[o]) > 0
        THEN order'[o] = "PART_DELIVERED" ELSE order'[o] = "COMPLETED"
    BY <1>1, <1>5
  <2>4. OnOrder(o, line[o]) > 0 => order'[o] = "PART_DELIVERED"
    BY <1>1, <1>3, <2>3
  <2> QED BY <1>1, <1>9, <2>1, <2>2, <2>3, <2>4 DEF OpenStatus
<1>11. stock' + line'[o].reserved + line'[o].delivered = stock + line[o].reserved + line[o].delivered
  BY <1>1, <1>2, <1>3, <1>4 DEF IInv, TypeOK, Line
<1> HIDE DEF status
<1>12. order[o] \in OpenStatus
  BY <1>1
<1> QED BY <1>2, <1>4, <1>5, <1>6, <1>7, <1>8, <1>10, <1>11, <1>12, OneSale

LEMMA CommitReserveLinks ==
  ASSUME IInv, LInv, TypeOK', NEW w \in Worker, NEW o \in Order, tx[w].o = o, CommitReserve(w) PROVE LInv'
<1> DEFINE s == tx[w].seen
           n == Min({OnOrder(o, s), stock})
<1>1. /\ s = line[o] /\ line[o] \in Line /\ OnOrder(o, line[o]) \in Nat /\ order[o] \in OpenStatus
      /\ OnOrder(o, line[o]) = Ordered[o] - line[o].reserved - line[o].delivered - line[o].cancelled
  BY SellerFacts DEF CommitReserve
<1>2. /\ UNCHANGED <<order, po, away, raced>> /\ tx' = [tx EXCEPT ![w] = Idle]
      /\ line' = [line EXCEPT ![o].reserved = s.reserved + n]
      /\ stock' = stock - n /\ LinksFree(o) /\ LineFree(o) /\ n > 0 /\ link' \in Consumed(o, n)
  BY DEF CommitReserve, End
<1>3. n \in Nat /\ n <= OnOrder(o, line[o])
  <2>1. stock \in Nat /\ OnOrder(o, line[o]) \in Nat
    BY <1>1 DEF IInv, TypeOK
  <2>2. n = Min({OnOrder(o, line[o]), stock})
    BY <1>1
  <2>3. Min({OnOrder(o, line[o]), stock}) = IF OnOrder(o, line[o]) <= stock THEN OnOrder(o, line[o]) ELSE stock
    BY <2>1, MinOfTwo
  <2> HIDE DEF n
  <2> QED BY <2>1, <2>2, <2>3
<1> HIDE DEF n
<1>4. PICK f \in [Po -> 0..n] :
        /\ SumFunction(f) = Min({n, Linked(o)}) /\ \A p \in Po : f[p] <= Outstanding(o, p)
        /\ link' = [k \in DOMAIN link |-> IF k[1] = o THEN [link[k] EXCEPT !.reserved = @ + f[k[2]]] ELSE link[k]]
  BY <1>2 DEF Consumed
<1>5. \A p \in Po : f[p] \in Nat /\ f[p] \in Int
  BY <1>3, <1>4
<1>6. /\ \A p \in Po : Outstanding(o, p) = Outstanding(o, p)' + f[p]
      /\ \A x \in Order \ {o} : \A p \in Po : Outstanding(x, p)' = Outstanding(x, p)
  <2>1. link \in [Order \X Po -> Link]
    BY DEF IInv, TypeOK, Link
  <2>2. \A x \in Order \ {o} : \A p \in Po : link'[<<x, p>>] = link[<<x, p>>]
    BY <1>4, <2>1
  <2>3. ASSUME NEW p \in Po PROVE Outstanding(o, p) = Outstanding(o, p)' + f[p]
    <3>1. link'[<<o, p>>] = [link[<<o, p>>] EXCEPT !.reserved = @ + f[p]] /\ link[<<o, p>>] \in Link
      BY <1>4, <2>1
    <3>2. /\ link'[<<o, p>>].status = link[<<o, p>>].status
          /\ link'[<<o, p>>].quantity = link[<<o, p>>].quantity
          /\ link'[<<o, p>>].reserved = link[<<o, p>>].reserved + f[p]
      BY <3>1 DEF Link
    <3>3. f[p] <= Outstanding(o, p) /\ f[p] \in Nat
      BY <1>4, <1>5
    <3> QED BY <3>1, <3>2, <3>3 DEF Outstanding, Link
  <2> QED BY <2>2, <2>3 DEF Outstanding
<1>7. \A p \in Po : Outstanding(o, p) \in Int /\ Outstanding(o, p)' \in Int
  BY Totals, NextOutstanding DEF IInv
<1>8. \A p \in Po : Outstanding(o, p)' <= Outstanding(o, p) /\ Outstanding(o, p)' >= 0
  BY <1>4, <1>5, <1>6, <1>7
<1>9. Linked(o) = Linked(o)' + SumFunction(f) /\ Linked(o) \in Int /\ Linked(o)' \in Int
  <2> DEFINE g == [p \in Po |-> Outstanding(o, p)']
             h == [p \in Po |-> Outstanding(o, p)]
  <2>1. \A p \in Po : g[p] \in Int /\ f[p] \in Int /\ h[p] = g[p] + f[p]
    BY <1>5, <1>6, <1>7
  <2>2. Linked(o)' = SumFunctionOnSet(g, Po) /\ Linked(o) = SumFunctionOnSet(h, Po)
    BY SumsUnfold DEF Linked, SumFunction
  <2>3. SumFunction(f) = SumFunctionOnSet(f, Po)
    BY DEF SumFunction
  <2> HIDE DEF g, h
  <2>4. SumFunctionOnSet(h, Po) = SumFunctionOnSet(g, Po) + SumFunctionOnSet(f, Po)
    <3>1. IsFiniteSet(Po)
      BY SpecialOrdersAssumption
    <3> QED BY <2>1, <3>1, SumPlus
  <2> QED BY <2>2, <2>3, <2>4, LinkedStep DEF IInv
<1>10. /\ line'[o].reserved = line[o].reserved + n /\ line'[o].delivered = line[o].delivered
       /\ line'[o].cancelled = line[o].cancelled
       /\ \A x \in Order \ {o} : line'[x] = line[x]
  <2>1. line \in [Order -> Line]
    BY DEF IInv, TypeOK, Line
  <2> QED BY <1>1, <1>2, <2>1 DEF Line
<1>11. OnOrder(o, line'[o]) = OnOrder(o, line[o]) - n
  <2>1. line'[o] \in Line
    BY DEF TypeOK, Line
  <2>2. line'[o].reserved + line'[o].delivered + line'[o].cancelled <= Ordered[o]
    BY <1>1, <1>3, <1>10, SpecialOrdersAssumption DEF Line
  <2>3. OnOrder(o, line'[o]) = Ordered[o] - line'[o].reserved - line'[o].delivered - line'[o].cancelled
    BY <2>1, <2>2, OnOrderFacts
  <2> QED BY <1>1, <1>3, <1>10, <2>3, SpecialOrdersAssumption DEF Line
<1>12. o \notin raced => Linked(o)' <= (IF order'[o] \in OpenStatus THEN OnOrder(o, line'[o]) ELSE 0)
  <2>1. o \notin raced => Linked(o) <= OnOrder(o, line[o])
    BY <1>1 DEF LInv, LinksWithinOnOrder
  <2>2. SumFunction(f) = IF n <= Linked(o) THEN n ELSE Linked(o)
    <3>1. n \in Int /\ Linked(o) \in Int /\ SumFunction(f) = Min({n, Linked(o)})
      BY <1>3, <1>4, <1>9
    <3> QED BY <3>1, MinOfTwo
  <2>3. order'[o] \in OpenStatus
    BY <1>1, <1>2
  <2> QED BY <1>1, <1>3, <1>9, <1>11, <2>1, <2>2, <2>3
<1>13. stock' + line'[o].reserved + line'[o].delivered = stock + line[o].reserved + line[o].delivered
  BY <1>1, <1>2, <1>3, <1>10 DEF IInv, TypeOK, Line
<1>14. \A v \in Worker : tx[v].takes[o] = 0
  BY <1>2, FreeFacts
<1> HIDE DEF s
<1>15. order[o] \in OpenStatus
  BY <1>1
<1> QED BY <1>2, <1>6, <1>8, <1>10, <1>12, <1>13, <1>14, <1>15, OneSale

LEMMA CommitLinkLinks ==
  ASSUME IInv, LInv, TypeOK', NEW w \in Worker, NEW o \in Order, NEW p \in Po, NEW n \in Nat,
         tx[w].o = o, tx[w].p = p, tx[w].n = n, CommitLink(w)
  PROVE  LInv'
<1>1. /\ UNCHANGED <<order, line, stock, away>> /\ tx' = [tx EXCEPT ![w] = Idle]
      /\ link' = [link EXCEPT ![<<o, p>>] = WithLink(@, n)]
      /\ po' = IF po[p].status = "draft" THEN [po EXCEPT ![p].quantity = @ + n] ELSE po
      /\ raced' = IF order[o] \notin OpenStatus \/ Linked(o) > tx[w].linked THEN raced \cup {o} ELSE raced
  BY DEF CommitLink, End
<1>2. /\ n > 0 /\ tx[w].linked \in Int
      /\ PoTakes(po[p].status, po[p].quantity, po[p].received, LinkedOn(p), n)
      /\ order[o] \in OpenStatus => tx[w].linked + n <= OnOrder(o, line[o])
      /\ Buys(w, p)
  BY DEF CommitLink, Holds, LInv, Purchase, Buys
<1>3. /\ Outstanding(o, p)' = Outstanding(o, p) + n
      /\ \A x \in Order, q \in Po : <<x, q>> # <<o, p>> => Outstanding(x, q)' = Outstanding(x, q)
  <2>1. link \in [Order \X Po -> Link] /\ link[<<o, p>>] \in Link
    BY DEF IInv, TypeOK, Link
  <2>2. link'[<<o, p>>] = WithLink(link[<<o, p>>], n)
    BY <1>1, <2>1
  <2>3. \A x \in Order, q \in Po : <<x, q>> # <<o, p>> => link'[<<x, q>>] = link[<<x, q>>]
    BY <1>1, <2>1
  <2>4. Outstanding(o, p)' = Outstanding(o, p) + n
    BY <2>1, <2>2 DEF Outstanding, WithLink, Link
  <2> QED BY <2>3, <2>4 DEF Outstanding
<1>4. /\ \A x \in Order \ {o} : \A q \in Po : Outstanding(x, q)' = Outstanding(x, q)
      /\ \A q \in Po \ {p} : \A x \in Order : Outstanding(x, q)' = Outstanding(x, q)
  BY <1>3
<1>5. \A x \in Order, q \in Po : Outstanding(x, q) \in Int /\ Outstanding(x, q) >= 0
  BY Totals DEF IInv, LInv, LinksCovered
<1>6. LinksCovered'
  BY <1>3, <1>5 DEF LinksCovered
<1>7. tx' = [v \in Worker |-> IF v = w THEN Idle ELSE tx[v]]
  BY <1>1 DEF IInv, Transactions
<1>8. \A q \in Po \ {p} : po'[q] = po[q]
  BY <1>1 DEF IInv, TypeOK
<1>9. ASSUME NEW v \in Worker \ {w} PROVE Undisturbed(v)
  <2>1. \A q \in Po : Buys(v, q) => q # p
    BY <1>2 DEF LInv, Apart
  <2> QED BY <1>1, <1>4, <1>5, <1>7, <1>8, <2>1 DEF Undisturbed
<1>10. (\A v \in Worker : Purchase(tx[v])') /\ Apart'
  BY <1>1, <1>6, <1>7, <1>9, OthersKeep
<1>11. LinksWithinOnOrder'
  <2>1. ASSUME NEW x \in Order \ {o}, x \notin raced'
        PROVE  Linked(x)' <= (IF order[x] \in OpenStatus THEN OnOrder(x, line[x]) ELSE 0)
    <3>1. Linked(x)' = Linked(x) /\ x \notin raced
      BY <1>1, <1>4, <2>1, LinkedStep DEF IInv
    <3> QED BY <3>1 DEF LInv, LinksWithinOnOrder
  <2>2. ASSUME o \notin raced'
        PROVE  Linked(o)' <= (IF order[o] \in OpenStatus THEN OnOrder(o, line[o]) ELSE 0)
    <3>1. order[o] \in OpenStatus /\ ~(Linked(o) > tx[w].linked)
      BY <1>1, <2>2
    <3>2. Linked(o)' = Linked(o) - Outstanding(o, p) + Outstanding(o, p)' /\ Linked(o) \in Int
      BY <1>4, LinkedStep DEF IInv
    <3>3. line[o] \in Line
      BY DEF IInv, TypeOK, Line
    <3>4. OnOrder(o, line[o]) \in Int
      BY <3>3, OnOrderFacts
    <3>5. Linked(o)' = Linked(o) + n
      BY <1>3, <1>5, <3>2
    <3>6. Linked(o) + n <= OnOrder(o, line[o])
      BY <1>2, <3>1, <3>2, <3>4
    <3> QED BY <3>1, <3>5, <3>6
  <2>3. \A x \in Order : OnOrder(x, line[x])' = OnOrder(x, line[x])
    BY <1>1 DEF OnOrder
  <2> QED BY <1>1, <2>1, <2>2, <2>3 DEF LinksWithinOnOrder
<1>12. ASSUME NEW q \in Po \ {p} PROVE Brings(q)'
  <2>1. LinkedOn(q)' = LinkedOn(q) /\ Brings(q) /\ raced \subseteq raced'
    BY <1>1, <1>4, LinkedOnStep DEF LInv, IInv
  <2> QED BY <1>4, <1>8, <2>1 DEF Brings
<1>13. Brings(p)'
  <2>1. LinkedOn(p)' = LinkedOn(p) + n /\ LinkedOn(p) \in Int
    BY <1>3, <1>4, <1>5, LinkedOnStep DEF IInv
  <2>2. po[p].quantity \in Nat /\ po[p].received \in Nat /\ po[p].elsewhere \in Nat
    BY DEF IInv, TypeOK
  <2>3. Brings(p)
    BY DEF LInv
  <2>4. CASE po[p].status = "draft"
    <3>1. /\ po'[p].quantity = po[p].quantity + n /\ po'[p].received = po[p].received
          /\ po'[p].elsewhere = po[p].elsewhere /\ po'[p].status = "draft"
      BY <1>1, <2>4 DEF IInv, TypeOK
    <3>2. po[p].received = 0 /\ LinkedOn(p) <= po[p].quantity
      BY <2>3, <2>4 DEF Brings
    <3>3. LinkedOn(p)' <= po'[p].quantity /\ LinkedOn(p)' <= po'[p].quantity - po'[p].received + po'[p].elsewhere
      BY <2>1, <2>2, <3>1, <3>2
    <3> QED BY <3>1, <3>2, <3>3 DEF Brings
  <2>5. CASE po[p].status # "draft"
    <3>1. po'[p] = po[p]
      BY <1>1, <2>5
    <3>2. /\ po[p].status \notin {"cancelled", "closed"}
          /\ n <= po[p].quantity - po[p].received - LinkedOn(p)
      BY <1>2, <2>5 DEF PoTakes
    <3>3. LinkedOn(p)' <= po[p].quantity - po[p].received + po[p].elsewhere
      BY <2>1, <2>2, <3>2
    <3> QED BY <2>5, <3>1, <3>2, <3>3 DEF Brings
  <2> QED BY <2>4, <2>5
<1>14. EveryCopyAccounted'
  <2>1. \A q \in Po : po'[q].received = po[q].received
    BY <1>1, <1>8 DEF IInv, TypeOK
  <2>2. Arrived' = Arrived
    BY <2>1, CopiesStep DEF IInv
  <2>3. Held' = Held
    BY <1>1 DEF Held
  <2> QED BY <1>1, <2>2, <2>3, CopiesStep DEF IInv, LInv
<1> QED BY <1>6, <1>10, <1>11, <1>12, <1>13, <1>14 DEF LInv

\* A receipt takes what it gives a line off what the line waits for on this purchase order, and
\* off what it has on order; copies left over show that nothing else waited.
LEMMA CommitReceiveLinks ==
  ASSUME IInv, LInv, TypeOK', NEW w \in Worker, NEW p \in Po, NEW t, tx[w] = t, t.p = p, CommitReceive(w)
  PROVE  LInv'
<1>1. /\ UNCHANGED <<order, raced>> /\ tx' = [tx EXCEPT ![w] = Idle] /\ t.op = "receive"
      /\ po' = [po EXCEPT ![p] = WithReceipt(@, t.n, t.here)]
      /\ line' = [o \in Order |-> [line[o] EXCEPT !.reserved = @ + t.takes[o]]]
      /\ link' = [k \in DOMAIN link |-> IF k[2] = p THEN [link[k] EXCEPT !.reserved = @ + t.takes[k[1]]] ELSE link[k]]
      /\ stock' = stock + t.left /\ away' = IF t.here THEN away ELSE away + t.n
  BY DEF CommitReceive, End, Holds
<1>2. /\ t.takes \in [Order -> Nat] /\ t.left \in Nat /\ t.n \in Nat /\ t.here \in BOOLEAN
      /\ \A o \in Order : t.takes[o] > 0 => order[o] \in OpenStatus /\ t.takes[o] <= OnOrder(o, line[o])
  BY DEF IInv, Transactions, Transaction, TxRecord
<1>3. /\ \A o \in Order : t.takes[o] <= Outstanding(o, p)
      /\ t.left > 0 => \A o \in Order \ raced : t.takes[o] >= Outstanding(o, p)
      /\ IF t.here THEN SumFunction(t.takes) = t.n - t.left ELSE t.left = 0 /\ \A o \in Order : t.takes[o] = 0
  BY <1>1 DEF LInv, Purchase
<1>4. \A o \in Order, q \in Po : Outstanding(o, q) \in Int /\ Outstanding(o, q) >= 0 /\ Outstanding(o, q)' \in Int
  BY Totals, NextOutstanding DEF IInv, LInv, LinksCovered
<1>5. /\ \A o \in Order : Outstanding(o, p)' = Outstanding(o, p) - t.takes[o]
      /\ \A o \in Order, q \in Po \ {p} : Outstanding(o, q)' = Outstanding(o, q)
  <2>1. link \in [Order \X Po -> Link]
    BY DEF IInv, TypeOK, Link
  <2>2. \A o \in Order, q \in Po \ {p} : link'[<<o, q>>] = link[<<o, q>>]
    BY <1>1, <2>1
  <2>3. ASSUME NEW o \in Order PROVE Outstanding(o, p)' = Outstanding(o, p) - t.takes[o]
    <3>1. link'[<<o, p>>] = [link[<<o, p>>] EXCEPT !.reserved = @ + t.takes[o]] /\ link[<<o, p>>] \in Link
      BY <1>1, <2>1
    <3>2. /\ link'[<<o, p>>].status = link[<<o, p>>].status
          /\ link'[<<o, p>>].quantity = link[<<o, p>>].quantity
          /\ link'[<<o, p>>].reserved = link[<<o, p>>].reserved + t.takes[o]
      BY <3>1 DEF Link
    <3>3. t.takes[o] <= Outstanding(o, p) /\ t.takes[o] \in Nat
      BY <1>2, <1>3
    <3> QED BY <3>1, <3>2, <3>3 DEF Outstanding, Link
  <2> QED BY <2>2, <2>3 DEF Outstanding
<1>6. LinksCovered'
  <2>1. \A o \in Order : Outstanding(o, p)' >= 0
    BY <1>2, <1>3, <1>4, <1>5
  <2> QED BY <1>4, <1>5, <2>1 DEF LinksCovered
<1>7. /\ \A q \in Po \ {p} : po'[q] = po[q]
      /\ po'[p] = WithReceipt(po[p], t.n, t.here)
  BY <1>1 DEF IInv, TypeOK
<1>8. \A o \in Order : /\ line'[o].reserved = line[o].reserved + t.takes[o]
                       /\ line'[o].delivered = line[o].delivered /\ line'[o].cancelled = line[o].cancelled
                       /\ line[o] \in Line /\ line'[o] \in Line
                       /\ t.takes[o] = 0 => line'[o] = line[o]
  BY <1>1, <1>2 DEF IInv, TypeOK, Line
<1>9. tx' = [v \in Worker |-> IF v = w THEN Idle ELSE tx[v]]
  BY <1>1 DEF IInv, Transactions
<1>10. ASSUME NEW v \in Worker \ {w} PROVE Undisturbed(v)
  <2>1. \A q \in Po : Buys(v, q) => q # p
    BY <1>1 DEF LInv, Apart, Buys
  <2>2. \A o \in Order : LinksLine(v, o) =>
          line'[o] = line[o] /\ (order'[o] \in OpenStatus => order[o] \in OpenStatus)
    <3>1. \A o \in Order : LinksLine(v, o) => ~(t.takes[o] > 0)
      BY DEF LInv, Apart
    <3> QED BY <1>1, <1>2, <1>8, <3>1
  <2> QED BY <1>4, <1>5, <1>7, <1>9, <2>1, <2>2 DEF Undisturbed
<1>11. (\A v \in Worker : Purchase(tx[v])') /\ Apart'
  BY <1>1, <1>6, <1>9, <1>10, OthersKeep
<1>12. LinksWithinOnOrder'
  <2>1. ASSUME NEW o \in Order \ raced
        PROVE  Linked(o)' <= (IF order[o] \in OpenStatus THEN OnOrder(o, line'[o]) ELSE 0)
    <3>1. Linked(o)' = Linked(o) - t.takes[o] /\ Linked(o) \in Int /\ t.takes[o] \in Nat
      <4>1. Linked(o)' = Linked(o) - Outstanding(o, p) + Outstanding(o, p)' /\ Linked(o) \in Int /\ Linked(o)' \in Int
        BY <1>5, LinkedStep DEF IInv
      <4>2. Outstanding(o, p)' = Outstanding(o, p) - t.takes[o] /\ t.takes[o] \in Nat /\ Outstanding(o, p) \in Int
        BY <1>2, <1>4, <1>5
      <4> QED BY <4>1, <4>2
    <3>2. Linked(o) <= (IF order[o] \in OpenStatus THEN OnOrder(o, line[o]) ELSE 0)
      BY DEF LInv, LinksWithinOnOrder
    <3>3. CASE t.takes[o] = 0
      BY <1>8, <3>1, <3>2, <3>3
    <3>4. CASE t.takes[o] > 0
      <4>1. order[o] \in OpenStatus /\ t.takes[o] <= OnOrder(o, line[o])
        BY <1>2, <3>4
      <4>2. line[o].reserved + line[o].delivered + line[o].cancelled <= Ordered[o] /\ Ordered[o] \in Nat
        BY SpecialOrdersAssumption DEF IInv, NeverMoreThanOrdered
      <4>3. OnOrder(o, line[o]) = Ordered[o] - line[o].reserved - line[o].delivered - line[o].cancelled
        BY <1>8, <4>2, OnOrderFacts
      <4>4. line'[o].reserved + line'[o].delivered + line'[o].cancelled <= Ordered[o]
        BY <1>8, <3>1, <4>1, <4>2, <4>3 DEF Line
      <4>5. OnOrder(o, line'[o]) = Ordered[o] - line'[o].reserved - line'[o].delivered - line'[o].cancelled
        BY <1>8, <4>4, OnOrderFacts
      <4>6. OnOrder(o, line'[o]) = OnOrder(o, line[o]) - t.takes[o]
        BY <1>8, <3>1, <4>2, <4>3, <4>5 DEF Line
      <4>7. OnOrder(o, line[o]) \in Int
        BY <1>8, OnOrderFacts
      <4> QED BY <3>1, <3>2, <4>1, <4>6, <4>7
    <3> QED BY <3>1, <3>3, <3>4
  <2>2. \A o \in Order : OnOrder(o, line[o])' = OnOrder(o, line'[o])
    BY DEF OnOrder
  <2> QED BY <1>1, <2>1, <2>2 DEF LinksWithinOnOrder
<1>13. ASSUME NEW q \in Po \ {p} PROVE Brings(q)'
  <2>1. LinkedOn(q)' = LinkedOn(q) /\ Brings(q)
    BY <1>5, LinkedOnStep DEF LInv, IInv
  <2> QED BY <1>1, <1>5, <1>7, <2>1 DEF Brings
<1> DEFINE given == SumFunctionOnSet(t.takes, Order)
<1>14. /\ given \in Nat
       /\ IF t.here THEN given = t.n - t.left ELSE given = 0
  <2>1. SumFunction(t.takes) = given
    BY <1>2 DEF SumFunction
  <2>2. given \in Nat
    BY <1>2, OrderIsFinite, SumNatural
  <2>3. (\A o \in Order : t.takes[o] = 0) => given = 0
    BY OrderIsFinite, SumZero
  <2> QED BY <1>3, <2>1, <2>2, <2>3
<1>15. LinkedOn(p) = LinkedOn(p)' + given /\ LinkedOn(p) \in Int /\ LinkedOn(p)' \in Int
  <2> DEFINE g == [o \in Order |-> Outstanding(o, p)']
             h == [o \in Order |-> Outstanding(o, p)]
             f == t.takes
  <2>1. \A o \in Order : g[o] \in Int /\ f[o] \in Int /\ h[o] = g[o] + f[o]
    BY <1>2, <1>4, <1>5
  <2>2. LinkedOn(p)' = SumFunctionOnSet(g, Order) /\ LinkedOn(p) = SumFunctionOnSet(h, Order)
    BY SumsUnfold DEF LinkedOn, SumFunction
  <2> HIDE DEF g, h, f
  <2>3. SumFunctionOnSet(h, Order) = SumFunctionOnSet(g, Order) + SumFunctionOnSet(f, Order)
    BY <2>1, OrderIsFinite, SumPlus
  <2>4. given = SumFunctionOnSet(f, Order)
    BY DEF f
  <2> HIDE DEF given
  <2> QED BY <2>2, <2>3, <2>4, LinkedOnStep DEF IInv
<1>16. Held' = Held + given
  <2> DEFINE g == [o \in Order |-> line'[o].reserved + line'[o].delivered]
             h == [o \in Order |-> line[o].reserved + line[o].delivered]
             f == t.takes
  <2>1. \A o \in Order : h[o] \in Int /\ f[o] \in Int /\ g[o] = h[o] + f[o]
    BY <1>2, <1>8 DEF Line
  <2>2. Held' = SumFunctionOnSet(g, Order) /\ Held = SumFunctionOnSet(h, Order)
    BY SumsUnfold DEF Held, SumFunction
  <2> HIDE DEF g, h, f
  <2>3. SumFunctionOnSet(g, Order) = SumFunctionOnSet(h, Order) + SumFunctionOnSet(f, Order)
    BY <2>1, OrderIsFinite, SumPlus
  <2> QED BY <2>2, <2>3 DEF f
<1>17. Arrived' = Arrived + t.n
  <2> DEFINE a == [q \in Po |-> po[q].received]
             b == [q \in Po |-> po'[q].received]
  <2>1. /\ \A q \in Po : a[q] \in Int /\ b[q] \in Int
        /\ \A q \in Po \ {p} : b[q] = a[q]
        /\ b[p] = a[p] + t.n
    BY <1>7 DEF IInv, TypeOK, WithReceipt
  <2>2. Arrived' = SumFunctionOnSet(b, Po) /\ Arrived = SumFunctionOnSet(a, Po)
    BY SumsUnfold DEF Arrived, SumFunction
  <2> HIDE DEF a, b
  <2>3. IsFiniteSet(Po)
    BY SpecialOrdersAssumption
  <2>4. SumFunctionOnSet(b, Po) = SumFunctionOnSet(a, Po) - a[p] + b[p]
    BY <2>1, <2>3, SumChange
  <2>5. Arrived' = Arrived - a[p] + b[p] /\ Arrived \in Int
    BY <2>2, <2>4, CopiesStep DEF IInv
  <2> QED BY <1>2, <2>1, <2>5
<1> HIDE DEF given
<1>18. Brings(p)'
  <2>1. /\ po[p].quantity \in Nat /\ po[p].received \in Nat /\ po[p].elsewhere \in Nat
        /\ po'[p].quantity = po[p].quantity /\ po'[p].received = po[p].received + t.n
        /\ po'[p].elsewhere = IF t.here THEN po[p].elsewhere ELSE po[p].elsewhere + t.n
        /\ po'[p].status \in {"received", "partially_received"}
    BY <1>7 DEF IInv, TypeOK, WithReceipt, StatusAfterReceipt
  <2>2. ASSUME \A o \in Order \ raced : Outstanding(o, p) = 0
        PROVE  \A o \in Order \ raced' : Outstanding(o, p)' = 0
    <3> SUFFICES ASSUME NEW o \in Order \ raced PROVE Outstanding(o, p)' = 0
      BY <1>1
    <3>1. Outstanding(o, p) = 0 /\ t.takes[o] \in Nat /\ t.takes[o] <= Outstanding(o, p)
      BY <1>2, <1>3, <2>2
    <3> QED BY <1>5, <3>1
  <2>3. ASSUME t.left > 0 PROVE \A o \in Order \ raced' : Outstanding(o, p)' = 0
    <3> SUFFICES ASSUME NEW o \in Order \ raced PROVE Outstanding(o, p)' = 0
      BY <1>1
    <3>1. /\ t.takes[o] \in Nat /\ t.takes[o] <= Outstanding(o, p) /\ t.takes[o] >= Outstanding(o, p)
          /\ Outstanding(o, p) \in Int
      BY <1>2, <1>3, <1>4, <2>3
    <3> QED BY <1>5, <3>1
  <2>4. ASSUME t.left = 0, LinkedOn(p) <= po[p].quantity - po[p].received + po[p].elsewhere
        PROVE  LinkedOn(p)' <= po'[p].quantity - po'[p].received + po'[p].elsewhere
    <3>1. CASE t.here
      <4>1. given = t.n
        BY <1>2, <1>14, <2>4, <3>1
      <4> QED BY <1>2, <1>15, <2>1, <2>4, <3>1, <4>1
    <3>2. CASE ~t.here
      <4>1. given = 0
        BY <1>14, <3>2
      <4>2. LinkedOn(p)' = LinkedOn(p)
        BY <1>15, <4>1
      <4> QED BY <1>2, <1>15, <2>1, <2>4, <3>2, <4>2
    <3> QED BY <3>1, <3>2
  <2>5. \/ LinkedOn(p) <= po[p].quantity - po[p].received + po[p].elsewhere
        \/ \A o \in Order \ raced : Outstanding(o, p) = 0
    BY DEF LInv, Brings
  <2>6. t.left = 0 \/ t.left > 0
    BY <1>2
  <2> QED BY <2>1, <2>2, <2>3, <2>4, <2>5, <2>6 DEF Brings
<1>19. EveryCopyAccounted'
  <2>1. stock + away + Held = InitialStock + Arrived
    BY CopiesStep DEF IInv, LInv
  <2>2. PICK s \in Int, a \in Int, h \in Int, i \in Int, r \in Int, g \in Int, n \in Int, k \in Int :
          s = stock /\ a = away /\ h = Held /\ i = InitialStock /\ r = Arrived /\ g = given /\ n = t.n /\ k = t.left
    <3>1. stock \in Int /\ away \in Int /\ TypeOK
      BY DEF IInv, TypeOK
    <3>2. Held \in Int /\ Arrived \in Int
      BY <3>1, CopiesStep
    <3>3. InitialStock \in Int
      BY SpecialOrdersAssumption
    <3>4. given \in Int /\ t.n \in Int /\ t.left \in Int
      BY <1>2, <1>14
    <3> QED BY <3>1, <3>2, <3>3, <3>4
  <2>3. CASE t.here
    <3>1. stock' = s + k /\ away' = a /\ Held' = h + g /\ Arrived' = r + n /\ g = n - k /\ s + a + h = i + r
      BY <1>1, <1>14, <1>16, <1>17, <2>1, <2>2, <2>3
    <3>2. (s + k) + a + (h + g) = i + (r + n)
      BY <3>1
    <3> QED BY <2>2, <3>1, <3>2, CopiesStep DEF IInv
  <2>4. CASE ~t.here
    <3>1. stock' = s + k /\ away' = a + n /\ Held' = h + g /\ Arrived' = r + n /\ g = 0 /\ k = 0 /\ s + a + h = i + r
      BY <1>1, <1>3, <1>14, <1>16, <1>17, <2>1, <2>2, <2>4
    <3>2. (s + k) + (a + n) + (h + g) = i + (r + n)
      BY <3>1
    <3> QED BY <2>2, <3>1, <3>2, CopiesStep DEF IInv
  <2> QED BY <2>3, <2>4
<1> QED BY <1>6, <1>11, <1>12, <1>13, <1>18, <1>19 DEF LInv

-----------------------------------------------------------------------------
(* All steps.                                                              *)

LEMMA NextLinks ==
  ASSUME IInv, LInv, TypeOK', Next PROVE LInv'
<1>1. CASE \E p \in Po : (\E n \in 1..MaxCopies[p] : EditDraft(p, n)) \/ Proceed(p) \/ EndPo(p)
  BY <1>1, EditDraftLinks, ProceedLinks, EndPoLinks
<1>2. CASE \E n \in 1..away : BringOver(n)
  BY <1>2, BringOverLinks
<1>3. CASE \E w \in Worker, p \in Po, o \in Order : \E n \in 1..MaxCopies[p] : AskLink(w, p, o, n)
  BY <1>3, AskLinkLinks
<1>4. CASE \E w \in Worker, p \in Po, here \in BOOLEAN : \E n \in 1..MaxCopies[p] : LockReceive(w, p, n, here)
  BY <1>4, LockReceiveLinks
<1>5. CASE \E w \in Worker, o \in Order : LockOrder(w, o)
  BY <1>5, LockOrderLinks
<1>6. ASSUME NEW w \in Worker, CommitLink(w) PROVE LInv'
  <2>1. tx[w].o \in Order /\ tx[w].p \in Po /\ tx[w].n \in Nat
    BY <1>6 DEF IInv, Transactions, Transaction, TxRecord, CommitLink, Holds
  <2>2. PICK o \in Order, p \in Po, n \in Nat : tx[w].o = o /\ tx[w].p = p /\ tx[w].n = n
    BY <2>1
  <2> QED BY <1>6, <2>2, CommitLinkLinks
<1>7. ASSUME NEW w \in Worker, CommitReceive(w) PROVE LInv'
  <2>1. tx[w].p \in Po
    BY <1>7 DEF IInv, Transactions, Transaction, CommitReceive, Holds
  <2>2. PICK p \in Po : tx[w].p = p
    BY <2>1
  <2>3. PICK t : tx[w] = t
    OBVIOUS
  <2> QED BY <1>7, <2>2, <2>3, CommitReceiveLinks
<1>8. ASSUME NEW w \in Worker,
             \/ CommitCancel(w) \/ CommitCancelRest(w) \/ CommitReserve(w)
             \/ \E n \in 1..tx[w].seen.reserved : CommitDeliver(w, n)
      PROVE  LInv'
  <2>1. Holds(w, "sell", "locked")
    BY <1>8 DEF CommitCancel, CommitCancelRest, CommitDeliver, CommitReserve
  <2>2. tx[w].o \in Order
    BY <2>1, SellerFacts
  <2>3. PICK o \in Order : tx[w].o = o
    BY <2>2
  <2> QED BY <1>8, <2>3, CommitCancelLinks, CommitCancelRestLinks, CommitDeliverLinks, CommitReserveLinks
<1>9. CASE \E w \in Worker : LockLine(w) \/ Rollback(w)
  BY <1>9, LockLineLinks, RollbackLinks
<1> QED BY <1>1, <1>2, <1>3, <1>4, <1>5, <1>6, <1>7, <1>8, <1>9 DEF Next

LEMMA StutterLinks ==
  ASSUME IInv, LInv, UNCHANGED vars PROVE LInv'
<1>1. UNCHANGED <<order, line, po, link, stock, away, tx, raced>>
  BY DEF vars
<1>2. \A v \in Worker : Purchase(tx[v])'
  BY <1>1 DEF LInv, Purchase, LinkedOn, Outstanding, OnOrder
<1>3. Apart'
  BY <1>1 DEF LInv, Apart, Buys, LinksLine, Holds
<1>4. stock' + away' = stock + away
  BY <1>1
<1> QED BY <1>1, <1>2, <1>3, <1>4, OnlyTxLinks

LEMMA LinksInductive == Spec => [](IInv /\ LInv)
<1>1. IInv /\ LInv /\ [Next]_vars => (IInv /\ LInv)'
  <2>1. IInv /\ [Next]_vars => IInv'
    BY NextKeeps, StutterKeeps
  <2>2. IInv' => TypeOK'
    BY DEF IInv
  <2> QED BY <2>1, <2>2, NextLinks, StutterLinks
<1> QED BY InitIInv, InitLInv, <1>1, PTL DEF Spec

\* No copy is lost or made up, whatever orders, purchase orders and requests there are: what was
\* in the shop and what purchase orders brought is in the shop, at the other location, reserved
\* or delivered (receive, arrive, reserveSpecial, cancel, cancelRest).
THEOREM CopiesAreConserved == Spec => []EveryCopyAccounted
<1>1. LInv => EveryCopyAccounted
  BY DEF LInv
<1> QED BY LinksInductive, <1>1, PTL

\* The links between lines and purchase orders stay right from both ends: but for lines linked
\* over a figure that was no longer true, a line waits for no more than it has on order; and
\* what lines wait for on a purchase order can still come (checkLinkable, placement,
\* checkKeepsLinked, openLinks, consumeLinks, releaseForPo, releaseForLines).
THEOREM LinksStayRight == Spec => []LinksAreKept
<1>1. IInv /\ LInv => PoBringsWhatLinesWaitFor
  <2> SUFFICES ASSUME IInv, LInv, NEW p \in Po, \A o \in raced : Outstanding(o, p) = 0, LinkedOn(p) > 0
               PROVE  /\ po[p].status \notin {"cancelled", "closed"}
                      /\ LinkedOn(p) <= po[p].quantity - po[p].received + po[p].elsewhere
    BY DEF PoBringsWhatLinesWaitFor
  <2>1. Brings(p)
    BY DEF LInv
  <2>2. ~ \A o \in Order : Outstanding(o, p) = 0
    <3> DEFINE f == [o \in Order |-> Outstanding(o, p)]
    <3>1. LinkedOn(p) = SumFunctionOnSet(f, Order) /\ \A o \in Order : f[o] = Outstanding(o, p)
      BY SumsUnfold
    <3> HIDE DEF f
    <3>2. (\A o \in Order : f[o] = 0) => SumFunctionOnSet(f, Order) = 0
      BY OrderIsFinite, SumZero
    <3> QED BY <3>1, <3>2
  <2>3. ~ \A o \in Order \ raced : Outstanding(o, p) = 0
    BY <2>2 DEF IInv, TypeOK
  <2> QED BY <2>1, <2>2, <2>3 DEF Brings
<1>2. IInv /\ LInv => LinksAreKept
  BY <1>1 DEF LinksAreKept, LInv
<1> QED BY LinksInductive, <1>2, PTL

-----------------------------------------------------------------------------
(* What an order owes its supplier.                                        *)

PaymentRow == [status : {"none", "standing", "reversed"}, amount : Nat, source : AnySource]
ReturnRow == [status : {"none", "draft", "sent", "cancelled"}, quantity : Nat]

\* The figures, of any payments and any returns
PaidOf(row, source) == IF row.status = "standing" /\ row.source \in source THEN row.amount ELSE 0
PaidIn(rows, source) == SumFunctionOnSet([p \in Payment |-> PaidOf(rows[p], source)], Payment)
SentOf(row) == IF row.status = "sent" THEN row.quantity ELSE 0
SentIn(rows) == SumFunctionOnSet([r \in Return |-> SentOf(rows[r])], Return)

\* A request under way asks for something.
AsksForSomething == \A w \in Clerk : refunding[w] # NotAsked => refunding[w].amount > 0

Ledger ==
  /\ LedgerTypeOK
  /\ AsksForSomething
  /\ ReturnsAddUp
  /\ SettledWithinOrder /\ FinancialStatusAgrees
  /\ RefundsWithinDueUnlessUndone

LEMMA LedgerRowsAreFinite == IsFiniteSet(Payment) /\ IsFiniteSet(Return)
  BY SupplierLedgerAssumption

LEMMA FiguresUnfold ==
  /\ \A source : Paid(source) = PaidIn(payment, source)
  /\ Sent = SentIn(return)
  /\ \A source : Paid(source)' = PaidIn(payment', source)
  /\ Sent' = SentIn(return')
<1>1. \A source : Paid(source) = PaidIn(payment, source)
  BY DEF Paid, PaidIn, PaidOf, SumFunction
<1>2. Sent = SentIn(return)
  BY DEF Sent, SentIn, SentOf, SumFunction
<1>3. \A source : Paid(source)' = PaidIn(payment', source)
  BY DEF Paid, PaidIn, PaidOf, SumFunction
<1>4. Sent' = SentIn(return')
  BY DEF Sent, SentIn, SentOf, SumFunction
<1> QED BY <1>1, <1>2, <1>3, <1>4

LEMMA PaidInFacts ==
  ASSUME NEW rows \in [Payment -> PaymentRow], NEW source PROVE PaidIn(rows, source) \in Nat
<1> DEFINE f == [p \in Payment |-> PaidOf(rows[p], source)]
<1>1. \A p \in Payment : f[p] \in Nat
  BY DEF PaidOf, PaymentRow
<1> HIDE DEF f
<1>2. SumFunctionOnSet(f, Payment) \in Nat
  BY <1>1, SumNatural, LedgerRowsAreFinite
<1> QED BY <1>2 DEF PaidIn, f

LEMMA PaidInChange ==
  ASSUME NEW rows \in [Payment -> PaymentRow], NEW p \in Payment, NEW row \in PaymentRow, NEW source
  PROVE  PaidIn([rows EXCEPT ![p] = row], source) = PaidIn(rows, source) - PaidOf(rows[p], source) + PaidOf(row, source)
<1> DEFINE new == [rows EXCEPT ![p] = row]
           f == [q \in Payment |-> PaidOf(rows[q], source)]
           g == [q \in Payment |-> PaidOf(new[q], source)]
<1>1. /\ \A q \in Payment : f[q] \in Int /\ g[q] \in Int
      /\ \A q \in Payment \ {p} : g[q] = f[q]
  <2>1. \A x \in PaymentRow : PaidOf(x, source) \in Int
    BY DEF PaidOf, PaymentRow
  <2>2. /\ new[p] = row /\ \A q \in Payment \ {p} : new[q] = rows[q]
        /\ \A q \in Payment : rows[q] \in PaymentRow /\ new[q] \in PaymentRow
    OBVIOUS
  <2> HIDE DEF new
  <2> QED BY <2>1, <2>2
<1>2. f[p] = PaidOf(rows[p], source) /\ g[p] = PaidOf(row, source)
  OBVIOUS
<1>3. IsFiniteSet(Payment)
  BY LedgerRowsAreFinite
<1> HIDE DEF f, g
<1>4. SumFunctionOnSet(g, Payment) = SumFunctionOnSet(f, Payment) - f[p] + g[p]
  BY <1>1, <1>3, SumChange
<1> QED BY <1>2, <1>4 DEF PaidIn, f, g

LEMMA SentInFacts == ASSUME NEW rows \in [Return -> ReturnRow] PROVE SentIn(rows) \in Nat
<1> DEFINE f == [r \in Return |-> SentOf(rows[r])]
<1>1. \A r \in Return : f[r] \in Nat
  BY DEF SentOf, ReturnRow
<1> HIDE DEF f
<1>2. SumFunctionOnSet(f, Return) \in Nat
  BY <1>1, SumNatural, LedgerRowsAreFinite
<1> QED BY <1>2 DEF SentIn, f

LEMMA SentInChange ==
  ASSUME NEW rows \in [Return -> ReturnRow], NEW r \in Return, NEW row \in ReturnRow
  PROVE  SentIn([rows EXCEPT ![r] = row]) = SentIn(rows) - SentOf(rows[r]) + SentOf(row)
<1> DEFINE new == [rows EXCEPT ![r] = row]
           f == [q \in Return |-> SentOf(rows[q])]
           g == [q \in Return |-> SentOf(new[q])]
<1>1. /\ \A q \in Return : f[q] \in Int /\ g[q] \in Int
      /\ \A q \in Return \ {r} : g[q] = f[q]
  <2>1. \A x \in ReturnRow : SentOf(x) \in Int
    BY DEF SentOf, ReturnRow
  <2>2. /\ new[r] = row /\ \A q \in Return \ {r} : new[q] = rows[q]
        /\ \A q \in Return : rows[q] \in ReturnRow /\ new[q] \in ReturnRow
    OBVIOUS
  <2> HIDE DEF new
  <2> QED BY <2>1, <2>2
<1>2. f[r] = SentOf(rows[r]) /\ g[r] = SentOf(row)
  OBVIOUS
<1>3. IsFiniteSet(Return)
  BY LedgerRowsAreFinite
<1> HIDE DEF f, g
<1>4. SumFunctionOnSet(g, Return) = SumFunctionOnSet(f, Return) - f[r] + g[r]
  BY <1>1, <1>3, SumChange
<1> QED BY <1>2, <1>4 DEF SentIn, f, g

LEMMA LedgerRows ==
  ASSUME LedgerTypeOK
  PROVE  /\ payment \in [Payment -> PaymentRow] /\ return \in [Return -> ReturnRow]
         /\ Paid({"auto_on_receipt"}) \in Nat /\ Paid(AnySource) \in Nat
         /\ Sent \in Nat /\ Settled \in Int /\ Total \in Nat /\ Value \in Nat /\ Value <= Total
         /\ credited \in Nat /\ returned \in Nat /\ refunded \in Nat /\ onHand \in Nat
<1>1. payment \in [Payment -> PaymentRow] /\ return \in [Return -> ReturnRow]
  BY DEF LedgerTypeOK, PaymentRow, ReturnRow
<1>2. /\ Paid({"auto_on_receipt"}) \in Nat /\ Paid(AnySource) \in Nat
      /\ Sent \in Nat
  BY <1>1, PaidInFacts, SentInFacts, FiguresUnfold
<1>3. credited \in Nat /\ returned \in Nat /\ refunded \in Nat /\ onHand \in Nat
  BY DEF LedgerTypeOK
<1>4. Settled \in Int
  BY <1>2, <1>3 DEF Settled
<1>5. Total \in Nat /\ Value \in Nat /\ Value <= Total
  BY SupplierLedgerAssumption DEF LedgerTypeOK, Total, Value, Amount
<1> QED BY <1>1, <1>2, <1>3, <1>4, <1>5

LEMMA LedgerRowsNext ==
  ASSUME LedgerTypeOK'
  PROVE  /\ payment' \in [Payment -> PaymentRow] /\ return' \in [Return -> ReturnRow]
         /\ Paid({"auto_on_receipt"})' \in Nat /\ Paid(AnySource)' \in Nat
         /\ Sent' \in Nat /\ Settled' \in Int /\ Total' \in Nat /\ Value' \in Nat /\ Value' <= Total'
         /\ credited' \in Nat /\ returned' \in Nat /\ refunded' \in Nat /\ onHand' \in Nat
<1>1. payment' \in [Payment -> PaymentRow] /\ return' \in [Return -> ReturnRow]
  BY DEF LedgerTypeOK, PaymentRow, ReturnRow
<1>2. /\ Paid({"auto_on_receipt"})' \in Nat /\ Paid(AnySource)' \in Nat
      /\ Sent' \in Nat
  BY <1>1, PaidInFacts, SentInFacts, FiguresUnfold DEF AnySource
<1>3. credited' \in Nat /\ returned' \in Nat /\ refunded' \in Nat /\ onHand' \in Nat
  BY DEF LedgerTypeOK
<1>4. Settled' \in Int
  BY <1>2, <1>3 DEF Settled
<1>5. Total' \in Nat /\ Value' \in Nat /\ Value' <= Total'
  BY SupplierLedgerAssumption DEF LedgerTypeOK, Total, Value, Amount
<1> QED BY <1>1, <1>2, <1>3, <1>4, <1>5

Ceiling == RefundCeiling(purchase.status, Total, Value)
NoneReversed == \A p \in Payment : payment[p].status # "reversed"

LEMMA DueFacts ==
  ASSUME LedgerTypeOK
  PROVE  /\ Ceiling \in Nat
         /\ RefundsWithinDue <=> refunded <= 0 \/ refunded <= Paid(AnySource) + credited + returned - Ceiling
<1>1. PICK a \in Int, c \in Int, b \in Int, r \in Int, k \in Nat :
        a = Paid(AnySource) /\ c = credited /\ b = returned /\ r = refunded /\ k = Ceiling
  BY LedgerRows DEF Ceiling, RefundCeiling
<1>2. Settled = a + c + b - r
  BY <1>1 DEF Settled
<1>3. Max({0, a + b + c - k}) = IF 0 >= a + b + c - k THEN 0 ELSE a + b + c - k
  BY MaxOfTwo
<1>4. RefundsWithinDue <=> r <= Max({0, a + b + c - k})
  <2>1. RefundCeiling(purchase.status, Total, Value) = k
    BY <1>1 DEF Ceiling
  <2>2. Settled + refunded - RefundCeiling(purchase.status, Total, Value) = a + b + c - k
    BY <1>1, <1>2, <2>1
  <2>3. refunded = r
    BY <1>1
  <2> QED BY <2>2, <2>3 DEF RefundsWithinDue
<1>5. RefundsWithinDue <=> r <= 0 \/ r <= a + c + b - k
  BY <1>3, <1>4
<1> QED BY <1>1, <1>5

LEMMA DueFactsNext ==
  ASSUME LedgerTypeOK'
  PROVE  /\ Ceiling' \in Nat
         /\ RefundsWithinDue' <=>
              refunded' <= 0 \/ refunded' <= Paid(AnySource)' + credited' + returned' - Ceiling'
<1>1. PICK a \in Int, c \in Int, b \in Int, r \in Int, k \in Nat :
        a = Paid(AnySource)' /\ c = credited' /\ b = returned' /\ r = refunded' /\ k = Ceiling'
  BY LedgerRowsNext DEF Ceiling, RefundCeiling
<1>2. Settled' = a + c + b - r
  BY <1>1 DEF Settled
<1>3. Max({0, a + b + c - k}) = IF 0 >= a + b + c - k THEN 0 ELSE a + b + c - k
  BY MaxOfTwo
<1>4. RefundsWithinDue' <=> r <= Max({0, a + b + c - k})
  <2>1. RefundCeiling(purchase.status, Total, Value)' = k
    BY <1>1 DEF Ceiling
  <2>2. Settled' + refunded' - RefundCeiling(purchase.status, Total, Value)' = a + b + c - k
    BY <1>1, <1>2, <2>1
  <2>3. refunded' = r
    BY <1>1
  <2> QED BY <2>2, <2>3 DEF RefundsWithinDue
<1>5. RefundsWithinDue' <=> r <= 0 \/ r <= a + c + b - k
  BY <1>3, <1>4
<1> QED BY <1>1, <1>5

\* What is due grows as long as nothing is refunded, nothing reversed and less may still come.
LEMMA RefundsStayDue ==
  ASSUME Ledger, LedgerTypeOK', refunded' = refunded, ~stale' => ~stale, NoneReversed' => NoneReversed,
         Paid(AnySource)' + credited' + returned' >= Paid(AnySource) + credited + returned,
         Ceiling' <= Ceiling
  PROVE  RefundsWithinDueUnlessUndone'
<1> SUFFICES ASSUME ~stale', NoneReversed' PROVE RefundsWithinDue'
  BY DEF RefundsWithinDueUnlessUndone, NoneReversed
<1>1. RefundsWithinDue
  BY DEF Ledger, RefundsWithinDueUnlessUndone, NoneReversed
<1>2. LedgerTypeOK
  BY DEF Ledger
<1>3. PICK a \in Int, c \in Int, b \in Int, k \in Int, r \in Int :
        a = Paid(AnySource) /\ c = credited /\ b = returned /\ k = Ceiling /\ r = refunded
  BY <1>2, LedgerRows, DueFacts
<1>4. PICK d \in Int, f \in Int, e \in Int, l \in Int :
        d = Paid(AnySource)' /\ f = credited' /\ e = returned' /\ l = Ceiling'
  BY LedgerRowsNext, DueFactsNext
<1>5. r <= 0 \/ r <= a + c + b - k
  <2>1. refunded <= 0 \/ refunded <= Paid(AnySource) + credited + returned - Ceiling
    BY <1>1, <1>2, DueFacts
  <2> QED BY <1>3, <2>1
<1>6. d + f + e >= a + c + b /\ l <= k
  BY <1>3, <1>4
<1>7. r <= 0 \/ r <= d + f + e - l
  BY <1>5, <1>6
<1>8. refunded' <= 0 \/ refunded' <= Paid(AnySource)' + credited' + returned' - Ceiling'
  BY <1>3, <1>4, <1>7
<1> QED BY <1>8, DueFactsNext

LEMMA StatusRefreshed ==
  ASSUME LedgerTypeOK, RefreshFinancialStatus,
         purchase' \in [status : PoStatus, terms : {"cash", "credit"}, quantity : Amount, received : Nat]
  PROVE  /\ FinancialStatusAgrees'
         /\ fin' \in {"unpaid", "partial", "paid"} /\ valued' \in 0..purchase'.received
<1>1. fin' = FinancialStatus(Value', Settled') /\ valued' = Value'
  BY DEF RefreshFinancialStatus
<1>2. fin' = FinancialStatus(valued', Settled')
  BY <1>1
<1>3. Value' = purchase'.received /\ purchase'.received \in Nat
  BY DEF Value
<1> QED BY <1>1, <1>2, <1>3 DEF FinancialStatusAgrees, FinancialStatus

\* A step in which no money moves
LEMMA QuietStep ==
  ASSUME Ledger, LedgerTypeOK', AsksForSomething', UNCHANGED <<fin, valued, moneyVars, stale>>, Sent' = Sent,
         Total' = Total, Value' >= Value, Ceiling' <= Ceiling, onHand' + Value <= onHand + Value',
         purchase'.terms = purchase.terms, purchase.terms = "cash" => Value' = Value
  PROVE  Ledger'
<1>1. LedgerTypeOK /\ payment' = payment /\ credited' = credited /\ returned' = returned /\ refunded' = refunded
  BY DEF Ledger, moneyVars
<1>2. \A source : Paid(source)' = Paid(source)
  BY <1>1, FiguresUnfold
<1>3. Settled' = Settled
  BY <1>1, <1>2 DEF Settled, AnySource
<1>4. ReturnsAddUp'
  <2>1. PICK s \in Int, v \in Int, u \in Int, h \in Int, g \in Int :
          s = Sent /\ v = Value /\ u = Value' /\ h = onHand /\ g = onHand'
    BY <1>1, LedgerRows, LedgerRowsNext
  <2>2. s <= v /\ returned = s /\ h + s <= OtherStock + v
    BY <2>1 DEF Ledger, ReturnsAddUp, SentWithinReceived, ReturnsCredited, Value
  <2>3. v <= u /\ g + v <= h + u
    BY <2>1
  <2>4. s <= u /\ returned' = s /\ g + s <= OtherStock + u
    BY <1>1, <2>2, <2>3, SupplierLedgerAssumption
  <2> QED BY <2>1, <2>4 DEF ReturnsAddUp, SentWithinReceived, ReturnsCredited, Value
<1>5. SettledWithinOrder'
  <2>1. Paid(AnySource)' = Paid(AnySource) /\ Paid({"auto_on_receipt"})' = Paid({"auto_on_receipt"})
    BY <1>2 DEF AnySource
  <2>2. PICK u \in Int, v \in Int, w \in Int : u = Paid({"auto_on_receipt"}) /\ v = Value /\ w = Value'
    BY <1>1, LedgerRows, LedgerRowsNext
  <2>3. u <= IF purchase.terms = "cash" THEN v ELSE 0
    BY <2>2 DEF Ledger, SettledWithinOrder
  <2>4. u <= IF purchase'.terms = "cash" THEN w ELSE 0
    BY <2>2, <2>3
  <2>5. Paid(AnySource)' + credited' - refunded' <= Total' + Paid({"auto_on_receipt"})'
    BY <1>1, <2>1 DEF Ledger, SettledWithinOrder
  <2> QED BY <2>1, <2>2, <2>4, <2>5 DEF SettledWithinOrder, AnySource
<1>6. FinancialStatusAgrees'
  BY <1>3 DEF Ledger, FinancialStatusAgrees
<1>7. RefundsWithinDueUnlessUndone'
  <2>1. NoneReversed' => NoneReversed
    BY <1>1 DEF NoneReversed
  <2>2. Paid(AnySource)' + credited' + returned' >= Paid(AnySource) + credited + returned
    <3>1. Paid(AnySource)' + credited' + returned' = Paid(AnySource) + credited + returned
      BY <1>1, <1>2 DEF AnySource
    <3>2. Paid(AnySource) + credited + returned \in Int
      BY <1>1, LedgerRows
    <3> QED BY <3>1, <3>2
  <2> QED BY <1>1, <2>1, <2>2, RefundsStayDue
<1> QED BY <1>4, <1>5, <1>6, <1>7 DEF Ledger

-----------------------------------------------------------------------------
(* Steps of the order.                                                     *)

LEMMA OrderUnchanged ==
  ASSUME LedgerTypeOK, purchase' = purchase
  PROVE  Total' = Total /\ Value' >= Value /\ Value' = Value /\ Ceiling' <= Ceiling /\ Ceiling' = Ceiling
<1>1. Total' = Total /\ Value' = Value /\ Ceiling' = Ceiling
  BY DEF Total, Value, Ceiling
<1> QED BY <1>1, LedgerRows, DueFacts

LEMMA ProceedOrderLedger == ASSUME Ledger, ProceedOrder PROVE Ledger'
<1>1. /\ LedgerTypeOK /\ AsksForSomething /\ UNCHANGED <<fin, valued, moneyVars, stale>>
      /\ return' = return /\ onHand' = onHand /\ refunding' = refunding
  BY DEF Ledger, ProceedOrder, goodsVars, askVars
<1>2. PICK next \in PoStatus :
        /\ purchase' = [purchase EXCEPT !.status = next]
        /\ purchase.status \in {"draft", "pending_approval", "approved"}
        /\ next \in {"pending_approval", "approved", "ordered"}
  BY DEF ProceedOrder, StatusAfterSubmit
<1>3. LedgerTypeOK'
  BY <1>1, <1>2 DEF LedgerTypeOK, moneyVars
<1>4. Total' = Total /\ Value' = Value
  BY <1>1, <1>2 DEF LedgerTypeOK, Total, Value
<1>5. Ceiling' = Ceiling
  BY <1>1, <1>2, <1>4 DEF LedgerTypeOK, Ceiling, RefundCeiling
<1>6. Sent' = Sent /\ AsksForSomething'
  BY <1>1, FiguresUnfold DEF AsksForSomething
<1>7. Value' >= Value /\ Ceiling' <= Ceiling /\ onHand' + Value <= onHand + Value'
  BY <1>1, <1>4, <1>5, LedgerRows, DueFacts
<1>8. purchase'.terms = purchase.terms
  BY <1>1, <1>2 DEF LedgerTypeOK
<1> QED BY <1>1, <1>3, <1>4, <1>6, <1>7, <1>8, QuietStep

LEMMA EndOrderLedger == ASSUME Ledger, EndOrder PROVE Ledger'
<1>1. /\ LedgerTypeOK /\ AsksForSomething /\ UNCHANGED <<fin, valued, moneyVars, stale>>
      /\ return' = return /\ onHand' = onHand /\ refunding' = refunding
  BY DEF Ledger, EndOrder, goodsVars, askVars
<1>2. PICK next \in PoStatus : purchase' = [purchase EXCEPT !.status = next] /\ next \in {"cancelled", "closed"}
  BY DEF EndOrder
<1>3. LedgerTypeOK'
  BY <1>1, <1>2 DEF LedgerTypeOK, moneyVars
<1>4. Total' = Total /\ Value' = Value
  BY <1>1, <1>2 DEF LedgerTypeOK, Total, Value
<1>5. Ceiling' = Value /\ Ceiling \in {Value, Total}
  <2>1. purchase'.status \in {"cancelled", "closed"}
    BY <1>1, <1>2 DEF LedgerTypeOK
  <2> QED BY <1>4, <2>1 DEF Ceiling, RefundCeiling
<1>6. Sent' = Sent /\ AsksForSomething'
  BY <1>1, FiguresUnfold DEF AsksForSomething
<1>7. Value' >= Value /\ Ceiling' <= Ceiling /\ onHand' + Value <= onHand + Value'
  BY <1>1, <1>4, <1>5, LedgerRows
<1>8. purchase'.terms = purchase.terms
  BY <1>1, <1>2 DEF LedgerTypeOK
<1> QED BY <1>1, <1>3, <1>4, <1>6, <1>7, <1>8, QuietStep

LEMMA SellLedger == ASSUME Ledger, NEW n \in Amount, Sell(n) PROVE Ledger'
<1>1. /\ LedgerTypeOK /\ AsksForSomething /\ UNCHANGED <<fin, valued, moneyVars, stale>>
      /\ return' = return /\ n <= onHand /\ onHand' = onHand - n /\ refunding' = refunding /\ purchase' = purchase
      /\ n \in Nat
  BY SupplierLedgerAssumption DEF Ledger, Sell, askVars, Amount
<1>2. LedgerTypeOK'
  <2>1. onHand' \in Nat
    BY <1>1, LedgerRows
  <2> QED BY <1>1, <2>1 DEF LedgerTypeOK, moneyVars
<1>3. Sent' = Sent /\ AsksForSomething'
  BY <1>1, FiguresUnfold DEF AsksForSomething
<1>4. Total' = Total /\ Value' >= Value /\ Value' = Value /\ Ceiling' <= Ceiling
  BY <1>1, OrderUnchanged
<1>5. onHand' + Value <= onHand + Value'
  BY <1>1, <1>4, LedgerRows
<1> QED BY <1>1, <1>2, <1>3, <1>4, <1>5, QuietStep

\* A step of a request for a refund that moves no money
LEMMA AskingLedger ==
  ASSUME Ledger, UNCHANGED <<purchase, fin, valued, moneyVars, goodsVars, stale>>,
         refunding' \in [Clerk -> [amount : Nat, settled : Int, value : Nat]], AsksForSomething'
  PROVE  Ledger'
<1>1. LedgerTypeOK /\ return' = return /\ onHand' = onHand /\ purchase' = purchase
  BY DEF Ledger, goodsVars
<1>2. LedgerTypeOK'
  BY <1>1 DEF LedgerTypeOK, moneyVars
<1>3. Sent' = Sent
  BY <1>1, FiguresUnfold
<1>4. Total' = Total /\ Value' >= Value /\ Value' = Value /\ Ceiling' <= Ceiling
  BY <1>1, OrderUnchanged
<1>5. onHand' + Value <= onHand + Value'
  BY <1>1, <1>4, LedgerRows
<1> QED BY <1>1, <1>2, <1>3, <1>4, <1>5, QuietStep

LEMMA AskRefundLedger ==
  ASSUME Ledger, NEW w \in Clerk, NEW amount \in Amount, AskRefund(w, amount) PROVE Ledger'
<1>1. LedgerTypeOK /\ AsksForSomething /\ refunding \in [Clerk -> [amount : Nat, settled : Int, value : Nat]]
  BY DEF Ledger, LedgerTypeOK
<1>2. /\ UNCHANGED <<purchase, fin, valued, moneyVars, goodsVars, stale>>
      /\ refunding' = [refunding EXCEPT ![w] = [amount |-> amount, settled |-> Settled, value |-> Value]]
  BY DEF AskRefund
<1>3. amount \in Nat /\ amount > 0
  BY SupplierLedgerAssumption DEF Amount
<1> DEFINE new == [amount |-> amount, settled |-> Settled, value |-> Value]
<1>4. new \in [amount : Nat, settled : Int, value : Nat] /\ new.amount > 0
  BY <1>1, <1>3, LedgerRows
<1>5. refunding' = [refunding EXCEPT ![w] = new]
  BY <1>2
<1> HIDE DEF new
<1>6. refunding' \in [Clerk -> [amount : Nat, settled : Int, value : Nat]]
  BY <1>1, <1>4, <1>5
<1>7. \A v \in Clerk : refunding'[v] # NotAsked => refunding'[v].amount > 0
  BY <1>1, <1>4, <1>5 DEF AsksForSomething
<1> QED BY <1>2, <1>6, <1>7, AskingLedger DEF AsksForSomething

LEMMA RefuseRefundLedger == ASSUME Ledger, NEW w \in Clerk, RefuseRefund(w) PROVE Ledger'
<1>1. LedgerTypeOK /\ AsksForSomething /\ refunding \in [Clerk -> [amount : Nat, settled : Int, value : Nat]]
  BY DEF Ledger, LedgerTypeOK
<1>2. /\ UNCHANGED <<purchase, fin, valued, moneyVars, goodsVars, stale>>
      /\ refunding' = [refunding EXCEPT ![w] = NotAsked]
  BY DEF RefuseRefund
<1>3. refunding' \in [Clerk -> [amount : Nat, settled : Int, value : Nat]]
  BY <1>1, <1>2 DEF NotAsked
<1>4. \A v \in Clerk : refunding'[v] # NotAsked => refunding'[v].amount > 0
  BY <1>1, <1>2 DEF AsksForSomething
<1> QED BY <1>2, <1>3, <1>4, AskingLedger DEF AsksForSomething

-----------------------------------------------------------------------------
(* Steps of a return.                                                      *)

\* A return that has not been sent, and is not sent now
LEMMA ReturnNotSent ==
  ASSUME Ledger, NEW r \in Return, NEW row \in ReturnRow, return[r].status # "sent", row.status # "sent",
         return' = [return EXCEPT ![r] = row], UNCHANGED <<purchase, fin, valued, moneyVars, onHand, askVars>>
  PROVE  Ledger'
<1>1. LedgerTypeOK /\ AsksForSomething /\ return \in [Return -> ReturnRow] /\ Sent \in Nat /\ UNCHANGED askVars
  BY LedgerRows DEF Ledger
<1>2. return' \in [Return -> ReturnRow]
  BY <1>1
<1>3. LedgerTypeOK' /\ AsksForSomething'
  BY <1>1, <1>2 DEF LedgerTypeOK, moneyVars, askVars, ReturnRow, AsksForSomething
<1>4. Sent' = Sent
  <2>1. Sent' = Sent - SentOf(return[r]) + SentOf(row)
    BY <1>1, SentInChange, FiguresUnfold
  <2>2. SentOf(return[r]) = 0 /\ SentOf(row) = 0
    BY DEF SentOf
  <2> QED BY <1>1, <2>1, <2>2
<1>5. Total' = Total /\ Value' >= Value /\ Value' = Value /\ Ceiling' <= Ceiling
  BY <1>1, OrderUnchanged
<1>6. onHand' + Value <= onHand + Value'
  BY <1>1, <1>5, LedgerRows
<1>7. UNCHANGED <<fin, valued, moneyVars, stale>>
  BY <1>1 DEF askVars
<1> QED BY <1>1, <1>3, <1>4, <1>5, <1>6, <1>7, QuietStep

LEMMA DraftReturnLedger ==
  ASSUME Ledger, NEW r \in Return, NEW n \in Amount, DraftReturn(r, n) PROVE Ledger'
<1>1. n \in Nat
  BY SupplierLedgerAssumption DEF Amount
<1> DEFINE row == [status |-> "draft", quantity |-> n]
<1>2. row \in ReturnRow /\ row.status # "sent"
  BY <1>1 DEF ReturnRow
<1>3. /\ return[r].status # "sent" /\ return' = [return EXCEPT ![r] = row]
      /\ UNCHANGED <<purchase, fin, valued, moneyVars, onHand, askVars>>
  BY DEF DraftReturn
<1> QED BY <1>2, <1>3, ReturnNotSent

LEMMA CancelReturnLedger == ASSUME Ledger, NEW r \in Return, CancelReturn(r) PROVE Ledger'
<1> DEFINE row == [return[r] EXCEPT !.status = "cancelled"]
<1>1. return \in [Return -> ReturnRow]
  BY LedgerRows DEF Ledger
<1>2. row \in ReturnRow /\ row.status # "sent"
  BY <1>1 DEF ReturnRow
<1>3. /\ return[r].status # "sent" /\ return' = [return EXCEPT ![r] = row]
      /\ UNCHANGED <<purchase, fin, valued, moneyVars, onHand, askVars>>
  BY <1>1 DEF CancelReturn
<1> QED BY <1>2, <1>3, ReturnNotSent

-----------------------------------------------------------------------------
(* Steps that move money.                                                  *)

\* A payment that changes, changes the figures by as much.
LEMMA PaidChanges ==
  ASSUME LedgerTypeOK, NEW p \in Payment, NEW row \in PaymentRow, payment' = [payment EXCEPT ![p] = row], NEW source
  PROVE  /\ Paid(source)' = Paid(source) - PaidOf(payment[p], source) + PaidOf(row, source)
         /\ Paid(source) \in Nat /\ PaidOf(payment[p], source) \in Nat /\ PaidOf(row, source) \in Nat
<1>1. payment \in [Payment -> PaymentRow]
  BY LedgerRows
<1>2. Paid(source) \in Nat
  BY <1>1, PaidInFacts, FiguresUnfold
<1>3. PaidOf(payment[p], source) \in Nat /\ PaidOf(row, source) \in Nat
  BY <1>1 DEF PaidOf, PaymentRow
<1>4. Paid(source)' = Paid(source) - PaidOf(payment[p], source) + PaidOf(row, source)
  BY <1>1, PaidInChange, FiguresUnfold
<1> QED BY <1>2, <1>3, <1>4

\* A payment or a credit note of the shop, which the order's total allows
LEMMA MoneyRecorded ==
  ASSUME Ledger, LedgerTypeOK', NEW amount \in Nat, WithinOrderTotal(Total, Settled, amount),
         UNCHANGED <<purchase, returned, refunded, goodsVars, askVars>>, RefreshFinancialStatus,
         Paid({"auto_on_receipt"})' = Paid({"auto_on_receipt"}),
         Paid(AnySource)' + credited' = Paid(AnySource) + credited + amount,
         NoneReversed' => NoneReversed
  PROVE  Ledger'
<1>1. /\ LedgerTypeOK /\ UNCHANGED <<purchase, returned, refunded>> /\ return' = return /\ onHand' = onHand
      /\ refunding' = refunding /\ stale' = stale
  BY DEF Ledger, goodsVars, askVars
<1>2. Total' = Total /\ Value' = Value /\ Ceiling' <= Ceiling /\ Sent' = Sent
  BY <1>1, OrderUnchanged, FiguresUnfold
<1>3. AsksForSomething' /\ FinancialStatusAgrees'
  BY <1>1, StatusRefreshed DEF Ledger, AsksForSomething, LedgerTypeOK
<1>4. ReturnsAddUp'
  BY <1>1, <1>2 DEF Ledger, ReturnsAddUp, SentWithinReceived, ReturnsCredited
<1>5. PICK m \in Nat, a \in Nat, c \in Nat, b \in Nat, r \in Nat, t \in Nat :
        m = Paid({"auto_on_receipt"}) /\ a = Paid(AnySource) /\ c = credited /\ b = returned /\ r = refunded /\ t = Total
  BY <1>1, LedgerRows
<1>6. PICK d \in Nat, e \in Nat : d = Paid(AnySource)' /\ e = credited'
  BY LedgerRowsNext
<1>7. a + c + b - r + amount <= t /\ d + e = a + c + amount
  <2>2. Settled + amount <= Total
    BY DEF WithinOrderTotal
  <2>3. Settled = a + c + b - r
    BY <1>5 DEF Settled
  <2> QED BY <1>5, <1>6, <2>2, <2>3
<1>8. SettledWithinOrder'
  <2>1. d + e - r <= t + m
    BY <1>7
  <2>2. Paid(AnySource)' + credited' - refunded' <= Total' + Paid({"auto_on_receipt"})'
    BY <1>1, <1>2, <1>5, <1>6, <2>1
  <2> QED BY <1>1, <1>2, <2>2 DEF Ledger, SettledWithinOrder, AnySource
<1>9. RefundsWithinDueUnlessUndone'
  <2>1. d + e + b >= a + c + b
    BY <1>7
  <2>2. Paid(AnySource)' + credited' + returned' >= Paid(AnySource) + credited + returned
    BY <1>1, <1>5, <1>6, <2>1
  <2> QED BY <1>1, <1>2, <2>2, RefundsStayDue
<1> QED BY <1>3, <1>4, <1>8, <1>9 DEF Ledger

LEMMA PayLedger == ASSUME Ledger, NEW p \in Payment, NEW amount \in Amount, Pay(p, amount) PROVE Ledger'
<1> DEFINE row == [status |-> "standing", amount |-> amount, source |-> "manual"]
<1>1. amount \in Nat
  BY SupplierLedgerAssumption DEF Amount
<1>2. row \in PaymentRow /\ PaidOf(row, {"auto_on_receipt"}) = 0 /\ PaidOf(row, AnySource) = amount /\ row.status # "reversed"
  BY <1>1 DEF PaymentRow, PaidOf, AnySource
<1>3. /\ payment[p].status = "none" /\ WithinOrderTotal(Total, Settled, amount)
      /\ payment' = [payment EXCEPT ![p] = row]
      /\ UNCHANGED <<purchase, credited, returned, refunded, goodsVars, askVars>> /\ RefreshFinancialStatus
  BY DEF Pay, Inserted
<1> HIDE DEF row
<1>4. LedgerTypeOK /\ payment \in [Payment -> PaymentRow]
  BY LedgerRows DEF Ledger
<1>5. LedgerTypeOK'
  <2>1. payment' \in [Payment -> PaymentRow]
    BY <1>2, <1>3, <1>4
  <2>2. fin' \in {"unpaid", "partial", "paid"} /\ valued' \in 0..purchase'.received
    BY <1>1, <1>3, <1>4, StatusRefreshed DEF LedgerTypeOK
  <2> QED BY <1>3, <1>4, <2>1, <2>2 DEF LedgerTypeOK, goodsVars, askVars, PaymentRow
<1>6. /\ Paid({"auto_on_receipt"})' = Paid({"auto_on_receipt"})
      /\ Paid(AnySource)' + credited' = Paid(AnySource) + credited + amount
  <2>1. PaidOf(payment[p], {"auto_on_receipt"}) = 0 /\ PaidOf(payment[p], AnySource) = 0
    BY <1>3 DEF PaidOf
  <2>2. PICK m \in Nat, a \in Nat, c \in Nat : m = Paid({"auto_on_receipt"}) /\ a = Paid(AnySource) /\ c = credited
    BY <1>4, LedgerRows
  <2>3. Paid({"auto_on_receipt"})' = m - 0 + 0
    BY <1>2, <1>3, <1>4, <2>1, <2>2, PaidChanges
  <2>4. Paid(AnySource)' = a - 0 + amount
    BY <1>2, <1>3, <1>4, <2>1, <2>2, PaidChanges DEF AnySource
  <2> QED BY <1>1, <1>3, <2>2, <2>3, <2>4
<1>7. NoneReversed' => NoneReversed
  BY <1>3, <1>4 DEF NoneReversed
<1> QED BY <1>1, <1>3, <1>5, <1>6, <1>7, MoneyRecorded

LEMMA CreditNoteLedger == ASSUME Ledger, NEW amount \in Amount, CreditNote(amount) PROVE Ledger'
<1>1. amount \in Nat
  BY SupplierLedgerAssumption DEF Amount
<1>2. /\ WithinOrderTotal(Total, Settled, amount) /\ credited' = credited + amount
      /\ UNCHANGED <<purchase, payment, returned, refunded, goodsVars, askVars>> /\ RefreshFinancialStatus
  BY DEF CreditNote
<1>3. LedgerTypeOK /\ credited \in Nat
  BY LedgerRows DEF Ledger
<1>4. LedgerTypeOK'
  <2>1. fin' \in {"unpaid", "partial", "paid"} /\ valued' \in 0..purchase'.received
    BY <1>2, <1>3, StatusRefreshed DEF LedgerTypeOK
  <2> QED BY <1>1, <1>2, <1>3, <2>1 DEF LedgerTypeOK, goodsVars, askVars
<1>5. /\ Paid({"auto_on_receipt"})' = Paid({"auto_on_receipt"})
      /\ Paid(AnySource)' + credited' = Paid(AnySource) + credited + amount
  <2>1. PICK m \in Nat, a \in Nat, c \in Nat : m = Paid({"auto_on_receipt"}) /\ a = Paid(AnySource) /\ c = credited
    BY <1>3, LedgerRows
  <2>2. Paid({"auto_on_receipt"})' = m /\ Paid(AnySource)' = a
    BY <1>2, <2>1, FiguresUnfold DEF AnySource
  <2> QED BY <1>1, <1>2, <2>1, <2>2
<1>6. NoneReversed' => NoneReversed
  BY <1>2 DEF NoneReversed
<1> QED BY <1>1, <1>2, <1>4, <1>5, <1>6, MoneyRecorded

LEMMA ReverseLedger == ASSUME Ledger, NEW p \in Payment, Reverse(p) PROVE Ledger'
<1> DEFINE row == [payment[p] EXCEPT !.status = "reversed"]
<1>1. LedgerTypeOK /\ payment \in [Payment -> PaymentRow]
  BY LedgerRows DEF Ledger
<1>2. /\ row \in PaymentRow /\ row.status = "reversed"
      /\ PaidOf(row, {"auto_on_receipt"}) = 0 /\ PaidOf(row, AnySource) = 0
      /\ PaidOf(payment[p], {"auto_on_receipt"}) <= PaidOf(payment[p], AnySource)
  BY <1>1 DEF PaymentRow, PaidOf, AnySource
<1>3. /\ payment' = [payment EXCEPT ![p] = row] /\ RefreshFinancialStatus
      /\ UNCHANGED <<purchase, credited, returned, refunded, goodsVars, askVars>>
  BY <1>1 DEF Reverse
<1> HIDE DEF row
<1>4. LedgerTypeOK'
  <2>1. payment' \in [Payment -> PaymentRow]
    BY <1>1, <1>2, <1>3
  <2>2. fin' \in {"unpaid", "partial", "paid"} /\ valued' \in 0..purchase'.received
    BY <1>1, <1>3, <1>4, StatusRefreshed DEF LedgerTypeOK
  <2> QED BY <1>1, <1>3, <2>1, <2>2 DEF LedgerTypeOK, goodsVars, askVars, PaymentRow
<1>5. return' = return /\ onHand' = onHand /\ refunding' = refunding
  BY <1>3 DEF goodsVars, askVars
<1>6. ReturnsAddUp' /\ AsksForSomething'
  BY <1>3, <1>5, FiguresUnfold
     DEF Ledger, ReturnsAddUp, SentWithinReceived, ReturnsCredited, AsksForSomething
<1>7. SettledWithinOrder'
  <2>1. PICK m \in Nat, a \in Nat, c \in Nat, r \in Nat, t \in Nat, v \in Nat :
          m = Paid({"auto_on_receipt"}) /\ a = Paid(AnySource) /\ c = credited /\ r = refunded /\ t = Total /\ v = Value
    BY <1>1, LedgerRows
  <2>2. PICK n \in Nat, k \in Nat : n = PaidOf(payment[p], {"auto_on_receipt"}) /\ k = PaidOf(payment[p], AnySource)
    BY <1>1, <1>2, <1>3, PaidChanges
  <2>3. Paid({"auto_on_receipt"})' = m - n + 0 /\ Paid(AnySource)' = a - k + 0
    BY <1>1, <1>2, <1>3, <2>1, <2>2, PaidChanges DEF AnySource
  <2>4. a + c - r <= t + m /\ m <= (IF purchase.terms = "cash" THEN v ELSE 0)
    BY <2>1 DEF Ledger, SettledWithinOrder
  <2>5. a - k + 0 + c - r <= t + (m - n + 0) /\ m - n + 0 <= (IF purchase.terms = "cash" THEN v ELSE 0)
    BY <1>2, <2>2, <2>4
  <2>6. credited' = c /\ refunded' = r /\ Total' = t /\ Value' = v /\ purchase' = purchase
    BY <1>3, <2>1 DEF Total, Value
  <2> QED BY <2>3, <2>5, <2>6 DEF SettledWithinOrder, AnySource
<1>8. RefundsWithinDueUnlessUndone'
  <2>1. payment'[p].status = "reversed"
    BY <1>1, <1>2, <1>3
  <2> QED BY <2>1 DEF RefundsWithinDueUnlessUndone
<1> QED BY <1>1, <1>3, <1>4, <1>6, <1>7, <1>8, StatusRefreshed DEF Ledger, LedgerTypeOK

LEMMA SendReturnLedger == ASSUME Ledger, NEW r \in Return, SendReturn(r) PROVE Ledger'
<1> DEFINE row == [return[r] EXCEPT !.status = "sent"]
<1>1. LedgerTypeOK /\ return \in [Return -> ReturnRow] /\ return[r].quantity \in Nat
  BY LedgerRows DEF Ledger, ReturnRow
<1>2. row \in ReturnRow /\ SentOf(row) = return[r].quantity
  BY <1>1 DEF ReturnRow, SentOf
<1>3. /\ return[r].status = "draft" /\ return' = [return EXCEPT ![r] = row] /\ RefreshFinancialStatus
      /\ onHand' = onHand - return[r].quantity /\ returned' = returned + return[r].quantity
      /\ Sent + return[r].quantity <= Value /\ return[r].quantity <= onHand
      /\ UNCHANGED <<purchase, payment, credited, refunded, askVars>>
  BY <1>1 DEF SendReturn, MaySend, CheckLines, WithinReceived, Value
<1> HIDE DEF row
<1>4. PICK q \in Nat, s \in Nat, v \in Nat, h \in Nat, b \in Nat :
        q = return[r].quantity /\ s = Sent /\ v = Value /\ h = onHand /\ b = returned
  BY <1>1, LedgerRows
<1>5. Sent' = s + q
  <2>1. Sent' = s - SentOf(return[r]) + q
    BY <1>1, <1>2, <1>3, <1>4, SentInChange, FiguresUnfold
  <2>2. SentOf(return[r]) = 0
    BY <1>3 DEF SentOf
  <2> QED BY <2>1, <2>2
<1>6. onHand' = h - q /\ returned' = b + q /\ s + q <= v /\ q <= h
  BY <1>3, <1>4
<1>7. LedgerTypeOK'
  <2>1. return' \in [Return -> ReturnRow]
    BY <1>1, <1>2, <1>3
  <2>2. fin' \in {"unpaid", "partial", "paid"} /\ valued' \in 0..purchase'.received
    BY <1>1, <1>3, <1>4, StatusRefreshed DEF LedgerTypeOK
  <2>3. onHand' \in Nat /\ returned' \in Nat
    BY <1>6
  <2> QED BY <1>1, <1>3, <2>1, <2>2, <2>3 DEF LedgerTypeOK, askVars, ReturnRow
<1>8. Total' = Total /\ Value' = Value /\ Ceiling' <= Ceiling
  BY <1>1, <1>3, OrderUnchanged
<1>9. ReturnsAddUp'
  <2>1. b = s /\ h + s <= OtherStock + v
    BY <1>4 DEF Ledger, ReturnsAddUp, ReturnsCredited, Value
  <2>2. s + q <= v /\ b + q = s + q /\ h - q + (s + q) <= OtherStock + v
    BY <1>6, <2>1, SupplierLedgerAssumption
  <2>3. Value' = v
    BY <1>4, <1>8
  <2> QED BY <1>5, <1>6, <2>2, <2>3 DEF ReturnsAddUp, SentWithinReceived, ReturnsCredited, Value
<1>10. UNCHANGED <<refunding, stale>> /\ \A source : Paid(source)' = Paid(source)
  BY <1>3, FiguresUnfold DEF askVars
<1>11. SettledWithinOrder' /\ AsksForSomething'
  BY <1>3, <1>8, <1>10 DEF Ledger, SettledWithinOrder, AsksForSomething, AnySource
<1>12. RefundsWithinDueUnlessUndone'
  <2>1. PICK a \in Nat, c \in Nat : a = Paid(AnySource) /\ c = credited
    BY <1>1, LedgerRows
  <2>2. Paid(AnySource)' = a /\ credited' = c
    BY <1>3, <1>10, <2>1 DEF AnySource
  <2>3. a + c + (b + q) >= a + c + b
    OBVIOUS
  <2>4. Paid(AnySource)' + credited' + returned' >= Paid(AnySource) + credited + returned
    BY <1>4, <1>6, <2>1, <2>2, <2>3
  <2>5. NoneReversed' => NoneReversed
    BY <1>3 DEF NoneReversed
  <2> QED BY <1>3, <1>7, <1>8, <1>10, <2>4, <2>5, RefundsStayDue
<1> QED BY <1>1, <1>3, <1>7, <1>9, <1>11, <1>12, StatusRefreshed DEF Ledger, LedgerTypeOK

LEMMA RefundLedger == ASSUME Ledger, NEW w \in Clerk, Refund(w) PROVE Ledger'
<1> DEFINE a == refunding[w]
<1>1. /\ LedgerTypeOK /\ refunding \in [Clerk -> [amount : Nat, settled : Int, value : Nat]]
      /\ refunding[w].amount \in Nat
  BY DEF Ledger, LedgerTypeOK
<1>2. /\ refunding[w] # NotAsked /\ refunding[w].amount > 0
      /\ MayRefund(purchase.status, Total, refunding[w].value, refunding[w].settled, refunding[w].amount)
      /\ refunded' = refunded + refunding[w].amount
      /\ refunding' = [refunding EXCEPT ![w] = NotAsked]
      /\ ~stale' => ~stale /\ refunding[w].settled = Settled /\ refunding[w].value = Value
      /\ stale' \in BOOLEAN
      /\ UNCHANGED <<purchase, payment, credited, returned, goodsVars>> /\ RefreshFinancialStatus
  BY DEF Refund, Ledger, AsksForSomething
<1> HIDE DEF a
<1>3. return' = return /\ onHand' = onHand
  BY <1>2 DEF goodsVars
<1>4. LedgerTypeOK'
  <2>1. refunding' \in [Clerk -> [amount : Nat, settled : Int, value : Nat]]
    BY <1>1, <1>2 DEF NotAsked
  <2>2. fin' \in {"unpaid", "partial", "paid"} /\ valued' \in 0..purchase'.received
    BY <1>1, <1>2, StatusRefreshed DEF LedgerTypeOK
  <2>3. refunded' \in Nat
    BY <1>1, <1>2, LedgerRows
  <2> QED BY <1>1, <1>2, <1>3, <2>1, <2>2, <2>3 DEF LedgerTypeOK
<1>5. AsksForSomething'
  BY <1>1, <1>2 DEF Ledger, AsksForSomething
<1>6. ReturnsAddUp'
  BY <1>2, <1>3, FiguresUnfold DEF Ledger, ReturnsAddUp, SentWithinReceived, ReturnsCredited
<1>7. \A source : Paid(source)' = Paid(source)
  BY <1>2, FiguresUnfold
<1>8. PICK m \in Nat, d \in Nat, c \in Nat, b \in Nat, r \in Nat, t \in Nat, n \in Nat :
        /\ m = Paid({"auto_on_receipt"}) /\ d = Paid(AnySource) /\ c = credited /\ b = returned /\ r = refunded
        /\ t = Total /\ n = refunding[w].amount
  BY <1>1, LedgerRows
<1>9. refunded' = r + n /\ n > 0
  BY <1>2, <1>8
<1>10. SettledWithinOrder'
  <2>1. d + c - r <= t + m /\ m <= (IF purchase.terms = "cash" THEN Value ELSE 0)
    BY <1>8 DEF Ledger, SettledWithinOrder
  <2>2. d + c - (r + n) <= t + m
    BY <2>1
  <2>3. /\ Paid({"auto_on_receipt"})' = m /\ Paid(AnySource)' = d /\ credited' = c
        /\ Total' = t /\ Value' = Value /\ purchase' = purchase
    BY <1>2, <1>7, <1>8 DEF Total, Value, AnySource
  <2> QED BY <1>9, <2>1, <2>2, <2>3 DEF SettledWithinOrder, AnySource
<1>11. RefundsWithinDueUnlessUndone'
  <2> SUFFICES ASSUME ~stale' PROVE RefundsWithinDue'
    BY DEF RefundsWithinDueUnlessUndone
  <2>1. PICK k \in Nat : k = Ceiling
    BY <1>1, DueFacts
  <2>2. Settled = d + c + b - r /\ Settled \in Int
    BY <1>8 DEF Settled
  <2>3. n <= Max({0, Settled - k})
    BY <1>2, <1>8, <2>1 DEF MayRefund, RefundDue, Ceiling, RefundCeiling
  <2>4. Max({0, Settled - k}) = IF 0 >= Settled - k THEN 0 ELSE Settled - k
    BY <2>2, MaxOfTwo
  <2>5. n <= d + c + b - r - k
    BY <1>9, <2>2, <2>3, <2>4
  <2>6. r + n <= d + c + b - k
    BY <2>5
  <2>7. Paid(AnySource)' = d /\ credited' = c /\ returned' = b /\ Ceiling' = k
    BY <1>1, <1>2, <1>7, <1>8, <2>1, OrderUnchanged DEF AnySource
  <2>8. refunded' <= Paid(AnySource)' + credited' + returned' - Ceiling'
    BY <1>9, <2>6, <2>7
  <2> QED BY <1>4, <2>8, DueFactsNext
<1> QED BY <1>1, <1>2, <1>4, <1>5, <1>6, <1>10, <1>11, StatusRefreshed DEF Ledger, LedgerTypeOK

\* What arrives, arrives within the order, and nothing less may still come than before.
LEMMA Arrives ==
  ASSUME Ledger, NEW n \in Amount, Receive(n)
  PROVE  /\ n \in Nat
         /\ purchase' \in [status : PoStatus, terms : {"cash", "credit"}, quantity : Amount, received : Nat]
         /\ purchase'.received <= purchase'.quantity /\ purchase'.terms = purchase.terms
         /\ Total' = Total /\ Value' = Value + n /\ Ceiling' <= Ceiling
         /\ onHand' = onHand + n /\ return' = return /\ refunding' = refunding /\ stale' = stale
<1>1. /\ LedgerTypeOK /\ n \in Nat
      /\ purchase \in [status : PoStatus, terms : {"cash", "credit"}, quantity : Amount, received : Nat]
  BY SupplierLedgerAssumption DEF Ledger, LedgerTypeOK, Amount
<1>2. /\ purchase.status \in {"approved", "ordered", "partially_received"}
      /\ purchase.received + n <= purchase.quantity
      /\ onHand' = onHand + n /\ return' = return /\ refunding' = refunding /\ stale' = stale
  BY DEF Receive, CanReceivePo, askVars
<1> DEFINE q == [purchase EXCEPT !.received = @ + n]
           st == StatusAfterReceipt(purchase.quantity, purchase.received + n)
<1>3. /\ q \in [status : PoStatus, terms : {"cash", "credit"}, quantity : Amount, received : Nat]
      /\ q.received = purchase.received + n /\ q.quantity = purchase.quantity /\ q.terms = purchase.terms
  BY <1>1
<1>4. st \in PoStatus /\ (st = "received" => purchase.received + n >= purchase.quantity)
      /\ st \in {"received", "partially_received"}
  BY DEF StatusAfterReceipt, PoStatus
<1>5. purchase' = [q EXCEPT !.status = st]
  BY <1>1 DEF Receive
<1> HIDE DEF q, st
<1>6. /\ purchase' \in [status : PoStatus, terms : {"cash", "credit"}, quantity : Amount, received : Nat]
      /\ purchase'.received = purchase.received + n /\ purchase'.quantity = purchase.quantity
      /\ purchase'.status = st /\ purchase'.terms = purchase.terms
  BY <1>3, <1>4, <1>5
<1>7. Total' = Total /\ Value' = Value + n /\ purchase'.received <= purchase'.quantity
  BY <1>2, <1>6 DEF Total, Value
<1>8. Ceiling = Total
  BY <1>2 DEF Ceiling, RefundCeiling
<1>9. Ceiling' \in {Value', Total'}
  BY DEF Ceiling, RefundCeiling
<1>10. Value' <= Total' /\ Total' = Total /\ Total \in Nat
  BY <1>1, <1>7, LedgerRows DEF Total, Value
<1>11. Ceiling' <= Ceiling
  BY <1>8, <1>9, <1>10
<1> QED BY <1>1, <1>2, <1>6, <1>7, <1>11

LEMMA ReceiveLedger == ASSUME Ledger, NEW n \in Amount, Receive(n) PROVE Ledger'
<1>1. /\ LedgerTypeOK /\ payment \in [Payment -> PaymentRow] /\ n \in Nat /\ Value \in Nat /\ onHand \in Nat
      /\ AsksForSomething'
  BY Arrives, LedgerRows DEF Ledger, AsksForSomething
<1>2. /\ purchase' \in [status : PoStatus, terms : {"cash", "credit"}, quantity : Amount, received : Nat]
      /\ purchase'.received <= purchase'.quantity /\ purchase'.terms = purchase.terms
      /\ Total' = Total /\ Value' = Value + n /\ Ceiling' <= Ceiling
      /\ onHand' = onHand + n /\ return' = return /\ refunding' = refunding /\ stale' = stale
  BY Arrives
<1>3. Sent' = Sent /\ Value' >= Value /\ onHand' + Value <= onHand + Value'
  BY <1>1, <1>2, FiguresUnfold
<1>4. CASE purchase.terms # "cash"
  <2>1. UNCHANGED <<fin, valued, moneyVars>>
    BY <1>4 DEF Receive
  <2>2. LedgerTypeOK'
    <3>1. valued' \in 0..purchase'.received
      BY <1>1, <1>2, <2>1 DEF LedgerTypeOK, Value
    <3>2. onHand' \in Nat
      BY <1>1, <1>2
    <3> QED BY <1>1, <1>2, <2>1, <3>1, <3>2 DEF LedgerTypeOK, moneyVars
  <2> QED BY <1>1, <1>2, <1>3, <1>4, <2>1, <2>2, QuietStep
<1>5. CASE purchase.terms = "cash"
  <2> DEFINE row == [status |-> "standing", amount |-> n, source |-> "auto_on_receipt"]
  <2>1. PICK p \in Payment : payment[p].status = "none" /\ payment' = [payment EXCEPT ![p] = row]
    BY <1>5 DEF Receive, Inserted
  <2>2. UNCHANGED <<credited, returned, refunded>> /\ RefreshFinancialStatus
    BY <1>5 DEF Receive
  <2>3. row \in PaymentRow /\ row.status # "reversed" /\ PaidOf(row, {"auto_on_receipt"}) = n /\ PaidOf(row, AnySource) = n
    BY <1>1 DEF PaymentRow, PaidOf, AnySource
  <2> HIDE DEF row
  <2>4. LedgerTypeOK'
    <3>1. payment' \in [Payment -> PaymentRow]
      BY <1>1, <2>1, <2>3
    <3>2. fin' \in {"unpaid", "partial", "paid"} /\ valued' \in 0..purchase'.received
      BY <1>1, <1>2, <2>2, StatusRefreshed
    <3>3. onHand' \in Nat
      BY <1>1, <1>2
    <3> QED BY <1>1, <1>2, <2>2, <3>1, <3>2, <3>3 DEF LedgerTypeOK, PaymentRow
  <2>5. PICK m \in Nat, a \in Nat, c \in Nat, b \in Nat :
          m = Paid({"auto_on_receipt"}) /\ a = Paid(AnySource) /\ c = credited /\ b = returned
    BY <1>1, LedgerRows
  <2>6. PaidOf(payment[p], {"auto_on_receipt"}) = 0 /\ PaidOf(payment[p], AnySource) = 0
    BY <2>1 DEF PaidOf
  <2>7. Paid({"auto_on_receipt"})' = m + n
    <3>1. Paid({"auto_on_receipt"})' = m - 0 + n
      BY <1>1, <2>1, <2>3, <2>5, <2>6, PaidChanges
    <3> QED BY <3>1
  <2>8. Paid(AnySource)' = a + n
    <3>1. Paid(AnySource)' = a - 0 + n
      BY <1>1, <2>1, <2>3, <2>5, <2>6, PaidChanges DEF AnySource
    <3> QED BY <3>1
  <2>9. ReturnsAddUp'
    <3>1. PICK s \in Int, v \in Int, h \in Int : s = Sent /\ v = Value /\ h = onHand
      BY <1>1, LedgerRows
    <3>2. s <= v /\ b = s /\ h + s <= OtherStock + v
      BY <2>5, <3>1 DEF Ledger, ReturnsAddUp, SentWithinReceived, ReturnsCredited, Value
    <3>3. s <= v + n /\ h + n + s <= OtherStock + (v + n)
      BY <1>1, <3>2, SupplierLedgerAssumption
    <3>4. Sent' = s /\ returned' = b /\ onHand' = h + n /\ Value' = v + n
      BY <1>2, <1>3, <2>2, <2>5, <3>1
    <3> QED BY <3>2, <3>3, <3>4 DEF ReturnsAddUp, SentWithinReceived, ReturnsCredited, Value
  <2>10. SettledWithinOrder'
    <3>1. PICK r \in Nat, t \in Nat, v \in Nat : r = refunded /\ t = Total /\ v = Value
      BY <1>1, LedgerRows
    <3>2. a + c - r <= t + m /\ m <= v
      BY <1>5, <2>5, <3>1 DEF Ledger, SettledWithinOrder
    <3>3. a + n + c - r <= t + (m + n) /\ m + n <= v + n
      BY <1>1, <3>2
    <3>4. credited' = c /\ refunded' = r /\ Total' = t /\ Value' = v + n /\ purchase'.terms = "cash"
      BY <1>2, <1>5, <2>2, <2>5, <3>1
    <3> QED BY <2>7, <2>8, <3>3, <3>4 DEF SettledWithinOrder, AnySource
  <2>11. RefundsWithinDueUnlessUndone'
    <3>1. a + n + c + b >= a + c + b
      BY <1>1
    <3>2. Paid(AnySource)' + credited' + returned' >= Paid(AnySource) + credited + returned
      BY <2>2, <2>5, <2>8, <3>1
    <3>3. NoneReversed' => NoneReversed
      BY <1>1, <2>1, <2>3 DEF NoneReversed
    <3> QED BY <1>2, <2>2, <2>4, <3>2, <3>3, RefundsStayDue
  <2> QED BY <1>1, <1>2, <2>2, <2>4, <2>9, <2>10, <2>11, StatusRefreshed DEF Ledger
<1> QED BY <1>4, <1>5

-----------------------------------------------------------------------------
(* The ledger, always.                                                     *)

LEMMA InitLedger == LedgerInit => Ledger
<1> SUFFICES ASSUME LedgerInit PROVE Ledger
  OBVIOUS
<1>1. LedgerTypeOK /\ AsksForSomething
  <2>1. /\ purchase \in [status : PoStatus, terms : {"cash", "credit"}, quantity : Amount, received : Nat]
        /\ purchase.received = 0 /\ purchase.quantity \in Nat
    BY SupplierLedgerAssumption DEF LedgerInit, PoStatus, Amount
  <2>2. payment \in [Payment -> [status : {"none", "standing", "reversed"}, amount : Nat, source : AnySource]]
    BY DEF LedgerInit, AnySource
  <2>3. return \in [Return -> [status : {"none", "draft", "sent", "cancelled"}, quantity : Nat]]
    BY DEF LedgerInit
  <2>4. refunding \in [Clerk -> [amount : Nat, settled : Int, value : Nat]] /\ AsksForSomething
    BY DEF LedgerInit, NotAsked, AsksForSomething
  <2>5. {credited, returned, refunded, onHand} \subseteq Nat /\ fin \in {"unpaid", "partial", "paid"} /\ stale \in BOOLEAN
        /\ valued \in 0..purchase.received
    <3>1. OtherStock \in Nat
      BY SupplierLedgerAssumption
    <3>2. /\ credited = 0 /\ returned = 0 /\ refunded = 0 /\ onHand = OtherStock
          /\ fin = "unpaid" /\ valued = 0 /\ stale = FALSE
      BY DEF LedgerInit
    <3>3. credited \in Nat /\ returned \in Nat /\ refunded \in Nat /\ onHand \in Nat
      BY <3>1, <3>2
    <3>4. valued \in 0..purchase.received
      BY <2>1, <3>2
    <3>5. {credited, returned, refunded, onHand} \subseteq Nat
      BY <3>3
    <3> QED BY <3>2, <3>4, <3>5
  <2>6. purchase.received <= purchase.quantity
    BY <2>1
  <2> QED BY <2>1, <2>2, <2>3, <2>4, <2>5, <2>6 DEF LedgerTypeOK
<1>2. Sent = 0
  <2> DEFINE f == [r \in Return |-> SentOf(return[r])]
  <2>1. \A r \in Return : f[r] = 0
    BY DEF LedgerInit, SentOf
  <2> HIDE DEF f
  <2>2. SumFunctionOnSet(f, Return) = 0
    BY <2>1, SumZero, LedgerRowsAreFinite
  <2> QED BY <2>2, FiguresUnfold DEF SentIn, f
<1>3. \A source : Paid(source) = 0
  <2> TAKE source
  <2> DEFINE f == [p \in Payment |-> PaidOf(payment[p], source)]
  <2>1. \A p \in Payment : f[p] = 0
    BY DEF LedgerInit, PaidOf
  <2> HIDE DEF f
  <2>2. SumFunctionOnSet(f, Payment) = 0
    BY <2>1, SumZero, LedgerRowsAreFinite
  <2> QED BY <2>2, FiguresUnfold DEF PaidIn, f
<1>4. credited = 0 /\ returned = 0 /\ refunded = 0 /\ onHand = OtherStock /\ fin = "unpaid" /\ purchase.received = 0
  BY DEF LedgerInit
<1>5. Value = 0 /\ Total \in Nat
  BY <1>1, <1>4, LedgerRows DEF Value
<1>6. ReturnsAddUp
  BY <1>2, <1>4, SupplierLedgerAssumption DEF ReturnsAddUp, SentWithinReceived, ReturnsCredited
<1>7. SettledWithinOrder
  BY <1>3, <1>4, <1>5 DEF SettledWithinOrder, AnySource
<1>8. FinancialStatusAgrees
  <2>1. fin = FinancialStatus(valued, Settled) /\ valued = Value
    BY <1>4, <1>5 DEF FinancialStatus, LedgerInit
  <2> QED BY <2>1 DEF FinancialStatusAgrees
<1>9. RefundsWithinDueUnlessUndone
  BY <1>1, <1>4, DueFacts DEF RefundsWithinDueUnlessUndone
<1> QED BY <1>1, <1>6, <1>7, <1>8, <1>9 DEF Ledger

LEMMA LedgerNextKeeps == Ledger /\ [LedgerNext]_ledgerVars => Ledger'
<1> SUFFICES ASSUME Ledger, [LedgerNext]_ledgerVars PROVE Ledger'
  OBVIOUS
<1>1. CASE ProceedOrder
  BY <1>1, ProceedOrderLedger
<1>2. CASE EndOrder
  BY <1>2, EndOrderLedger
<1>4. ASSUME NEW n \in Amount, Receive(n) \/ Sell(n) \/ CreditNote(n) PROVE Ledger'
  BY <1>4, ReceiveLedger, SellLedger, CreditNoteLedger
<1>5. ASSUME NEW p \in Payment, Reverse(p) \/ \E n \in Amount : Pay(p, n) PROVE Ledger'
  BY <1>5, ReverseLedger, PayLedger
<1>6. ASSUME NEW w \in Clerk, (\E n \in Amount : AskRefund(w, n)) \/ Refund(w) \/ RefuseRefund(w) PROVE Ledger'
  BY <1>6, AskRefundLedger, RefundLedger, RefuseRefundLedger
<1>7. ASSUME NEW r \in Return, (\E n \in Amount : DraftReturn(r, n)) \/ SendReturn(r) \/ CancelReturn(r) PROVE Ledger'
  BY <1>7, DraftReturnLedger, SendReturnLedger, CancelReturnLedger
<1>8. CASE UNCHANGED ledgerVars
  <2>1. /\ UNCHANGED <<purchase, fin, valued, moneyVars, goodsVars, stale>> /\ refunding' = refunding
    BY <1>8 DEF ledgerVars, moneyVars, goodsVars
  <2>2. refunding' \in [Clerk -> [amount : Nat, settled : Int, value : Nat]] /\ AsksForSomething'
    BY <2>1 DEF Ledger, LedgerTypeOK, AsksForSomething
  <2> QED BY <2>1, <2>2, AskingLedger
<1> QED BY <1>1, <1>2, <1>4, <1>5, <1>6, <1>7, <1>8 DEF LedgerNext

LEMMA LedgerInductive == LedgerSpec => []Ledger
<1> QED BY InitLedger, LedgerNextKeeps, PTL DEF LedgerSpec

\* Copies sent back to a supplier arrived on its order first, are credited once, and are no
\* longer in the shop (sendReturn, checkLines), however many returns were drafted for them.
THEOREM ReturnsAlwaysAddUp == LedgerSpec => []ReturnsAddUp
<1>1. Ledger => ReturnsAddUp
  BY DEF Ledger
<1> QED BY <1>1, LedgerInductive, PTL

\* All that is paid and credited on an order stays within it (recordPayment,
\* recordCreditNote), but for what an order on cash terms paid for itself as goods arrived,
\* and that is no more than arrived (receive).  The financial status is the one that the money
\* there is and what had arrived when it was last set call for, and on cash terms it was set
\* for all that has arrived (refreshFinancialStatus).
THEOREM PaymentsStayWithinOrder == LedgerSpec => []PaymentsWithinOrder
<1>1. Ledger => PaymentsWithinOrder
  BY DEF Ledger, PaymentsWithinOrder
<1> QED BY <1>1, LedgerInductive, PTL

\* A supplier pays back at most what it was paid beyond the order's value, but for refunds
\* recorded over old figures and payments reversed afterwards (recordRefund, reversePayment).
THEOREM RefundsStayWithinDue == LedgerSpec => []RefundsWithinDueUnlessUndone
<1>1. Ledger => RefundsWithinDueUnlessUndone
  BY DEF Ledger
<1> QED BY <1>1, LedgerInductive, PTL

===============================================================================
