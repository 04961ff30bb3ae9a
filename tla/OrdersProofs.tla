----------------------------- MODULE OrdersProofs -----------------------------
(***************************************************************************)
(* A customer order never loses a copy or a coin: theorems about Orders,   *)
(* the model of modules/orders, modules/payments and modules/receivables.  *)
(*                                                                         *)
(* Two inductive invariants carry them.  IInv is about the copies: of      *)
(* every order, the lines, the reservation rows, the status and the debt   *)
(* tell one story (Sound), and an order that fulfill() has read with       *)
(* nothing waiting is done already.  MInv is about the money: of every     *)
(* order, the payments, the stored payment status, the points and the debt *)
(* tell one story (Paying), and what the drawer and the accounts hold is   *)
(* what all the orders book.                                               *)
(*                                                                         *)
(* A step writes one order, its payments and its reservation rows, so each *)
(* use case is split in three: what it writes, field by field (PaidRow and *)
(* PayDoes, say), that it keeps the copies right (PayKeeps) and that it    *)
(* keeps the money right (PayPays).  OneOrderWritten and OneOrderPays take *)
(* these from the one order to all of them, with the sums of SumTheorems.  *)
(***************************************************************************)
EXTENDS Orders, SumTheorems, TLAPS

-----------------------------------------------------------------------------
(* The operators.                                                          *)

LEMMA CopiesUnfold ==
  ASSUME NEW lines, NEW b, NEW field
  PROVE  Copies(lines, b, field)
           = SumFunctionOnSet([i \in DOMAIN lines |-> IF lines[i].book = b THEN lines[i][field] ELSE 0], DOMAIN lines)
  BY DEF Copies, SumFunction

LEMMA TotalUnfold ==
  ASSUME NEW lines
  PROVE  Total(lines)
           = SumFunctionOnSet([i \in DOMAIN lines |-> lines[i].quantity * Price[lines[i].book]], DOMAIN lines)
  BY DEF Total, SumFunction

LEMMA PaidUnfold ==
  ASSUME NEW ps
  PROVE  /\ Paid(ps) = SumFunctionOnSet([i \in DOMAIN ps |-> ps[i].amount], DOMAIN ps)
         /\ Refunded(ps) = SumFunctionOnSet([i \in DOMAIN ps |-> ps[i].refunded], DOMAIN ps)
  BY DEF Paid, Refunded, SumFunction

Fields == {"quantity", "waiting", "delivered"}

LEMMA FieldsAreNumbers ==
  ASSUME NEW l \in Line, NEW field \in Fields PROVE l[field] \in Nat
<1>1. l.quantity \in Nat /\ l.waiting \in Nat /\ l.delivered \in Nat
  BY DEF Line
<1> QED BY <1>1 DEF Fields

LEMMA CopiesNumber ==
  ASSUME NEW lines \in Seq(Line), NEW b, NEW field \in Fields
  PROVE  Copies(lines, b, field) \in Nat
<1> DEFINE f == [i \in DOMAIN lines |-> IF lines[i].book = b THEN lines[i][field] ELSE 0]
<1>1. \A i \in DOMAIN lines : f[i] \in Nat
  BY PositionsFinite, FieldsAreNumbers
<1> HIDE DEF f
<1>2. IsFiniteSet(DOMAIN lines)
  BY PositionsFinite
<1>3. SumFunctionOnSet(f, DOMAIN lines) \in Nat
  BY <1>1, <1>2, SumNatural
<1> QED BY <1>3, CopiesUnfold DEF f

\* Two lists of lines that say the same have the same copies.
LEMMA CopiesSame ==
  ASSUME NEW lines \in Seq(Line), NEW others \in Seq(Line), NEW b,
         NEW field \in Fields, NEW field2 \in Fields, DOMAIN others = DOMAIN lines,
         \A i \in DOMAIN lines : others[i].book = lines[i].book /\ others[i][field2] = lines[i][field]
  PROVE  Copies(others, b, field2) = Copies(lines, b, field)
<1> DEFINE f == [i \in DOMAIN lines |-> IF lines[i].book = b THEN lines[i][field] ELSE 0]
           g == [i \in DOMAIN others |-> IF others[i].book = b THEN others[i][field2] ELSE 0]
<1>1. \A i \in DOMAIN lines : g[i] = f[i]
  OBVIOUS
<1> HIDE DEF f, g
<1>2. IsFiniteSet(DOMAIN lines)
  BY PositionsFinite
<1>3. SumFunctionOnSet(g, DOMAIN lines) = SumFunctionOnSet(f, DOMAIN lines)
  BY <1>1, <1>2, SumEqual
<1> QED BY <1>3, CopiesUnfold DEF f, g

LEMMA CopiesNone ==
  ASSUME NEW lines \in Seq(Line), NEW b, NEW field \in Fields,
         \A i \in DOMAIN lines : lines[i][field] = 0
  PROVE  Copies(lines, b, field) = 0
<1> DEFINE f == [i \in DOMAIN lines |-> IF lines[i].book = b THEN lines[i][field] ELSE 0]
<1>1. \A i \in DOMAIN lines : f[i] = 0
  OBVIOUS
<1> HIDE DEF f
<1>2. IsFiniteSet(DOMAIN lines)
  BY PositionsFinite
<1>3. SumFunctionOnSet(f, DOMAIN lines) = 0
  BY <1>1, <1>2, SumZero
<1> QED BY <1>3, CopiesUnfold DEF f

\* The copies of a book among those handed over
HandedOf(lines, handed, b) ==
  SumFunctionOnSet([i \in DOMAIN lines |-> IF lines[i].book = b THEN handed[i] ELSE 0], DOMAIN lines)

LEMMA CopiesHanded ==
  ASSUME NEW lines \in Seq(Line), NEW others \in Seq(Line), NEW b, NEW handed,
         DOMAIN others = DOMAIN lines,
         \A i \in DOMAIN lines :
           /\ handed[i] \in Nat
           /\ others[i].book = lines[i].book
           /\ lines[i].waiting = others[i].waiting + handed[i]
           /\ others[i].delivered = lines[i].delivered + handed[i]
  PROVE  /\ HandedOf(lines, handed, b) \in Nat
         /\ Copies(lines, b, "waiting") = Copies(others, b, "waiting") + HandedOf(lines, handed, b)
         /\ Copies(others, b, "delivered") = Copies(lines, b, "delivered") + HandedOf(lines, handed, b)
<1> DEFINE h == [i \in DOMAIN lines |-> IF lines[i].book = b THEN handed[i] ELSE 0]
           w == [i \in DOMAIN lines |-> IF lines[i].book = b THEN lines[i]["waiting"] ELSE 0]
           d == [i \in DOMAIN lines |-> IF lines[i].book = b THEN lines[i]["delivered"] ELSE 0]
           w2 == [i \in DOMAIN others |-> IF others[i].book = b THEN others[i]["waiting"] ELSE 0]
           d2 == [i \in DOMAIN others |-> IF others[i].book = b THEN others[i]["delivered"] ELSE 0]
<1>1. \A i \in DOMAIN lines : /\ lines[i].waiting \in Nat /\ lines[i].delivered \in Nat
                              /\ others[i].waiting \in Nat /\ others[i].delivered \in Nat
  <2>1. \A l \in Line : l.waiting \in Nat /\ l.delivered \in Nat
    BY DEF Line
  <2> QED BY <2>1, PositionsFinite
<1>2. \A i \in DOMAIN lines : /\ h[i] \in Nat /\ h[i] \in Int
                              /\ w[i] \in Int /\ d[i] \in Int /\ w2[i] \in Int /\ d2[i] \in Int
                              /\ w[i] = w2[i] + h[i] /\ d2[i] = d[i] + h[i]
  BY <1>1
<1>3. /\ HandedOf(lines, handed, b) = SumFunctionOnSet(h, DOMAIN lines)
      /\ Copies(lines, b, "waiting") = SumFunctionOnSet(w, DOMAIN lines)
      /\ Copies(lines, b, "delivered") = SumFunctionOnSet(d, DOMAIN lines)
      /\ Copies(others, b, "waiting") = SumFunctionOnSet(w2, DOMAIN lines)
      /\ Copies(others, b, "delivered") = SumFunctionOnSet(d2, DOMAIN lines)
  BY CopiesUnfold DEF HandedOf
<1> HIDE DEF h, w, d, w2, d2
<1>4. IsFiniteSet(DOMAIN lines)
  BY PositionsFinite
<1>5. SumFunctionOnSet(h, DOMAIN lines) \in Nat
  BY <1>2, <1>4, SumNatural
<1>6. SumFunctionOnSet(w, DOMAIN lines) = SumFunctionOnSet(w2, DOMAIN lines) + SumFunctionOnSet(h, DOMAIN lines)
  BY <1>2, <1>4, SumPlus
<1>7. SumFunctionOnSet(d2, DOMAIN lines) = SumFunctionOnSet(d, DOMAIN lines) + SumFunctionOnSet(h, DOMAIN lines)
  BY <1>2, <1>4, SumPlus
<1> QED BY <1>3, <1>5, <1>6, <1>7

LEMMA TotalSame ==
  ASSUME NEW lines \in Seq(Line), NEW others \in Seq(Line), DOMAIN others = DOMAIN lines,
         \A i \in DOMAIN lines : others[i].book = lines[i].book /\ others[i].quantity = lines[i].quantity
  PROVE  Total(others) = Total(lines)
<1> DEFINE f == [i \in DOMAIN lines |-> lines[i].quantity * Price[lines[i].book]]
           g == [i \in DOMAIN others |-> others[i].quantity * Price[others[i].book]]
<1>1. \A i \in DOMAIN lines : g[i] = f[i]
  OBVIOUS
<1> HIDE DEF f, g
<1>2. IsFiniteSet(DOMAIN lines)
  BY PositionsFinite
<1>3. SumFunctionOnSet(g, DOMAIN lines) = SumFunctionOnSet(f, DOMAIN lines)
  BY <1>1, <1>2, SumEqual
<1> QED BY <1>3, TotalUnfold DEF f, g

LEMMA TotalNumber ==
  ASSUME NEW lines \in Seq(Line)
  PROVE  Total(lines) \in Nat /\ (lines # <<>> => Total(lines) > 0)
<1> DEFINE f == [i \in DOMAIN lines |-> lines[i].quantity * Price[lines[i].book]]
<1>1. ASSUME NEW i \in DOMAIN lines PROVE f[i] \in Nat /\ f[i] > 0
  <2>1. lines[i] \in Line
    BY PositionsFinite
  <2>2. lines[i].quantity \in Nat \ {0} /\ lines[i].book \in Book
    BY <2>1 DEF Line
  <2>3. Price[lines[i].book] \in Nat \ {0}
    BY <2>2, OrdersAssumption
  <2>4. \A m, n \in Nat \ {0} : m * n \in Nat /\ m * n > 0
    OBVIOUS
  <2> QED BY <2>2, <2>3, <2>4
<1>2. Total(lines) = SumFunctionOnSet(f, DOMAIN lines)
  BY TotalUnfold
<1> HIDE DEF f
<1>3. IsFiniteSet(DOMAIN lines) /\ DOMAIN lines = 1..Len(lines)
  BY PositionsFinite
<1>4. SumFunctionOnSet(f, DOMAIN lines) \in Nat
  BY <1>1, <1>3, SumNatural
<1>5. ASSUME lines # <<>> PROVE Total(lines) > 0
  <2>1. 1 \in DOMAIN lines
    BY <1>3, <1>5
  <2>2. f[1] <= SumFunctionOnSet(f, DOMAIN lines)
    BY <1>1, <1>3, <2>1, SumMember
  <2>3. f[1] \in Nat /\ f[1] > 0
    BY <1>1, <2>1
  <2> QED BY <1>2, <1>4, <2>2, <2>3
<1> QED BY <1>2, <1>4, <1>5

LEMMA NothingOrdered == Total(<<>>) = 0 /\ \A b \in Book, field \in Fields : Copies(<<>>, b, field) = 0
<1>1. \A f : SumFunctionOnSet(f, {}) = 0
  BY SumEmpty
<1>2. DOMAIN <<>> = {}
  OBVIOUS
<1>3. Total(<<>>) = 0
  BY <1>1, <1>2, TotalUnfold
<1>4. ASSUME NEW b \in Book, NEW field \in Fields PROVE Copies(<<>>, b, field) = 0
  BY <1>1, <1>2, CopiesUnfold
<1> QED BY <1>3, <1>4

-----------------------------------------------------------------------------
(* Payments.                                                               *)

\* Payments that gave back no more than they brought
Payments == {ps \in Seq(Payment) : \A i \in DOMAIN ps : ps[i].refunded <= ps[i].amount}

LEMMA PaymentFacts ==
  ASSUME NEW ps \in Payments
  PROVE  /\ IsFiniteSet(DOMAIN ps) /\ DOMAIN ps = 1..Len(ps) /\ Len(ps) \in Nat
         /\ \A i \in DOMAIN ps : /\ ps[i] \in Payment /\ ps[i].method \in PaymentMethods
                                 /\ ps[i].amount \in Nat /\ ps[i].amount > 0
                                 /\ ps[i].refunded \in Nat /\ ps[i].refunded <= ps[i].amount
<1>1. ps \in Seq(Payment) /\ Len(ps) \in Nat
  BY DEF Payments
<1>2. IsFiniteSet(DOMAIN ps) /\ DOMAIN ps = 1..Len(ps) /\ \A i \in DOMAIN ps : ps[i] \in Payment
  BY <1>1, PositionsFinite
<1>3. \A p \in Payment : /\ p.method \in PaymentMethods
                         /\ p.amount \in Nat /\ p.amount > 0 /\ p.refunded \in Nat
  BY DEF Payment
<1>4. \A i \in DOMAIN ps : ps[i].refunded <= ps[i].amount
  BY DEF Payments
<1> QED BY <1>1, <1>2, <1>3, <1>4

LEMMA PaidNumbers ==
  ASSUME NEW ps \in Payments
  PROVE  /\ Paid(ps) \in Nat /\ Refunded(ps) \in Nat /\ Refunded(ps) <= Paid(ps)
         /\ NetPaid(ps) \in Nat /\ NetPaid(ps) = Paid(ps) - Refunded(ps)
         /\ Paid(ps) > 0 <=> ps # <<>>
<1> DEFINE a == [i \in DOMAIN ps |-> ps[i].amount]
           f == [i \in DOMAIN ps |-> ps[i].refunded]
<1>1. \A i \in DOMAIN ps : /\ a[i] \in Nat /\ f[i] \in Nat /\ a[i] \in Int /\ f[i] \in Int
                           /\ f[i] <= a[i] /\ a[i] > 0
  BY PaymentFacts
<1>2. Paid(ps) = SumFunctionOnSet(a, DOMAIN ps) /\ Refunded(ps) = SumFunctionOnSet(f, DOMAIN ps)
  BY PaidUnfold
<1> HIDE DEF a, f
<1>3. IsFiniteSet(DOMAIN ps) /\ DOMAIN ps = 1..Len(ps) /\ Len(ps) \in Nat
  BY PaymentFacts
<1>4. SumFunctionOnSet(a, DOMAIN ps) \in Nat
  BY <1>1, <1>3, SumNatural
<1>5. SumFunctionOnSet(f, DOMAIN ps) \in Nat
  BY <1>1, <1>3, SumNatural
<1>6. SumFunctionOnSet(f, DOMAIN ps) <= SumFunctionOnSet(a, DOMAIN ps)
  BY <1>1, <1>3, SumAtMost
<1>7. ASSUME ps # <<>> PROVE Paid(ps) > 0
  <2>1. ps \in Seq(Payment)
    BY DEF Payments
  <2>2. 1 \in DOMAIN ps
    BY <1>3, <1>7, <2>1
  <2>3. a[1] <= SumFunctionOnSet(a, DOMAIN ps)
    BY <1>1, <1>3, <2>2, SumMember
  <2>4. a[1] \in Nat /\ a[1] > 0
    BY <1>1, <2>2
  <2> QED BY <1>2, <1>4, <2>3, <2>4
<1>8. ASSUME ps = <<>> PROVE Paid(ps) = 0
  <2>1. DOMAIN ps = {}
    BY <1>8
  <2> QED BY <1>2, <2>1, SumEmpty
<1> QED BY <1>2, <1>4, <1>5, <1>6, <1>7, <1>8 DEF NetPaid

LEMMA NothingPaid == <<>> \in Payments /\ Paid(<<>>) = 0 /\ Refunded(<<>>) = 0 /\ NetPaid(<<>>) = 0
<1>1. <<>> \in Payments
  BY DEF Payments
<1>2. \A f : SumFunctionOnSet(f, {}) = 0
  BY SumEmpty
<1>3. Paid(<<>>) = 0 /\ Refunded(<<>>) = 0
  <2>1. DOMAIN <<>> = {}
    OBVIOUS
  <2>2. /\ Paid(<<>>) = SumFunctionOnSet([i \in DOMAIN <<>> |-> <<>>[i].amount], DOMAIN <<>>)
        /\ Refunded(<<>>) = SumFunctionOnSet([i \in DOMAIN <<>> |-> <<>>[i].refunded], DOMAIN <<>>)
    BY PaidUnfold, Zenon
  <2> QED BY <1>2, <2>1, <2>2
<1> QED BY <1>1, <1>3 DEF NetPaid

\* One payment more
LEMMA PaidMore ==
  ASSUME NEW ps \in Payments, NEW p \in Payment, p.refunded = 0
  PROVE  /\ Append(ps, p) \in Payments /\ Append(ps, p) # <<>>
         /\ Paid(Append(ps, p)) = Paid(ps) + p.amount
         /\ Refunded(Append(ps, p)) = Refunded(ps)
         /\ NetPaid(Append(ps, p)) = NetPaid(ps) + p.amount
<1> DEFINE qs == Append(ps, p)
           n == Len(ps) + 1
           a == [i \in DOMAIN ps |-> ps[i].amount]
           f == [i \in DOMAIN ps |-> ps[i].refunded]
           a2 == [i \in DOMAIN qs |-> qs[i].amount]
           f2 == [i \in DOMAIN qs |-> qs[i].refunded]
<1>1. ps \in Seq(Payment) /\ p.amount \in Nat /\ p.refunded <= p.amount
  BY DEF Payments, Payment
<1>2. DOMAIN ps = 1..Len(ps) /\ Len(ps) \in Nat
  BY PaymentFacts
<1>3. qs \in Seq(Payment) /\ qs # <<>> /\ DOMAIN qs = 1..n /\ qs[n] = p /\ \A i \in DOMAIN ps : qs[i] = ps[i]
  BY <1>1, <1>2
<1>4. qs \in Payments
  <2>1. \A i \in DOMAIN qs : i = n \/ i \in DOMAIN ps
    BY <1>2, <1>3
  <2>2. \A i \in DOMAIN qs : qs[i].refunded <= qs[i].amount
    BY <1>1, <1>3, <2>1, PaymentFacts
  <2> QED BY <1>3, <2>2 DEF Payments
<1>5. n \in DOMAIN qs /\ DOMAIN qs \ {n} = DOMAIN ps
  BY <1>2, <1>3
<1>6. IsFiniteSet(DOMAIN qs) /\ IsFiniteSet(DOMAIN ps)
  BY <1>4, PaymentFacts
<1>7. \A i \in DOMAIN qs : a2[i] \in Int /\ f2[i] \in Int
  <2> HIDE DEF qs
  <2>1. \A i \in DOMAIN qs : qs[i].amount \in Int /\ qs[i].refunded \in Int
    BY <1>4, PaymentFacts
  <2> QED BY <2>1
<1>8. a2[n] = p.amount /\ f2[n] = 0 /\ \A i \in DOMAIN ps : a2[i] = a[i] /\ f2[i] = f[i]
  BY <1>3, <1>5
<1>9. /\ Paid(ps) = SumFunctionOnSet(a, DOMAIN ps) /\ Refunded(ps) = SumFunctionOnSet(f, DOMAIN ps)
      /\ Paid(qs) = SumFunctionOnSet(a2, DOMAIN qs) /\ Refunded(qs) = SumFunctionOnSet(f2, DOMAIN qs)
  BY PaidUnfold
<1> HIDE DEF qs, n, a, f, a2, f2
<1>10. SumFunctionOnSet(a2, DOMAIN qs) = a2[n] + SumFunctionOnSet(a2, DOMAIN ps)
  BY <1>5, <1>6, <1>7, SumTakeOut
<1>11. SumFunctionOnSet(f2, DOMAIN qs) = f2[n] + SumFunctionOnSet(f2, DOMAIN ps)
  BY <1>5, <1>6, <1>7, SumTakeOut
<1>12. SumFunctionOnSet(a2, DOMAIN ps) = SumFunctionOnSet(a, DOMAIN ps)
  BY <1>6, <1>8, SumEqual
<1>13. SumFunctionOnSet(f2, DOMAIN ps) = SumFunctionOnSet(f, DOMAIN ps)
  BY <1>6, <1>8, SumEqual
<1>14. Paid(ps) \in Nat /\ Refunded(ps) \in Nat
  BY PaidNumbers
<1>15. Paid(qs) = Paid(ps) + p.amount /\ Refunded(qs) = Refunded(ps)
  BY <1>8, <1>9, <1>10, <1>11, <1>12, <1>13, <1>14, <1>1
<1>16. NetPaid(qs) = NetPaid(ps) + p.amount
  BY <1>1, <1>14, <1>15 DEF NetPaid
<1> QED BY <1>3, <1>4, <1>15, <1>16 DEF qs

\* A part of one payment given back
BackOne(ps, i, amount) == [ps EXCEPT ![i].refunded = @ + amount]

LEMMA PaidBack ==
  ASSUME NEW ps \in Payments, NEW i \in DOMAIN ps, NEW amount \in Nat, NEW qs,
         ps[i].refunded + amount <= ps[i].amount,
         qs = BackOne(ps, i, amount)
  PROVE  /\ qs \in Payments /\ DOMAIN qs = DOMAIN ps
         /\ \A j \in DOMAIN ps : qs[j].method = ps[j].method
         /\ Paid(qs) = Paid(ps) /\ Refunded(qs) = Refunded(ps) + amount
         /\ NetPaid(qs) = NetPaid(ps) - amount
<1> DEFINE a == [j \in DOMAIN ps |-> ps[j].amount]
           f == [j \in DOMAIN ps |-> ps[j].refunded]
           a2 == [j \in DOMAIN qs |-> qs[j].amount]
           f2 == [j \in DOMAIN qs |-> qs[j].refunded]
<1>1. ps \in Seq(Payment)
  BY DEF Payments
<1>2. ps[i] \in Payment /\ ps[i].refunded \in Nat /\ ps[i].amount \in Nat
  BY PaymentFacts
<1>3. PICK p : p = [ps[i] EXCEPT !.refunded = @ + amount]
  OBVIOUS
<1>4. p \in Payment /\ p.method = ps[i].method /\ p.amount = ps[i].amount /\ p.refunded = ps[i].refunded + amount
  BY <1>2, <1>3 DEF Payment
<1>5. qs = [ps EXCEPT ![i] = p]
  BY <1>3 DEF BackOne
<1>6. /\ qs \in Seq(Payment) /\ DOMAIN qs = DOMAIN ps
      /\ qs[i] = p /\ \A j \in DOMAIN ps \ {i} : qs[j] = ps[j]
  BY <1>1, <1>4, <1>5
<1>7. qs \in Payments
  <2>1. \A j \in DOMAIN qs : qs[j].refunded <= qs[j].amount
    BY <1>4, <1>6, PaymentFacts
  <2> QED BY <1>6, <2>1 DEF Payments
<1>8. \A j \in DOMAIN ps : /\ qs[j].method = ps[j].method /\ a2[j] = a[j]
                           /\ f[j] \in Int /\ f2[j] \in Int
  <2>1. \A j \in DOMAIN ps : qs[j].method = ps[j].method /\ qs[j].amount = ps[j].amount
    BY <1>4, <1>6
  <2>2. \A j \in DOMAIN ps : ps[j].refunded \in Int
    BY PaymentFacts
  <2>3. \A j \in DOMAIN ps : qs[j].refunded \in Int
    BY <1>6, <1>7, PaymentFacts
  <2> QED BY <1>6, <2>1, <2>2, <2>3
<1>9. f2[i] = f[i] + amount /\ \A j \in DOMAIN ps \ {i} : f2[j] = f[j]
  BY <1>4, <1>6
<1>10. /\ Paid(ps) = SumFunctionOnSet(a, DOMAIN ps) /\ Refunded(ps) = SumFunctionOnSet(f, DOMAIN ps)
       /\ Paid(qs) = SumFunctionOnSet(a2, DOMAIN ps) /\ Refunded(qs) = SumFunctionOnSet(f2, DOMAIN ps)
  <2>1. Paid(ps) = SumFunctionOnSet(a, DOMAIN ps) /\ Refunded(ps) = SumFunctionOnSet(f, DOMAIN ps)
    BY PaidUnfold
  <2>2. Paid(qs) = SumFunctionOnSet(a2, DOMAIN qs) /\ Refunded(qs) = SumFunctionOnSet(f2, DOMAIN qs)
    BY ONLY PaidUnfold
  <2>3. DOMAIN qs = DOMAIN ps
    BY <1>6
  <2> HIDE DEF a, f, a2, f2
  <2> QED BY <2>1, <2>2, <2>3
<1> HIDE DEF a, f, a2, f2
<1>11. IsFiniteSet(DOMAIN ps)
  BY PaymentFacts
<1>12. SumFunctionOnSet(a2, DOMAIN ps) = SumFunctionOnSet(a, DOMAIN ps)
  BY <1>8, <1>11, SumEqual
<1>13. SumFunctionOnSet(f2, DOMAIN ps) = SumFunctionOnSet(f, DOMAIN ps) - f[i] + f2[i]
  BY <1>8, <1>9, <1>11, SumChange
<1>14. Paid(ps) \in Nat /\ Refunded(ps) \in Nat /\ f[i] \in Int
  BY <1>8, PaidNumbers
<1>15. Paid(qs) = Paid(ps) /\ Refunded(qs) = Refunded(ps) + amount
  BY <1>9, <1>10, <1>12, <1>13, <1>14
<1>16. NetPaid(qs) = NetPaid(ps) - amount
  BY <1>14, <1>15 DEF NetPaid
<1> QED BY <1>6, <1>7, <1>8, <1>15, <1>16

\* Everything given back
AllBack(ps) == [i \in DOMAIN ps |-> [ps[i] EXCEPT !.refunded = ps[i].amount]]

LEMMA AllPaidBack ==
  ASSUME NEW ps \in Payments
  PROVE  /\ AllBack(ps) \in Payments /\ DOMAIN AllBack(ps) = DOMAIN ps
         /\ \A i \in DOMAIN ps : AllBack(ps)[i].method = ps[i].method
         /\ Paid(AllBack(ps)) = Paid(ps) /\ Refunded(AllBack(ps)) = Paid(ps)
         /\ NetPaid(AllBack(ps)) = 0
<1> DEFINE qs == AllBack(ps)
           a == [j \in DOMAIN ps |-> ps[j].amount]
           a2 == [j \in DOMAIN qs |-> qs[j].amount]
           f2 == [j \in DOMAIN qs |-> qs[j].refunded]
<1>1. DOMAIN ps = 1..Len(ps) /\ Len(ps) \in Nat /\ IsFiniteSet(DOMAIN ps)
  BY PaymentFacts
<1>2. ASSUME NEW p \in Payment
      PROVE  LET q == [p EXCEPT !.refunded = p.amount]
             IN q \in Payment /\ q.method = p.method /\ q.amount = p.amount /\ q.refunded = p.amount
  BY DEF Payment
<1>3. DOMAIN qs = DOMAIN ps /\ \A i \in DOMAIN ps : /\ qs[i] \in Payment /\ qs[i].method = ps[i].method
                                                    /\ qs[i].amount = ps[i].amount /\ qs[i].refunded = ps[i].amount
  BY <1>2, PaymentFacts DEF AllBack
<1>4. qs \in Seq(Payment)
  <2>1. qs = [i \in 1..Len(ps) |-> qs[i]]
    BY <1>1 DEF AllBack
  <2> HIDE DEF qs
  <2>2. qs \in [1..Len(ps) -> Payment]
    BY <1>1, <1>3, <2>1
  <2> QED BY <1>1, <2>2
<1>5. qs \in Payments
  <2> HIDE DEF qs
  <2>1. \A i \in DOMAIN ps : ps[i].amount \in Nat
    BY PaymentFacts
  <2> QED BY <1>3, <1>4, <2>1 DEF Payments
<1>6. \A i \in DOMAIN ps : a2[i] = a[i] /\ f2[i] = a[i]
  <2> HIDE DEF qs
  <2> QED BY <1>3
<1>7. /\ Paid(ps) = SumFunctionOnSet(a, DOMAIN ps)
      /\ Paid(qs) = SumFunctionOnSet(a2, DOMAIN ps) /\ Refunded(qs) = SumFunctionOnSet(f2, DOMAIN ps)
  <2> HIDE DEF qs
  <2> QED BY <1>3, PaidUnfold
<1> HIDE DEF qs, a, a2, f2
<1>8. SumFunctionOnSet(a2, DOMAIN ps) = SumFunctionOnSet(a, DOMAIN ps)
  BY <1>1, <1>6, SumEqual
<1>9. SumFunctionOnSet(f2, DOMAIN ps) = SumFunctionOnSet(a, DOMAIN ps)
  BY <1>1, <1>6, SumEqual
<1>10. Paid(ps) \in Nat
  BY PaidNumbers
<1>11. NetPaid(qs) = 0
  BY <1>7, <1>8, <1>9, <1>10 DEF NetPaid
<1> QED BY <1>3, <1>5, <1>7, <1>8, <1>9, <1>11 DEF qs

\* Of payments that net nothing, each was given back whole.
LEMMA NothingLeft ==
  ASSUME NEW ps \in Payments, NetPaid(ps) = 0, NEW i \in DOMAIN ps
  PROVE  ps[i].refunded = ps[i].amount
<1> DEFINE a == [j \in DOMAIN ps |-> ps[j].amount]
           f == [j \in DOMAIN ps |-> ps[j].refunded]
           d == [j \in DOMAIN ps |-> ps[j].amount - ps[j].refunded]
<1>1. \A j \in DOMAIN ps : a[j] \in Int /\ f[j] \in Int /\ d[j] \in Int /\ d[j] \in Nat /\ a[j] = f[j] + d[j]
  BY PaymentFacts
<1>2. Paid(ps) = SumFunctionOnSet(a, DOMAIN ps) /\ Refunded(ps) = SumFunctionOnSet(f, DOMAIN ps)
  BY PaidUnfold
<1>3. d[i] = ps[i].amount - ps[i].refunded
  OBVIOUS
<1> HIDE DEF a, f, d
<1>4. IsFiniteSet(DOMAIN ps)
  BY PaymentFacts
<1>5. SumFunctionOnSet(a, DOMAIN ps) = SumFunctionOnSet(f, DOMAIN ps) + SumFunctionOnSet(d, DOMAIN ps)
  BY <1>1, <1>4, SumPlus
<1>6. d[i] <= SumFunctionOnSet(d, DOMAIN ps)
  BY <1>1, <1>4, SumMember
<1>7. SumFunctionOnSet(d, DOMAIN ps) \in Nat
  BY <1>1, <1>4, SumNatural
<1>8. Paid(ps) \in Nat /\ Refunded(ps) \in Nat /\ Paid(ps) - Refunded(ps) = 0
  BY PaidNumbers
<1>9. d[i] \in Nat /\ ps[i].amount \in Nat /\ ps[i].refunded \in Nat
  BY <1>1, PaymentFacts
<1>10. SumFunctionOnSet(d, DOMAIN ps) = 0
  BY <1>2, <1>5, <1>7, <1>8
<1> QED BY <1>3, <1>6, <1>9, <1>10

-----------------------------------------------------------------------------
(* The drawer and the customers' accounts.                                 *)

Accounts == [drawer : Int, credit : [Customer -> Int], points : [Customer -> Int]]

\* What came into the drawer, and left the accounts of the customers
Holdings(f) ==
  f.drawer + SumFunctionOnSet([c \in Customer |-> InitialCredit - f.credit[c] + InitialPoints - f.points[c]], Customer)

LEMMA HoldingsChange ==
  ASSUME NEW f \in Accounts, NEW g \in Accounts, NEW c \in Customer, NEW d \in Int,
         \A x \in Customer \ {c} : g.credit[x] = f.credit[x] /\ g.points[x] = f.points[x],
         g.credit[c] + g.points[c] = f.credit[c] + f.points[c] - d,
         g.drawer = f.drawer
  PROVE  Holdings(g) = Holdings(f) + d
<1> DEFINE s == [x \in Customer |-> InitialCredit - f.credit[x] + InitialPoints - f.points[x]]
           t == [x \in Customer |-> InitialCredit - g.credit[x] + InitialPoints - g.points[x]]
<1>1. InitialCredit \in Int /\ InitialPoints \in Int /\ IsFiniteSet(Customer)
  BY OrdersAssumption
<1>2. /\ f.drawer \in Int
      /\ \A x \in Customer : /\ f.credit[x] \in Int /\ f.points[x] \in Int
                             /\ g.credit[x] \in Int /\ g.points[x] \in Int
  BY DEF Accounts
<1>3. \A x \in Customer : s[x] \in Int /\ t[x] \in Int
  BY <1>1, <1>2
<1>4. \A x \in Customer \ {c} : t[x] = s[x]
  OBVIOUS
<1>5. t[c] = s[c] + d
  <2>1. PICK a \in Int, b \in Int, p \in Int, q \in Int :
          a = f.credit[c] /\ b = f.points[c] /\ p = g.credit[c] /\ q = g.points[c]
    BY <1>2
  <2>2. p + q = a + b - d
    BY <2>1
  <2>3. s[c] = InitialCredit - a + InitialPoints - b /\ t[c] = InitialCredit - p + InitialPoints - q
    BY <2>1
  <2> HIDE DEF s, t
  <2> QED BY <1>1, <2>2, <2>3
<1> HIDE DEF s, t
<1>6. SumFunctionOnSet(t, Customer) = SumFunctionOnSet(s, Customer) - s[c] + t[c]
  <2>1. IsFiniteSet(Customer)
    BY <1>1
  <2>2. t[c] \in Int /\ \A x \in Customer : s[x] \in Int
    BY <1>3
  <2> QED BY <2>1, <2>2, <1>4, SumChange
<1>7. SumFunctionOnSet(s, Customer) \in Int
  BY <1>1, <1>3, SumInteger
<1>8. s[c] \in Int
  BY <1>3
<1>9. SumFunctionOnSet(t, Customer) = SumFunctionOnSet(s, Customer) + d
  BY <1>5, <1>6, <1>7, <1>8
<1> QED BY <1>2, <1>7, <1>9 DEF Holdings, s, t

LEMMA HoldingsNumber ==
  ASSUME NEW f \in Accounts PROVE Holdings(f) \in Int
<1> DEFINE s == [x \in Customer |-> InitialCredit - f.credit[x] + InitialPoints - f.points[x]]
<1>1. InitialCredit \in Int /\ InitialPoints \in Int /\ IsFiniteSet(Customer)
  BY OrdersAssumption
<1>2. f.drawer \in Int /\ \A x \in Customer : f.credit[x] \in Int /\ f.points[x] \in Int
  BY DEF Accounts
<1>3. \A x \in Customer : s[x] \in Int
  BY <1>1, <1>2
<1> HIDE DEF s
<1>4. SumFunctionOnSet(s, Customer) \in Int
  BY <1>1, <1>3, SumInteger
<1> QED BY <1>2, <1>4 DEF Holdings, s

\* An amount taken from the customer's credit, from their points, and points they earn
FromCredit(f, c, d) == [f EXCEPT !.credit[c] = @ - d]
FromPoints(f, c, d) == [f EXCEPT !.points[c] = @ - d]
WithPoints(f, c, d) == [f EXCEPT !.points[c] = @ + d]

LEMMA CreditDown ==
  ASSUME NEW f \in Accounts, NEW c \in Customer, NEW d \in Int, NEW g, g = FromCredit(f, c, d)
  PROVE  /\ g \in Accounts /\ g.points = f.points /\ g.credit = [f.credit EXCEPT ![c] = @ - d]
         /\ Holdings(g) = Holdings(f) + d
<1>0. f.drawer \in Int /\ f.credit \in [Customer -> Int] /\ f.points \in [Customer -> Int]
  BY DEF Accounts
<1>1. PICK k : k = [f.credit EXCEPT ![c] = @ - d]
  OBVIOUS
<1>2. k \in [Customer -> Int] /\ k[c] = f.credit[c] - d /\ \A x \in Customer \ {c} : k[x] = f.credit[x]
  BY <1>0, <1>1
<1>3. g = [f EXCEPT !.credit = k]
  BY <1>1 DEF FromCredit
<1>4. g \in Accounts /\ g.points = f.points /\ g.credit = k /\ g.drawer = f.drawer
  BY <1>2, <1>3 DEF Accounts
<1>5. g.credit[c] + g.points[c] = f.credit[c] + f.points[c] - d
  <2>1. PICK a \in Int, b \in Int : a = f.credit[c] /\ b = f.points[c]
    BY <1>0
  <2>2. g.credit[c] = a - d /\ g.points[c] = b
    BY <1>2, <1>4, <2>1
  <2>3. (a - d) + b = (a + b) - d
    BY <2>1
  <2> QED BY <2>1, <2>2, <2>3
<1>6. \A x \in Customer \ {c} : g.credit[x] = f.credit[x] /\ g.points[x] = f.points[x]
  BY <1>2, <1>4
<1>7. g \in Accounts /\ g.drawer = f.drawer
  BY <1>4
<1>8. Holdings(g) = Holdings(f) + d
  BY <1>5, <1>6, <1>7, HoldingsChange
<1> QED BY <1>1, <1>4, <1>8

LEMMA PointsDown ==
  ASSUME NEW f \in Accounts, NEW c \in Customer, NEW d \in Int, NEW g, g = FromPoints(f, c, d)
  PROVE  /\ g \in Accounts /\ g.credit = f.credit /\ g.points = [f.points EXCEPT ![c] = @ - d]
         /\ Holdings(g) = Holdings(f) + d
<1>0. f.drawer \in Int /\ f.credit \in [Customer -> Int] /\ f.points \in [Customer -> Int]
  BY DEF Accounts
<1>1. PICK k : k = [f.points EXCEPT ![c] = @ - d]
  OBVIOUS
<1>2. k \in [Customer -> Int] /\ k[c] = f.points[c] - d /\ \A x \in Customer \ {c} : k[x] = f.points[x]
  BY <1>0, <1>1
<1>3. g = [f EXCEPT !.points = k]
  BY <1>1 DEF FromPoints
<1>4. g \in Accounts /\ g.credit = f.credit /\ g.points = k /\ g.drawer = f.drawer
  BY <1>2, <1>3 DEF Accounts
<1>5. g.credit[c] + g.points[c] = f.credit[c] + f.points[c] - d
  <2>1. PICK a \in Int, b \in Int : a = f.credit[c] /\ b = f.points[c]
    BY <1>0
  <2>2. g.credit[c] = a /\ g.points[c] = b - d
    BY <1>2, <1>4, <2>1
  <2>3. a + (b - d) = (a + b) - d
    BY <2>1
  <2> QED BY <2>1, <2>2, <2>3
<1>6. \A x \in Customer \ {c} : g.credit[x] = f.credit[x] /\ g.points[x] = f.points[x]
  BY <1>2, <1>4
<1>7. g \in Accounts /\ g.drawer = f.drawer
  BY <1>4
<1>8. Holdings(g) = Holdings(f) + d
  BY <1>5, <1>6, <1>7, HoldingsChange
<1> QED BY <1>1, <1>4, <1>8

LEMMA PointsUp ==
  ASSUME NEW f \in Accounts, NEW c \in Customer, NEW d \in Int, NEW g, g = WithPoints(f, c, d)
  PROVE  /\ g \in Accounts /\ g.credit = f.credit /\ g.points = [f.points EXCEPT ![c] = @ + d]
         /\ Holdings(g) = Holdings(f) - d
<1>0. f.drawer \in Int /\ f.credit \in [Customer -> Int] /\ f.points \in [Customer -> Int]
  BY DEF Accounts
<1>1. f.points[c] \in Int /\ Holdings(f) \in Int
  BY <1>0, HoldingsNumber
<1>2. PICK e \in Int : e = -d
  OBVIOUS
<1>3. f.points[c] + d = f.points[c] - e /\ Holdings(f) - d = Holdings(f) + e
  BY <1>1, <1>2
<1>4. g = FromPoints(f, c, e)
  BY <1>3 DEF FromPoints, WithPoints
<1>5. /\ g \in Accounts /\ g.credit = f.credit /\ g.points = [f.points EXCEPT ![c] = @ - e]
      /\ Holdings(g) = Holdings(f) + e
  BY <1>4, PointsDown
<1> QED BY <1>3, <1>5

\* Money that comes in, or goes back
LEMMA MoneyInFacts ==
  ASSUME NEW f \in Accounts, NEW method \in PaymentMethods, NEW c \in Customer \cup {NoCustomer}, NEW d \in Int
  PROVE  /\ MoneyIn(f, method, c, d) \in Accounts
         /\ \A x \in Customer :
              /\ MoneyIn(f, method, c, d).credit[x]
                   = IF method = "store_credit" /\ x = c THEN f.credit[x] - d ELSE f.credit[x]
              /\ MoneyIn(f, method, c, d).points[x]
                   = IF method = "loyalty_points" /\ x = c THEN f.points[x] - d ELSE f.points[x]
         /\ method = "cash" \/ c # NoCustomer
              => Holdings(MoneyIn(f, method, c, d)) = Holdings(f) + d
<1>0. PICK g : g = MoneyIn(f, method, c, d)
  OBVIOUS
<1>1. f.drawer \in Int /\ f.credit \in [Customer -> Int] /\ f.points \in [Customer -> Int] /\ NoCustomer \notin Customer
  BY OrdersAssumption DEF Accounts
<1>2. CASE method = "cash"
  <2>1. PICK n \in Int : n = f.drawer + d
    BY <1>1
  <2>2. g = [f EXCEPT !.drawer = n]
    BY <1>0, <1>2, <2>1 DEF MoneyIn
  <2>3. g \in Accounts /\ g.credit = f.credit /\ g.points = f.points /\ g.drawer = n
    BY <2>2 DEF Accounts
  <2>4. PICK r : r = SumFunctionOnSet([x \in Customer |-> InitialCredit - f.credit[x] + InitialPoints - f.points[x]], Customer)
    OBVIOUS
  <2>5. Holdings(g) = n + r /\ Holdings(f) = f.drawer + r
    BY <2>3, <2>4 DEF Holdings
  <2>6. r \in Int
    <3> DEFINE s == [x \in Customer |-> InitialCredit - f.credit[x] + InitialPoints - f.points[x]]
    <3>1. InitialCredit \in Int /\ InitialPoints \in Int /\ IsFiniteSet(Customer)
      BY OrdersAssumption
    <3>2. \A x \in Customer : s[x] \in Int
      BY <1>1, <3>1
    <3>3. r = SumFunctionOnSet(s, Customer)
      BY <2>4
    <3> HIDE DEF s
    <3> QED BY <3>1, <3>2, <3>3, SumInteger
  <2>7. Holdings(g) = Holdings(f) + d
    BY <1>1, <2>1, <2>5, <2>6
  <2> QED BY <1>0, <1>2, <2>3, <2>7
<1>3. CASE method # "cash" /\ c = NoCustomer
  <2>1. g = f
    BY <1>0, <1>3 DEF MoneyIn
  <2> QED BY <1>0, <1>1, <1>3, <2>1
<1>4. CASE method = "store_credit" /\ c \in Customer
  <2>1. g = FromCredit(f, c, d)
    BY <1>0, <1>1, <1>4 DEF MoneyIn, FromCredit
  <2>2. g \in Accounts /\ g.points = f.points /\ g.credit = [f.credit EXCEPT ![c] = @ - d] /\ Holdings(g) = Holdings(f) + d
    BY <1>4, <2>1, CreditDown
  <2>3. \A x \in Customer : g.credit[x] = IF x = c THEN f.credit[x] - d ELSE f.credit[x]
    BY <1>1, <2>2
  <2> QED BY <1>0, <1>4, <2>2, <2>3
<1>5. CASE method = "loyalty_points" /\ c \in Customer
  <2>1. g = FromPoints(f, c, d)
    BY <1>0, <1>1, <1>5 DEF MoneyIn, FromPoints
  <2>2. g \in Accounts /\ g.credit = f.credit /\ g.points = [f.points EXCEPT ![c] = @ - d] /\ Holdings(g) = Holdings(f) + d
    BY <1>5, <2>1, PointsDown
  <2>3. \A x \in Customer : g.points[x] = IF x = c THEN f.points[x] - d ELSE f.points[x]
    BY <1>1, <2>2
  <2> QED BY <1>0, <1>5, <2>2, <2>3
<1> QED BY <1>2, <1>3, <1>4, <1>5 DEF PaymentMethods

Funds == [drawer : Int, credit : [Customer -> Nat], points : [Customer -> Nat]]

LEMMA FundsAreAccounts ==
  ASSUME NEW f
  PROVE  f \in Funds <=> f \in Accounts /\ \A c \in Customer : f.credit[c] >= 0 /\ f.points[c] >= 0
<1>1. ASSUME f \in Funds PROVE f \in Accounts /\ \A c \in Customer : f.credit[c] >= 0 /\ f.points[c] >= 0
  <2>1. f.drawer \in Int /\ f.credit \in [Customer -> Nat] /\ f.points \in [Customer -> Nat]
    BY <1>1 DEF Funds
  <2>2. f.credit \in [Customer -> Int] /\ f.points \in [Customer -> Int]
    BY <2>1
  <2>3. f = [drawer |-> f.drawer, credit |-> f.credit, points |-> f.points]
    BY <1>1 DEF Funds
  <2> QED BY <2>1, <2>2, <2>3 DEF Accounts
<1>2. ASSUME f \in Accounts, \A c \in Customer : f.credit[c] >= 0 /\ f.points[c] >= 0 PROVE f \in Funds
  <2>1. f.drawer \in Int /\ f.credit \in [Customer -> Int] /\ f.points \in [Customer -> Int]
    BY <1>2 DEF Accounts
  <2>2. f.credit \in [Customer -> Nat] /\ f.points \in [Customer -> Nat]
    BY <1>2, <2>1
  <2>3. f = [drawer |-> f.drawer, credit |-> f.credit, points |-> f.points]
    BY <1>2 DEF Accounts
  <2> QED BY <2>1, <2>2, <2>3 DEF Funds
<1> QED BY <1>1, <1>2

\* What the payments still hold that goes back by one method
OpenBy(ps, refundTo, method) ==
  SumFunctionOnSet([i \in DOMAIN ps |->
    IF (IF refundTo = "store_credit" THEN "store_credit" ELSE ps[i].method) = method
    THEN ps[i].amount - ps[i].refunded ELSE 0], DOMAIN ps)

LEMMA OpenFacts ==
  ASSUME NEW ps \in Payments, NEW refundTo
  PROVE  /\ \A method \in PaymentMethods : OpenBy(ps, refundTo, method) \in Nat
         /\ OpenBy(ps, refundTo, "cash") + OpenBy(ps, refundTo, "store_credit")
              + OpenBy(ps, refundTo, "loyalty_points") = NetPaid(ps)
         /\ (refundTo # "store_credit" /\ \A i \in DOMAIN ps : ps[i].method = "cash")
              => OpenBy(ps, refundTo, "store_credit") = 0 /\ OpenBy(ps, refundTo, "loyalty_points") = 0
<1> DEFINE By(i) == IF refundTo = "store_credit" THEN "store_credit" ELSE ps[i].method
           of(method) == [i \in DOMAIN ps |-> IF By(i) = method THEN ps[i].amount - ps[i].refunded ELSE 0]
           a == [i \in DOMAIN ps |-> ps[i].amount]
           f == [i \in DOMAIN ps |-> ps[i].refunded]
           d == [i \in DOMAIN ps |-> ps[i].amount - ps[i].refunded]
           ch == of("cash")
           sc == of("store_credit")
           lp == of("loyalty_points")
           cs == [i \in DOMAIN ps |-> ch[i] + sc[i]]
<1>1. IsFiniteSet(DOMAIN ps)
  BY PaymentFacts
<1>2. ASSUME NEW method \in PaymentMethods PROVE OpenBy(ps, refundTo, method) \in Nat
  <2> DEFINE g == of(method)
  <2>1. \A i \in DOMAIN ps : g[i] \in Nat
    BY PaymentFacts
  <2>2. OpenBy(ps, refundTo, method) = SumFunctionOnSet(g, DOMAIN ps)
    BY DEF OpenBy
  <2> HIDE DEF g
  <2> QED BY <1>1, <2>1, <2>2, SumNatural
<1>3. \A i \in DOMAIN ps : By(i) \in {"cash", "store_credit", "loyalty_points"}
  BY PaymentFacts DEF PaymentMethods
<1>4. \A i \in DOMAIN ps : /\ a[i] \in Int /\ f[i] \in Int /\ d[i] \in Int /\ a[i] = f[i] + d[i]
                           /\ ch[i] \in Int /\ sc[i] \in Int /\ lp[i] \in Int
  BY PaymentFacts
<1>5. \A i \in DOMAIN ps : cs[i] \in Int /\ cs[i] = ch[i] + sc[i] /\ d[i] = cs[i] + lp[i]
  <2>1. ASSUME NEW i \in DOMAIN ps PROVE cs[i] \in Int /\ cs[i] = ch[i] + sc[i] /\ d[i] = cs[i] + lp[i]
    <3>1. PICK n \in Int : n = ps[i].amount - ps[i].refunded
      BY PaymentFacts
    <3>2. /\ d[i] = n /\ cs[i] = ch[i] + sc[i]
          /\ ch[i] = (IF By(i) = "cash" THEN n ELSE 0)
          /\ sc[i] = (IF By(i) = "store_credit" THEN n ELSE 0)
          /\ lp[i] = (IF By(i) = "loyalty_points" THEN n ELSE 0)
      BY <3>1
    <3> HIDE DEF By, of, d, ch, sc, lp, cs
    <3> QED BY <1>3, <3>2
  <2> QED BY <2>1
<1>6. /\ Paid(ps) = SumFunctionOnSet(a, DOMAIN ps) /\ Refunded(ps) = SumFunctionOnSet(f, DOMAIN ps)
  BY PaidUnfold
<1>7. /\ OpenBy(ps, refundTo, "cash") = SumFunctionOnSet(ch, DOMAIN ps)
      /\ OpenBy(ps, refundTo, "store_credit") = SumFunctionOnSet(sc, DOMAIN ps)
      /\ OpenBy(ps, refundTo, "loyalty_points") = SumFunctionOnSet(lp, DOMAIN ps)
  BY DEF OpenBy
<1>8. (refundTo # "store_credit" /\ \A i \in DOMAIN ps : ps[i].method = "cash")
        => \A i \in DOMAIN ps : sc[i] = 0 /\ lp[i] = 0
  OBVIOUS
<1> HIDE DEF By, of, a, f, d, ch, sc, lp, cs
<1>9. SumFunctionOnSet(a, DOMAIN ps) = SumFunctionOnSet(f, DOMAIN ps) + SumFunctionOnSet(d, DOMAIN ps)
  BY <1>1, <1>4, SumPlus
<1>10. SumFunctionOnSet(cs, DOMAIN ps) = SumFunctionOnSet(ch, DOMAIN ps) + SumFunctionOnSet(sc, DOMAIN ps)
  BY <1>1, <1>4, <1>5, SumPlus
<1>11. SumFunctionOnSet(d, DOMAIN ps) = SumFunctionOnSet(cs, DOMAIN ps) + SumFunctionOnSet(lp, DOMAIN ps)
  BY <1>1, <1>4, <1>5, SumPlus
<1>12. SumFunctionOnSet(d, DOMAIN ps) \in Int
  BY <1>1, <1>4, SumInteger
<1>13. Paid(ps) \in Nat /\ Refunded(ps) \in Nat /\ NetPaid(ps) = Paid(ps) - Refunded(ps)
  BY PaidNumbers
<1>14. NetPaid(ps) = SumFunctionOnSet(d, DOMAIN ps)
  BY <1>6, <1>9, <1>12, <1>13
<1>15. ASSUME refundTo # "store_credit", \A i \in DOMAIN ps : ps[i].method = "cash"
       PROVE  OpenBy(ps, refundTo, "store_credit") = 0 /\ OpenBy(ps, refundTo, "loyalty_points") = 0
  <2>1. \A i \in DOMAIN ps : sc[i] = 0
    BY <1>8, <1>15
  <2>2. \A i \in DOMAIN ps : lp[i] = 0
    BY <1>8, <1>15
  <2>3. SumFunctionOnSet(sc, DOMAIN ps) = 0
    BY <1>1, <2>1, SumZero
  <2>4. SumFunctionOnSet(lp, DOMAIN ps) = 0
    BY <1>1, <2>2, SumZero
  <2> QED BY <1>7, <2>3, <2>4
<1>16. OpenBy(ps, refundTo, "cash") + OpenBy(ps, refundTo, "store_credit")
         + OpenBy(ps, refundTo, "loyalty_points") = NetPaid(ps)
  BY <1>7, <1>10, <1>11, <1>14
<1> QED BY <1>2, <1>15, <1>16

\* A cancellation gives everything back.
LEMMA MoneyReturnedFacts ==
  ASSUME NEW f \in Funds, NEW c \in Customer \cup {NoCustomer}, NEW ps \in Payments, NEW refundTo
  PROVE  /\ MoneyReturned(f, c, ps, refundTo) \in Funds
         /\ \/ c # NoCustomer
            \/ refundTo # "store_credit" /\ \A i \in DOMAIN ps : ps[i].method = "cash"
            => Holdings(MoneyReturned(f, c, ps, refundTo)) = Holdings(f) - NetPaid(ps)
<1>1. PICK ch \in Nat, sc \in Nat, lp \in Nat :
        /\ ch = OpenBy(ps, refundTo, "cash") /\ sc = OpenBy(ps, refundTo, "store_credit")
        /\ lp = OpenBy(ps, refundTo, "loyalty_points")
  BY OpenFacts DEF PaymentMethods
<1>2. PICK g : g = MoneyIn(f, "cash", c, -ch)
  OBVIOUS
<1>3. PICK h : h = MoneyIn(g, "store_credit", c, -sc)
  OBVIOUS
<1>4. PICK k : k = MoneyIn(h, "loyalty_points", c, -lp)
  OBVIOUS
<1>5. k = MoneyReturned(f, c, ps, refundTo)
  <2> DEFINE By(method) == IF refundTo = "store_credit" THEN "store_credit" ELSE method
             Open(method) == SumFunction([i \in DOMAIN ps |->
                               IF By(ps[i].method) = method THEN ps[i].amount - ps[i].refunded ELSE 0])
  <2>1. Open("cash") = ch /\ Open("store_credit") = sc /\ Open("loyalty_points") = lp
    BY <1>1 DEF SumFunction, OpenBy
  <2>2. MoneyReturned(f, c, ps, refundTo)
          = MoneyIn(MoneyIn(MoneyIn(f, "cash", c, -Open("cash")),
                     "store_credit", c, -Open("store_credit")), "loyalty_points", c, -Open("loyalty_points"))
    BY DEF MoneyReturned
  <2> HIDE DEF Open
  <2> QED BY <1>2, <1>3, <1>4, <2>1, <2>2
<1>6. f \in Accounts /\ \A x \in Customer : f.credit[x] >= 0 /\ f.points[x] >= 0
  BY FundsAreAccounts
<1>7. PICK mc \in Int, ms \in Int, ml \in Int : mc = -ch /\ ms = -sc /\ ml = -lp
  BY <1>1
<1>8. /\ g \in Accounts /\ Holdings(g) = Holdings(f) + mc
      /\ \A x \in Customer : g.credit[x] = f.credit[x] /\ g.points[x] = f.points[x]
  <2>1. "cash" \in PaymentMethods /\ g = MoneyIn(f, "cash", c, mc)
    BY <1>2, <1>7 DEF PaymentMethods
  <2>2. f \in Accounts
    BY <1>6
  <2>3. g \in Accounts /\ Holdings(g) = Holdings(f) + mc
    BY <2>1, <2>2, MoneyInFacts
  <2>4. \A x \in Customer : /\ g.credit[x] = (IF "cash" = "store_credit" /\ x = c THEN f.credit[x] - mc ELSE f.credit[x])
                            /\ g.points[x] = (IF "cash" = "loyalty_points" /\ x = c THEN f.points[x] - mc ELSE f.points[x])
    BY <2>1, <2>2, MoneyInFacts
  <2> QED BY <2>3, <2>4
<1>9. /\ h \in Accounts /\ (c # NoCustomer => Holdings(h) = Holdings(g) + ms)
      /\ \A x \in Customer : /\ h.credit[x] = (IF x = c THEN g.credit[x] - ms ELSE g.credit[x])
                             /\ h.points[x] = g.points[x]
  <2>1. "store_credit" \in PaymentMethods /\ h = MoneyIn(g, "store_credit", c, ms)
    BY <1>3, <1>7 DEF PaymentMethods
  <2>2. g \in Accounts
    BY <1>8
  <2> QED BY <2>1, <2>2, MoneyInFacts
<1>10. /\ k \in Accounts /\ (c # NoCustomer => Holdings(k) = Holdings(h) + ml)
       /\ \A x \in Customer : /\ k.credit[x] = h.credit[x]
                              /\ k.points[x] = (IF x = c THEN h.points[x] - ml ELSE h.points[x])
  <2>1. "loyalty_points" \in PaymentMethods /\ k = MoneyIn(h, "loyalty_points", c, ml)
    BY <1>4, <1>7 DEF PaymentMethods
  <2>2. h \in Accounts
    BY <1>9
  <2> QED BY <2>1, <2>2, MoneyInFacts
<1>11. ASSUME NEW x \in Customer PROVE k.credit[x] >= 0 /\ k.points[x] >= 0
  <2>1. PICK p \in Int, q \in Int : p = f.credit[x] /\ q = f.points[x] /\ p >= 0 /\ q >= 0
    BY <1>6 DEF Accounts
  <2>2. k.credit[x] = (IF x = c THEN p - ms ELSE p) /\ k.points[x] = (IF x = c THEN q - ml ELSE q)
    BY <1>8, <1>9, <1>10, <2>1
  <2> QED BY <1>1, <1>7, <2>1, <2>2
<1>12. k \in Funds
  BY <1>10, <1>11, FundsAreAccounts
<1>13. ch + sc + lp = NetPaid(ps)
  BY <1>1, OpenFacts
<1>14. Holdings(f) \in Int
  BY <1>6, HoldingsNumber
<1>15. ASSUME c # NoCustomer PROVE Holdings(k) = Holdings(f) - NetPaid(ps)
  BY <1>1, <1>7, <1>8, <1>9, <1>10, <1>13, <1>14, <1>15
<1>16. ASSUME c = NoCustomer, refundTo # "store_credit", \A i \in DOMAIN ps : ps[i].method = "cash"
       PROVE  Holdings(k) = Holdings(f) - NetPaid(ps)
  <2>1. sc = 0 /\ lp = 0
    BY <1>1, <1>16, OpenFacts
  <2>2. k = g
    BY <1>3, <1>4, <1>16 DEF MoneyIn
  <2> QED BY <1>1, <1>7, <1>8, <1>13, <1>14, <2>1, <2>2
<1> QED BY <1>5, <1>12, <1>15, <1>16

\* The points an order earns
Earning(f, c, e) == IF c = NoCustomer THEN f ELSE WithPoints(f, c, e)

LEMMA EarningFacts ==
  ASSUME NEW f \in Funds, NEW c \in Customer \cup {NoCustomer}, NEW e \in Nat, c = NoCustomer => e = 0
  PROVE  Earning(f, c, e) \in Funds /\ Holdings(Earning(f, c, e)) = Holdings(f) - e
<1>1. f \in Accounts /\ \A x \in Customer : f.credit[x] >= 0 /\ f.points[x] >= 0
  BY FundsAreAccounts
<1>2. Holdings(f) \in Int
  BY <1>1, HoldingsNumber
<1>3. CASE c = NoCustomer
  BY <1>2, <1>3 DEF Earning
<1>4. CASE c \in Customer
  <2>1. NoCustomer \notin Customer
    BY OrdersAssumption
  <2>2. PICK g : g = WithPoints(f, c, e)
    OBVIOUS
  <2>3. Earning(f, c, e) = g
    BY <1>4, <2>1, <2>2 DEF Earning
  <2>4. /\ g \in Accounts /\ g.credit = f.credit /\ g.points = [f.points EXCEPT ![c] = @ + e]
        /\ Holdings(g) = Holdings(f) - e
    BY <1>1, <1>4, <2>2, PointsUp
  <2>5. f.points \in [Customer -> Int]
    BY <1>1 DEF Accounts
  <2>6. \A x \in Customer : g.credit[x] >= 0 /\ g.points[x] >= 0
    BY <1>1, <2>4, <2>5
  <2> QED BY <2>3, <2>4, <2>6, FundsAreAccounts
<1> QED BY <1>3, <1>4

-----------------------------------------------------------------------------
(* What is owed.                                                           *)

LEMMA OutstandingIs ==
  ASSUME NEW total \in Nat, NEW ps \in Payments
  PROVE  Outstanding(total, ps) = IF NetPaid(ps) <= total THEN total - NetPaid(ps) ELSE 0
<1>1. PICK n \in Nat : n = NetPaid(ps)
  BY PaidNumbers
<1>2. Max({0, total - n}) = IF 0 >= total - n THEN 0 ELSE total - n
  BY <1>1, LargerOf
<1> QED BY <1>1, <1>2 DEF Outstanding

SaleTypes == {"cash_sale", "credit_sale"}
PayStatuses == {"unpaid", "partial", "paid", "refunded"}

\* A payment status that agrees with the payments
StatusAgrees(saleType, payStatus, total, ps) ==
  LET refundedCash == saleType = "cash_sale" /\ ps # <<>> /\ NetPaid(ps) = 0
  IN /\ payStatus = "refunded" <=> refundedCash
     /\ payStatus = "paid" <=> NetPaid(ps) >= total
     /\ payStatus = "unpaid" <=> NetPaid(ps) = 0 /\ ~refundedCash

LEMMA PaymentStatusIs ==
  ASSUME NEW saleType \in SaleTypes, NEW total \in Nat, NEW ps \in Payments
  PROVE  /\ PaymentStatus(saleType, total, ps) \in PayStatuses
         /\ PaymentStatus(saleType, total, ps)
              = IF saleType # "credit_sale" /\ Paid(ps) > 0 /\ Refunded(ps) >= Paid(ps) THEN "refunded"
                ELSE IF NetPaid(ps) >= total THEN "paid" ELSE IF NetPaid(ps) > 0 THEN "partial" ELSE "unpaid"
<1>1. PICK s : s = PaymentStatus(saleType, total, ps)
  OBVIOUS
<1>2. s = IF saleType # "credit_sale" /\ Paid(ps) > 0 /\ Refunded(ps) >= Paid(ps) THEN "refunded"
          ELSE IF NetPaid(ps) >= total THEN "paid" ELSE IF NetPaid(ps) > 0 THEN "partial" ELSE "unpaid"
  BY <1>1 DEF PaymentStatus
<1>3. s \in PayStatuses
  BY <1>2 DEF PayStatuses
<1> QED BY <1>1, <1>2, <1>3

LEMMA PaymentStatusFacts ==
  ASSUME NEW saleType \in SaleTypes, NEW total \in Nat, total > 0, NEW ps \in Payments
  PROVE  StatusAgrees(saleType, PaymentStatus(saleType, total, ps), total, ps)
<1>1. PICK p \in Nat, f \in Nat : p = Paid(ps) /\ f = Refunded(ps) /\ f <= p /\ NetPaid(ps) = p - f
  BY PaidNumbers
<1>2. ps # <<>> <=> p > 0
  BY <1>1, PaidNumbers
<1>3. PICK s : s = PaymentStatus(saleType, total, ps)
  OBVIOUS
<1>4. s = IF saleType # "credit_sale" /\ p > 0 /\ f >= p THEN "refunded"
          ELSE IF p - f >= total THEN "paid" ELSE IF p - f > 0 THEN "partial" ELSE "unpaid"
  BY <1>1, <1>3, PaymentStatusIs
<1>5. StatusAgrees(saleType, s, total, ps)
  BY <1>1, <1>2, <1>4 DEF StatusAgrees, SaleTypes
<1> QED BY <1>3, <1>5

Statuses == {"NONE", "DRAFT", "CONFIRMED", "PART_DELIVERED", "COMPLETED", "CANCELLED", "DELETED"}
DebtStatuses == {"None", "Pending", "PartiallyPaid", "Overdue", "Settled", "WrittenOff", "Cancelled"}

\* The debt of an order in a status, of a total of which net was paid
DebtTells(status, saleType, debt, total, net) ==
  /\ IsOpen(debt) <=> debt.outstanding > 0
  /\ debt.status = "None" => debt.outstanding = 0 /\ debt.original = 0
  /\ debt.status # "None" => debt.original > 0 /\ saleType = "credit_sale"
  /\ debt.status = "Cancelled" => status = "CANCELLED"
  /\ status = "CANCELLED" => net = 0 /\ ~IsOpen(debt)
  /\ (/\ status \in {"CONFIRMED", "PART_DELIVERED", "COMPLETED"}
      /\ saleType = "credit_sale" /\ debt.status # "WrittenOff")
       => LET owed == IF net <= total THEN total - net ELSE 0
          IN debt.outstanding = owed \/ (debt.outstanding = debt.original /\ debt.original < owed)

LEMMA DebtFields ==
  ASSUME NEW debt \in Debt
  PROVE  debt.status \in DebtStatuses /\ debt.original \in Nat /\ debt.outstanding \in Nat /\ debt.pastDue \in BOOLEAN
  BY DEF Debt, DebtStatuses

DebtSet(debt, n, s) == [debt EXCEPT !.outstanding = n, !.status = s]

LEMMA DebtWith ==
  ASSUME NEW debt \in Debt, NEW n \in Nat, NEW s \in DebtStatuses, NEW d, d = DebtSet(debt, n, s)
  PROVE  /\ d \in Debt /\ d.outstanding = n /\ d.status = s
         /\ d.original = debt.original /\ d.pastDue = debt.pastDue
<1>1. PICK e : e = [debt EXCEPT !.outstanding = n]
  OBVIOUS
<1>2. /\ e \in Debt /\ e.outstanding = n
      /\ e.original = debt.original /\ e.pastDue = debt.pastDue /\ e.status = debt.status
  BY <1>1 DEF Debt
<1>3. d = [e EXCEPT !.status = s]
  BY <1>1 DEF DebtSet
<1> QED BY <1>2, <1>3 DEF Debt, DebtStatuses

\* The debt once a payment gave the order a status
PaidDebt(debt, owed, paid) == DebtAfterPayment(debt, owed, paid = "paid")

LEMMA DebtAfterPaymentTyped ==
  ASSUME NEW debt \in Debt, NEW owed \in Nat, NEW paid, NEW d, d = PaidDebt(debt, owed, paid)
  PROVE  d \in Debt /\ (~IsOpen(debt) => d = debt)
<1>1. CASE ~IsOpen(debt)
  BY <1>1 DEF PaidDebt, DebtAfterPayment
<1>2. CASE IsOpen(debt)
  <2>1. PICK n \in Nat, s \in {"Settled", "Overdue", "PartiallyPaid"} : d = DebtSet(debt, n, s)
    BY <1>2 DEF PaidDebt, DebtAfterPayment, DebtSet
  <2>2. s \in DebtStatuses
    BY DEF DebtStatuses
  <2> QED BY <1>2, <2>1, <2>2, DebtWith
<1> QED BY <1>1, <1>2

LEMMA DebtPaid ==
  ASSUME NEW debt \in Debt, NEW total \in Nat, NEW net \in Nat, NEW amount \in Nat, NEW paid,
         NEW status \in {"CONFIRMED", "PART_DELIVERED", "COMPLETED"},
         DebtTells(status, "credit_sale", debt, total, net),
         debt.status # "WrittenOff", amount > 0, net + amount <= total,
         paid = "paid" <=> net + amount >= total
  PROVE  /\ PaidDebt(debt, total - (net + amount), paid) \in Debt
         /\ DebtTells(status, "credit_sale", PaidDebt(debt, total - (net + amount), paid), total, net + amount)
<1>1. PICK owed \in Nat, net2 \in Nat : owed = total - (net + amount) /\ net2 = net + amount
  OBVIOUS
<1>2. PICK d : d = PaidDebt(debt, owed, paid)
  OBVIOUS
<1>3. debt.status \in DebtStatuses /\ debt.original \in Nat /\ debt.outstanding \in Nat
  BY DebtFields
<1>4. CASE ~IsOpen(debt)
  <2>1. d = debt
    BY <1>2, <1>4 DEF PaidDebt, DebtAfterPayment
  <2>2. /\ debt.outstanding = 0 /\ debt.original = 0 /\ debt.status = "None"
    BY <1>1, <1>3, <1>4 DEF DebtTells
  <2>3. DebtTells(status, "credit_sale", debt, total, net2)
    BY <1>1, <1>4, <2>2 DEF DebtTells
  <2> QED BY <1>1, <1>2, <2>1, <2>3
<1>5. CASE IsOpen(debt) /\ (paid = "paid" \/ owed = 0)
  <2>1. d = DebtSet(debt, 0, "Settled")
    BY <1>2, <1>5 DEF PaidDebt, DebtAfterPayment, DebtSet
  <2>11. "Settled" \in DebtStatuses
    BY DEF DebtStatuses
  <2>2. d \in Debt /\ d.outstanding = 0 /\ d.status = "Settled" /\ d.original = debt.original
    BY <2>1, <2>11, DebtWith
  <2>3. owed = 0
    BY <1>1, <1>5
  <2>4. debt.original > 0
    BY <1>5 DEF DebtTells, IsOpen
  <2>5. DebtTells(status, "credit_sale", d, total, net2)
    BY <1>1, <2>2, <2>3, <2>4 DEF DebtTells, IsOpen
  <2> QED BY <1>1, <1>2, <2>2, <2>5
<1>6. CASE IsOpen(debt) /\ ~(paid = "paid" \/ owed = 0)
  <2>1. PICK s \in {"Overdue", "PartiallyPaid"} : d = DebtSet(debt, owed, s)
    BY <1>2, <1>6 DEF PaidDebt, DebtAfterPayment, DebtSet
  <2>11. s \in DebtStatuses
    BY DEF DebtStatuses
  <2>2. d \in Debt /\ d.outstanding = owed /\ d.status = s /\ d.original = debt.original
    BY <2>1, <2>11, DebtWith
  <2>3. debt.original > 0
    BY <1>6 DEF DebtTells, IsOpen
  <2>4. DebtTells(status, "credit_sale", d, total, net2)
    BY <1>1, <1>6, <2>2, <2>3 DEF DebtTells, IsOpen
  <2> QED BY <1>1, <1>2, <2>2, <2>4
<1> QED BY <1>4, <1>5, <1>6

LEMMA DebtAfterRefundTyped ==
  ASSUME NEW debt \in Debt, NEW owed \in Nat
  PROVE  /\ DebtAfterRefund(debt, owed) \in Debt
         /\ debt.status \in {"None", "WrittenOff", "Cancelled"} => DebtAfterRefund(debt, owed) = debt
         /\ debt.status \notin {"None", "WrittenOff", "Cancelled"} /\ owed > 0 /\ debt.original > 0
              => /\ IsOpen(DebtAfterRefund(debt, owed))
                 /\ DebtAfterRefund(debt, owed).original = debt.original
                 /\ DebtAfterRefund(debt, owed).outstanding = IF debt.original <= owed THEN debt.original ELSE owed
<1>1. debt.status \in DebtStatuses /\ debt.original \in Nat /\ debt.outstanding \in Nat
  BY DebtFields
<1>2. PICK n \in Nat : n = Min({debt.original, owed}) /\ n = IF debt.original <= owed THEN debt.original ELSE owed
  BY <1>1, SmallerOf
<1>3. PICK again : again = [debt EXCEPT !.outstanding = n]
  OBVIOUS
<1>4. again \in Debt /\ again.outstanding = n /\ again.original = debt.original /\ again.status = debt.status
  BY <1>3 DEF Debt
<1>5. PICK s : s = DueStatus(again)
  OBVIOUS
<1>6. s \in {"Overdue", "PartiallyPaid", "Pending"}
  BY <1>5 DEF DueStatus
<1>7. PICK d : d = [again EXCEPT !.status = s]
  OBVIOUS
<1>8. d \in Debt /\ d.outstanding = n /\ d.original = debt.original /\ d.status = s
  BY <1>4, <1>6, <1>7 DEF Debt
<1>9. DebtAfterRefund(debt, owed)
        = IF debt.status \in {"None", "WrittenOff", "Cancelled"} \/ n = 0 THEN debt ELSE d
  BY <1>2, <1>3, <1>4, <1>5, <1>7 DEF DebtAfterRefund
<1>10. IsOpen(d)
  BY <1>6, <1>8 DEF IsOpen
<1> QED BY <1>1, <1>2, <1>8, <1>9, <1>10

LEMMA DebtRefunded ==
  ASSUME NEW debt \in Debt, NEW total \in Nat, NEW net \in Nat, NEW owed \in Nat,
         NEW status \in {"CONFIRMED", "PART_DELIVERED", "COMPLETED"}, NEW net0,
         DebtTells(status, "credit_sale", debt, total, net0),
         net < total, owed = total - net
  PROVE  DebtTells(status, "credit_sale", DebtAfterRefund(debt, owed), total, net)
<1>1. PICK d : d = DebtAfterRefund(debt, owed)
  OBVIOUS
<1>2. debt.status \in DebtStatuses /\ debt.original \in Nat /\ debt.outstanding \in Nat
  BY DebtFields
<1>3. CASE debt.status \in {"None", "WrittenOff", "Cancelled"}
  <2>1. d = debt
    BY <1>1, <1>3, DebtAfterRefundTyped
  <2>2. debt.status # "Cancelled"
    BY DEF DebtTells
  <2> QED BY <1>1, <1>2, <1>3, <2>1, <2>2 DEF DebtTells
<1>4. CASE debt.status \notin {"None", "WrittenOff", "Cancelled"}
  <2>1. debt.original > 0
    BY <1>4 DEF DebtTells
  <2>2. IsOpen(d) /\ d.original = debt.original /\ d.outstanding = IF debt.original <= owed THEN debt.original ELSE owed
    BY <1>1, <1>2, <1>4, <2>1, DebtAfterRefundTyped
  <2>3. d.outstanding > 0 /\ d.original > 0
    BY <1>2, <2>1, <2>2
  <2>4. d.outstanding = owed \/ (d.outstanding = d.original /\ d.original < owed)
    BY <1>2, <2>2
  <2>5. d.status \in {"Pending", "PartiallyPaid", "Overdue"}
    BY <2>2 DEF IsOpen
  <2> HIDE <1>1
  <2>6. DebtTells(status, "credit_sale", d, total, net)
    BY <2>2, <2>3, <2>4, <2>5 DEF DebtTells
  <2> QED BY <1>1, <2>6
<1> QED BY <1>3, <1>4

CancelledDebt(debt, net) ==
  IF IsOpen(debt) \/ (net > 0 /\ debt.status = "Settled") THEN DebtSet(debt, 0, "Cancelled") ELSE debt

LEMMA CancelledDebtFacts ==
  ASSUME NEW debt \in Debt, NEW net \in Nat, NEW d, d = CancelledDebt(debt, net)
  PROVE  /\ d \in Debt /\ ~IsOpen(d)
         /\ debt.status \in {"WrittenOff", "Cancelled"} => d = debt
         /\ net > 0 => d.status \in {"None", "WrittenOff", "Cancelled"}
<1>1. CASE IsOpen(debt) \/ (net > 0 /\ debt.status = "Settled")
  <2>1. d = DebtSet(debt, 0, "Cancelled")
    BY <1>1 DEF CancelledDebt
  <2>2. "Cancelled" \in DebtStatuses
    BY DEF DebtStatuses
  <2>3. d \in Debt /\ d.status = "Cancelled"
    BY <2>1, <2>2, DebtWith
  <2> QED BY <1>1, <2>3 DEF IsOpen
<1>2. CASE ~(IsOpen(debt) \/ (net > 0 /\ debt.status = "Settled"))
  <2>1. d = debt
    BY <1>2 DEF CancelledDebt
  <2>2. debt.status \in DebtStatuses
    BY DebtFields
  <2> QED BY <1>2, <2>1, <2>2 DEF DebtStatuses, IsOpen
<1> QED BY <1>1, <1>2

LEMMA DebtCancelled ==
  ASSUME NEW debt \in Debt, NEW net \in Nat, NEW saleType, NEW status, NEW total,
         DebtTells(status, saleType, debt, total, net), NEW d, d = CancelledDebt(debt, net)
  PROVE  DebtTells("CANCELLED", saleType, d, total, 0)
<1>1. debt.status \in DebtStatuses /\ debt.original \in Nat /\ debt.outstanding \in Nat
  BY DebtFields
<1>2. CASE IsOpen(debt) \/ (net > 0 /\ debt.status = "Settled")
  <2>1. d = DebtSet(debt, 0, "Cancelled")
    BY <1>2 DEF CancelledDebt
  <2>2. "Cancelled" \in DebtStatuses
    BY DEF DebtStatuses
  <2>3. d.outstanding = 0 /\ d.status = "Cancelled" /\ d.original = debt.original
    BY <2>1, <2>2, DebtWith
  <2>4. debt.original > 0 /\ saleType = "credit_sale"
    BY <1>2 DEF DebtTells, IsOpen
  <2> QED BY <2>3, <2>4 DEF DebtTells, IsOpen
<1>3. CASE ~(IsOpen(debt) \/ (net > 0 /\ debt.status = "Settled"))
  <2>1. d = debt
    BY <1>3 DEF CancelledDebt
  <2>2. DebtTells("CANCELLED", saleType, debt, total, 0)
    BY <1>3 DEF DebtTells
  <2> QED BY <2>1, <2>2
<1> QED BY <1>2, <1>3

-----------------------------------------------------------------------------
(* The row of an order.                                                    *)

LEMMA RowFields ==
  ASSUME NEW r \in OrderRow
  PROVE  /\ r.status \in Statuses /\ r.saleType \in SaleTypes /\ r.customer \in Customer \cup {NoCustomer}
         /\ r.lines \in Seq(Line) /\ r.payStatus \in PayStatuses /\ r.debt \in Debt /\ r.earned \in Nat
  BY DEF OrderRow, Statuses, SaleTypes, PayStatuses

\* One column written
WithStatus(r, v) == [r EXCEPT !.status = v]
WithSaleType(r, v) == [r EXCEPT !.saleType = v]
WithCustomer(r, v) == [r EXCEPT !.customer = v]
WithLines(r, v) == [r EXCEPT !.lines = v]
WithPayStatus(r, v) == [r EXCEPT !.payStatus = v]
WithDebt(r, v) == [r EXCEPT !.debt = v]
WithEarned(r, v) == [r EXCEPT !.earned = v]

LEMMA StatusSet ==
  ASSUME NEW r \in OrderRow, NEW v \in Statuses, NEW q, q = WithStatus(r, v)
  PROVE  /\ q \in OrderRow /\ q.status = v /\ q.saleType = r.saleType /\ q.customer = r.customer /\ q.lines = r.lines
         /\ q.payStatus = r.payStatus /\ q.debt = r.debt /\ q.earned = r.earned
  BY DEF OrderRow, Statuses, SaleTypes, PayStatuses, WithStatus

LEMMA SaleTypeSet ==
  ASSUME NEW r \in OrderRow, NEW v \in SaleTypes, NEW q, q = WithSaleType(r, v)
  PROVE  /\ q \in OrderRow /\ q.saleType = v /\ q.status = r.status /\ q.customer = r.customer /\ q.lines = r.lines
         /\ q.payStatus = r.payStatus /\ q.debt = r.debt /\ q.earned = r.earned
  BY DEF OrderRow, Statuses, SaleTypes, PayStatuses, WithSaleType

LEMMA CustomerSet ==
  ASSUME NEW r \in OrderRow, NEW v \in Customer \cup {NoCustomer}, NEW q, q = WithCustomer(r, v)
  PROVE  /\ q \in OrderRow /\ q.customer = v /\ q.status = r.status /\ q.saleType = r.saleType /\ q.lines = r.lines
         /\ q.payStatus = r.payStatus /\ q.debt = r.debt /\ q.earned = r.earned
  BY DEF OrderRow, Statuses, SaleTypes, PayStatuses, WithCustomer

LEMMA LinesSet ==
  ASSUME NEW r \in OrderRow, NEW v \in Seq(Line), NEW q, q = WithLines(r, v)
  PROVE  /\ q \in OrderRow /\ q.lines = v /\ q.status = r.status /\ q.saleType = r.saleType /\ q.customer = r.customer
         /\ q.payStatus = r.payStatus /\ q.debt = r.debt /\ q.earned = r.earned
  BY DEF OrderRow, Statuses, SaleTypes, PayStatuses, WithLines

LEMMA PayStatusSet ==
  ASSUME NEW r \in OrderRow, NEW v \in PayStatuses, NEW q, q = WithPayStatus(r, v)
  PROVE  /\ q \in OrderRow /\ q.payStatus = v /\ q.status = r.status /\ q.saleType = r.saleType /\ q.customer = r.customer
         /\ q.lines = r.lines /\ q.debt = r.debt /\ q.earned = r.earned
  BY DEF OrderRow, Statuses, SaleTypes, PayStatuses, WithPayStatus

LEMMA DebtWritten ==
  ASSUME NEW r \in OrderRow, NEW v \in Debt, NEW q, q = WithDebt(r, v)
  PROVE  /\ q \in OrderRow /\ q.debt = v /\ q.status = r.status /\ q.saleType = r.saleType /\ q.customer = r.customer
         /\ q.lines = r.lines /\ q.payStatus = r.payStatus /\ q.earned = r.earned
  BY DEF OrderRow, Statuses, SaleTypes, PayStatuses, WithDebt

LEMMA EarnedSet ==
  ASSUME NEW r \in OrderRow, NEW v \in Nat, NEW q, q = WithEarned(r, v)
  PROVE  /\ q \in OrderRow /\ q.earned = v /\ q.status = r.status /\ q.saleType = r.saleType /\ q.customer = r.customer
         /\ q.lines = r.lines /\ q.payStatus = r.payStatus /\ q.debt = r.debt
  BY DEF OrderRow, Statuses, SaleTypes, PayStatuses, WithEarned

\* Status, lines, payment status and receivable written at once
Rewritten(r, s, l, p, d) == [r EXCEPT !.status = s, !.lines = l, !.payStatus = p, !.debt = d]

LEMMA RewrittenFacts ==
  ASSUME NEW r \in OrderRow, NEW s \in Statuses, NEW l \in Seq(Line), NEW p \in PayStatuses, NEW d \in Debt,
         NEW q, q = Rewritten(r, s, l, p, d)
  PROVE  /\ q \in OrderRow /\ q.status = s /\ q.lines = l /\ q.payStatus = p /\ q.debt = d
         /\ q.saleType = r.saleType /\ q.customer = r.customer /\ q.earned = r.earned
<1>1. PICK q1 : q1 = WithStatus(r, s)
  OBVIOUS
<1>2. PICK q2 : q2 = WithLines(q1, l)
  OBVIOUS
<1>3. PICK q3 : q3 = WithPayStatus(q2, p)
  OBVIOUS
<1>4. q = WithDebt(q3, d)
  BY <1>1, <1>2, <1>3 DEF Rewritten, WithStatus, WithLines, WithPayStatus, WithDebt
<1>5. /\ q1 \in OrderRow /\ q1.status = s /\ q1.saleType = r.saleType /\ q1.customer = r.customer
      /\ q1.earned = r.earned
  BY <1>1, StatusSet
<1>6. /\ q2 \in OrderRow /\ q2.status = s /\ q2.lines = l /\ q2.saleType = r.saleType /\ q2.customer = r.customer
      /\ q2.earned = r.earned
  BY <1>2, <1>5, LinesSet
<1>7. /\ q3 \in OrderRow /\ q3.status = s /\ q3.lines = l /\ q3.payStatus = p
      /\ q3.saleType = r.saleType /\ q3.customer = r.customer /\ q3.earned = r.earned
  BY <1>3, <1>6, PayStatusSet
<1> QED BY <1>4, <1>7, DebtWritten

-----------------------------------------------------------------------------
(* The lines of an order.                                                  *)

LEMMA SameLength ==
  ASSUME NEW S, NEW T, NEW s \in Seq(S), NEW t, t = [i \in DOMAIN s |-> t[i]], \A i \in DOMAIN s : t[i] \in T
  PROVE  t \in Seq(T) /\ DOMAIN t = DOMAIN s /\ (s # <<>> => t # <<>>)
<1>1. DOMAIN s = 1..Len(s) /\ Len(s) \in Nat
  OBVIOUS
<1>2. t \in [1..Len(s) -> T]
  BY <1>1
<1>3. t \in Seq(T) /\ DOMAIN t = DOMAIN s
  BY <1>1, <1>2
<1>4. ASSUME s # <<>> PROVE t # <<>>
  <2>1. 1 \in DOMAIN s
    BY <1>1, <1>4
  <2>2. DOMAIN <<>> = {}
    OBVIOUS
  <2> QED BY <1>3, <2>1, <2>2
<1> QED BY <1>3, <1>4

LineWaits(l, n) == [l EXCEPT !.waiting = n]
LineMoves(l, n, m) == [l EXCEPT !.waiting = n, !.delivered = m]

LEMMA LineFields ==
  ASSUME NEW l \in Line
  PROVE  /\ l.book \in Book /\ l.quantity \in Nat /\ l.quantity > 0
         /\ l.waiting \in Nat /\ l.delivered \in Nat
  BY DEF Line

LEMMA LineWaitsFacts ==
  ASSUME NEW l \in Line, NEW n \in Nat
  PROVE  /\ LineWaits(l, n) \in Line
         /\ LineWaits(l, n).book = l.book /\ LineWaits(l, n).quantity = l.quantity
         /\ LineWaits(l, n).waiting = n /\ LineWaits(l, n).delivered = l.delivered
  BY DEF Line, LineWaits

LEMMA LineMovesFacts ==
  ASSUME NEW l, NEW n, NEW m, l \in Line, n \in Nat, m \in Nat
  PROVE  /\ LineMoves(l, n, m) \in Line
         /\ LineMoves(l, n, m).book = l.book /\ LineMoves(l, n, m).quantity = l.quantity
         /\ LineMoves(l, n, m).waiting = n /\ LineMoves(l, n, m).delivered = m
<1>1. PICK j : j = LineWaits(l, n)
  OBVIOUS
<1>2. /\ j \in Line /\ j.book = l.book /\ j.quantity = l.quantity
      /\ j.waiting = n /\ j.delivered = l.delivered
  BY <1>1, LineWaitsFacts
<1>3. PICK k : k = LineMoves(l, n, m)
  OBVIOUS
<1>4. k = [j EXCEPT !.delivered = m]
  BY <1>1, <1>3 DEF LineWaits, LineMoves
<1>5. /\ k \in Line /\ k.book = l.book /\ k.quantity = l.quantity
      /\ k.waiting = n /\ k.delivered = m
  BY <1>2, <1>4 DEF Line
<1> QED BY <1>3, <1>5

LEMMA AllWaitingFacts ==
  ASSUME NEW lines \in Seq(Line), NEW others, others = AllWaiting(lines)
  PROVE  /\ others \in Seq(Line) /\ DOMAIN others = DOMAIN lines /\ (lines # <<>> => others # <<>>)
         /\ \A i \in DOMAIN lines :
              /\ others[i].book = lines[i].book /\ others[i].quantity = lines[i].quantity
              /\ others[i].waiting = lines[i].quantity /\ others[i].delivered = lines[i].delivered
<1>1. others = [i \in DOMAIN lines |-> LineWaits(lines[i], lines[i].quantity)]
  BY DEF AllWaiting, LineWaits
<1>2. \A i \in DOMAIN lines : lines[i] \in Line /\ lines[i].quantity \in Nat
  BY PositionsFinite, LineFields
<1>3. ASSUME NEW i \in DOMAIN lines
      PROVE  /\ others[i] \in Line
             /\ others[i].book = lines[i].book /\ others[i].quantity = lines[i].quantity
             /\ others[i].waiting = lines[i].quantity /\ others[i].delivered = lines[i].delivered
  <2>1. PICK l, k : l \in Line /\ l = lines[i] /\ k = others[i]
    BY <1>2
  <2>2. PICK n \in Nat : n = l.quantity
    BY <2>1, LineFields
  <2>3. k = LineWaits(l, n) /\ l \in Line /\ n \in Nat
    BY <1>1, <2>1, <2>2
  <2>4. /\ k \in Line /\ k.book = l.book /\ k.quantity = l.quantity
        /\ k.waiting = n /\ k.delivered = l.delivered
    BY ONLY <2>3, LineWaitsFacts
  <2> QED BY <2>1, <2>2, <2>4
<1>4. others = [i \in DOMAIN lines |-> others[i]]
  BY <1>1
<1>5. others \in Seq(Line) /\ DOMAIN others = DOMAIN lines /\ (lines # <<>> => others # <<>>)
  BY <1>3, <1>4, SameLength
<1> QED BY <1>3, <1>5

LEMMA NoneWaitingFacts ==
  ASSUME NEW lines \in Seq(Line), NEW others, others = NoneWaiting(lines)
  PROVE  /\ others \in Seq(Line) /\ DOMAIN others = DOMAIN lines /\ (lines # <<>> => others # <<>>)
         /\ \A i \in DOMAIN lines :
              /\ others[i].book = lines[i].book /\ others[i].quantity = lines[i].quantity
              /\ others[i].waiting = 0 /\ others[i].delivered = lines[i].delivered
<1>1. others = [i \in DOMAIN lines |-> LineWaits(lines[i], 0)]
  BY DEF NoneWaiting, LineWaits
<1>2. \A i \in DOMAIN lines : lines[i] \in Line
  BY PositionsFinite
<1>3. ASSUME NEW i \in DOMAIN lines
      PROVE  /\ others[i] \in Line
             /\ others[i].book = lines[i].book /\ others[i].quantity = lines[i].quantity
             /\ others[i].waiting = 0 /\ others[i].delivered = lines[i].delivered
  <2>1. others[i] = LineWaits(lines[i], 0)
    BY <1>1
  <2> QED BY <1>2, <2>1, LineWaitsFacts
<1>4. others = [i \in DOMAIN lines |-> others[i]]
  BY <1>1
<1>5. others \in Seq(Line) /\ DOMAIN others = DOMAIN lines /\ (lines # <<>> => others # <<>>)
  BY <1>3, <1>4, SameLength
<1> QED BY <1>3, <1>5

\* The lines once copies of them are handed over
AfterHanding(lines, handed) ==
  [i \in DOMAIN lines |-> LineMoves(lines[i], lines[i].waiting - handed[i], lines[i].delivered + handed[i])]

LEMMA AfterHandingFacts ==
  ASSUME NEW lines \in Seq(Line), NEW handed, NEW others, others = AfterHanding(lines, handed),
         \A i \in DOMAIN lines : handed[i] \in Nat /\ handed[i] <= lines[i].waiting
  PROVE  /\ others \in Seq(Line) /\ DOMAIN others = DOMAIN lines /\ (lines # <<>> => others # <<>>)
         /\ \A i \in DOMAIN lines :
              /\ others[i].book = lines[i].book /\ others[i].quantity = lines[i].quantity
              /\ others[i].waiting \in Nat /\ lines[i].waiting = others[i].waiting + handed[i]
              /\ others[i].delivered = lines[i].delivered + handed[i]
<1>1. ASSUME NEW i \in DOMAIN lines
      PROVE  /\ others[i] \in Line
             /\ others[i].book = lines[i].book /\ others[i].quantity = lines[i].quantity
             /\ others[i].waiting \in Nat /\ lines[i].waiting = others[i].waiting + handed[i]
             /\ others[i].delivered = lines[i].delivered + handed[i]
  <2>1. lines[i] \in Line
    BY PositionsFinite
  <2>2. lines[i].waiting \in Nat /\ lines[i].delivered \in Nat
    BY <2>1, LineFields
  <2>3. PICK n \in Nat, m \in Nat :
          n = lines[i].waiting - handed[i] /\ m = lines[i].delivered + handed[i]
    BY <2>2
  <2>4. PICK l \in Line : l = lines[i]
    BY <2>1
  <2>8. PICK k : k = others[i]
    OBVIOUS
  <2>5. k = LineMoves(l, n, m) /\ l \in Line /\ n \in Nat /\ m \in Nat
    BY <2>3, <2>4, <2>8 DEF AfterHanding
  <2>9. /\ LineMoves(l, n, m) \in Line /\ LineMoves(l, n, m).book = l.book
        /\ LineMoves(l, n, m).quantity = l.quantity
        /\ LineMoves(l, n, m).waiting = n /\ LineMoves(l, n, m).delivered = m
    BY <2>5, LineMovesFacts
  <2>6. /\ k \in Line /\ k.book = l.book /\ k.quantity = l.quantity
        /\ k.waiting = n /\ k.delivered = m
    BY ONLY <2>5, <2>9
  <2>7. lines[i].waiting = n + handed[i]
    BY <2>2, <2>3
  <2> QED BY <2>3, <2>4, <2>6, <2>7, <2>8
<1>2. others = [i \in DOMAIN lines |-> others[i]]
  BY DEF AfterHanding
<1>3. others \in Seq(Line) /\ DOMAIN others = DOMAIN lines /\ (lines # <<>> => others # <<>>)
  BY <1>1, <1>2, SameLength
<1> QED BY <1>1, <1>3

\* The lines of a request
Requested(basket) ==
  [i \in DOMAIN basket |-> [book |-> basket[i].book, quantity |-> basket[i].quantity, waiting |-> 0, delivered |-> 0]]

LEMMA RequestedFacts ==
  ASSUME NEW basket \in Baskets, NEW lines, lines = Requested(basket)
  PROVE  /\ lines \in Seq(Line) /\ lines # <<>>
         /\ \A i \in DOMAIN lines : lines[i].waiting = 0 /\ lines[i].delivered = 0
<1>1. PICK S : S = [book : Book, quantity : Nat \ {0}]
  OBVIOUS
<1>11. basket \in Seq(S) /\ basket # <<>>
  BY <1>1, OrdersAssumption
<1>2. \A i \in DOMAIN basket : basket[i].book \in Book /\ basket[i].quantity \in Nat \ {0}
  <2>1. \A i \in DOMAIN basket : basket[i] \in S
    BY <1>11, PositionsFinite
  <2>2. \A x \in S : x.book \in Book /\ x.quantity \in Nat \ {0}
    BY <1>1
  <2> QED BY <2>1, <2>2
<1>3. \A i \in DOMAIN basket : lines[i] \in Line /\ lines[i].waiting = 0 /\ lines[i].delivered = 0
  BY <1>2 DEF Requested, Line
<1>4. lines = [i \in DOMAIN basket |-> lines[i]]
  BY DEF Requested
<1>5. lines \in Seq(Line) /\ DOMAIN lines = DOMAIN basket /\ lines # <<>>
  <2>1. \A i \in DOMAIN basket : lines[i] \in Line
    BY <1>3
  <2> QED BY <1>11, <1>4, <2>1, SameLength
<1> QED BY <1>3, <1>5

-----------------------------------------------------------------------------
(* The inductive invariant of the stock.                                   *)

Waits(r, b) == Copies(r.lines, b, "waiting")
Went(r, b) == Copies(r.lines, b, "delivered")

\* The lines tell what the status says.
LinesTell(r) ==
  /\ r.status \in {"NONE", "DELETED"} <=> r.lines = <<>>
  /\ r.status \in {"DRAFT", "CANCELLED"} =>
       \A i \in DOMAIN r.lines : r.lines[i].waiting = 0 /\ r.lines[i].delivered = 0
  /\ r.status = "CONFIRMED" =>
       \A i \in DOMAIN r.lines : r.lines[i].waiting = r.lines[i].quantity /\ r.lines[i].delivered = 0
  /\ r.status = "PART_DELIVERED" =>
       /\ SomethingWaits(r.lines) /\ \E i \in DOMAIN r.lines : r.lines[i].delivered > 0
       /\ \A i \in DOMAIN r.lines : r.lines[i].waiting + r.lines[i].delivered = r.lines[i].quantity
  /\ r.status = "COMPLETED" /\ "fulfill" \notin DraftRequests =>
       \A i \in DOMAIN r.lines : r.lines[i].waiting = 0 /\ r.lines[i].delivered = r.lines[i].quantity

\* The reservation rows of an order are those of its lines.
RowsMatch(r, w) == \A b \in Book : w[b].reserved = Waits(r, b) /\ w[b].deducted = Went(r, b)

\* Nothing is owed on an order before it is confirmed.
Untouched(r) == r.status \in {"NONE", "DRAFT", "DELETED"} => r.debt = NoDebt

\* An order with its payments and its reservation rows
Sound(r, ps, w) ==
  /\ r \in OrderRow /\ ps \in Payments /\ w \in [Book -> Reservation]
  /\ LinesTell(r) /\ RowsMatch(r, w) /\ Untouched(r)

Done == {"COMPLETED", "CANCELLED", "DELETED"}

IInv ==
  /\ TypeOK
  /\ \A o \in Order : Sound(order[o], payments[o], rows[o])
  /\ NeverOversold
  /\ "fulfill" \notin DraftRequests => \A o \in fulfilling : order[o].status \in Done

\* What a change of its debt may do to an order
DebtKept(debt, debt2, ps, ps2) ==
  /\ debt.status \in {"WrittenOff", "Cancelled"} => debt2.status = debt.status
  /\ (debt.status = "Settled" /\ IsOpen(debt2)) => NetPaid(ps2) < NetPaid(ps)

\* A step that writes one order: its row, its payments and its reservation rows
Writes(o, q, ps, w) ==
  /\ order' = [order EXCEPT ![o] = q]
  /\ payments' = [payments EXCEPT ![o] = ps]
  /\ rows' = [rows EXCEPT ![o] = w]

\* What such a step does not break
Keeps(o, q, ps, w) ==
  /\ Sound(q, ps, w)
  /\ order[o].status \in Done => q.status \in Done
  /\ stock' \in [Book -> Int]
  /\ ~NegativeAllowed => \A b \in Book : stock'[b] >= 0
  /\ \A b \in Book : stock'[b] + Waits(q, b) + Went(q, b) = stock[b] + Waits(order[o], b) + Went(order[o], b)
  /\ funds' \in Funds
  /\ DebtKept(order[o].debt, q.debt, payments[o], ps)

LEMMA TypedOrders ==
  ASSUME TypeOK, NEW o \in Order
  PROVE  /\ order[o] \in OrderRow /\ payments[o] \in Payments /\ rows[o] \in [Book -> Reservation]
         /\ stock \in [Book -> Int] /\ funds \in Funds
         /\ order \in [Order -> OrderRow] /\ payments \in [Order -> Payments]
         /\ rows \in [Order -> [Book -> Reservation]]
<1>1. order \in [Order -> OrderRow] /\ rows \in [Order -> [Book -> Reservation]]
  BY DEF TypeOK
<1>2. payments \in [Order -> Seq(Payment)]
      /\ \A x \in Order : \A i \in DOMAIN payments[x] : payments[x][i].refunded <= payments[x][i].amount
  BY DEF TypeOK
<1>3. \A x \in Order : payments[x] \in Payments
  BY <1>2 DEF Payments
<1>4. payments \in [Order -> Payments]
  BY <1>2, <1>3
<1>5. stock \in [Book -> Int] /\ funds \in Funds
  BY DEF TypeOK, Funds
<1> QED BY <1>1, <1>3, <1>4, <1>5

LEMMA TypesKept ==
  ASSUME order' \in [Order -> OrderRow], payments' \in [Order -> Payments],
         rows' \in [Order -> [Book -> Reservation]], stock' \in [Book -> Int], funds' \in Funds,
         fulfilling' \subseteq Order
  PROVE  TypeOK'
<1>1. payments' \in [Order -> Seq(Payment)]
  BY DEF Payments
<1>2. \A x \in Order : \A i \in DOMAIN payments'[x] : payments'[x][i].refunded <= payments'[x][i].amount
  <2>1. \A x \in Order : payments'[x] \in Payments
    OBVIOUS
  <2> QED BY <2>1 DEF Payments
<1> QED BY <1>1, <1>2 DEF TypeOK, Funds

\* The sound rows stay sound.
LEMMA OneOrderWritten ==
  ASSUME IInv, NEW o \in Order, NEW q, NEW ps, NEW w, Writes(o, q, ps, w), Keeps(o, q, ps, w),
         fulfilling' \subseteq fulfilling
  PROVE  IInv'
<1>1. /\ order \in [Order -> OrderRow] /\ payments \in [Order -> Payments]
      /\ rows \in [Order -> [Book -> Reservation]]
  BY TypedOrders DEF IInv
<1>2. Sound(q, ps, w) /\ q \in OrderRow /\ ps \in Payments /\ w \in [Book -> Reservation]
  BY DEF Keeps, Sound
<1>3. /\ order' \in [Order -> OrderRow] /\ payments' \in [Order -> Payments]
      /\ rows' \in [Order -> [Book -> Reservation]]
  BY <1>1, <1>2 DEF Writes
<1>4. TypeOK'
  <2>1. stock' \in [Book -> Int] /\ funds' \in Funds
    BY DEF Keeps
  <2>2. fulfilling' \subseteq Order
    BY DEF IInv, TypeOK
  <2> QED BY <1>3, <2>1, <2>2, TypesKept
<1>5. ASSUME NEW x \in Order PROVE Sound(order'[x], payments'[x], rows'[x])
  <2>1. CASE x = o
    BY <1>1, <1>2, <2>1 DEF Writes
  <2>2. CASE x # o
    <3>1. order'[x] = order[x] /\ payments'[x] = payments[x] /\ rows'[x] = rows[x]
      BY <1>1, <2>2 DEF Writes
    <3> QED BY <3>1 DEF IInv
  <2> QED BY <2>1, <2>2
<1>6. NeverOversold'
  BY DEF Keeps, NeverOversold
<1>7. ASSUME "fulfill" \notin DraftRequests, NEW x \in fulfilling' PROVE order'[x].status \in Done
  <2>1. x \in Order /\ order[x].status \in Done
    BY <1>7 DEF IInv, TypeOK
  <2>2. CASE x = o
    BY <1>1, <2>1, <2>2 DEF Writes, Keeps
  <2>3. CASE x # o
    BY <1>1, <2>1, <2>3 DEF Writes
  <2> QED BY <2>2, <2>3
<1> QED BY <1>4, <1>5, <1>6, <1>7 DEF IInv

\* The copies of a book the orders hold or gave out
HeldIn(ord, b) == SumFunctionOnSet([x \in Order |-> Waits(ord[x], b) + Went(ord[x], b)], Order)

LEMMA HeldNumbers ==
  ASSUME NEW r \in OrderRow, NEW b
  PROVE  Waits(r, b) \in Nat /\ Went(r, b) \in Nat
<1>1. r.lines \in Seq(Line)
  BY RowFields
<1>2. "waiting" \in Fields /\ "delivered" \in Fields
  BY DEF Fields
<1> QED BY <1>1, <1>2, CopiesNumber DEF Waits, Went

LEMMA OneOrderHolds ==
  ASSUME IInv, NEW o \in Order, NEW q, NEW ps, NEW w, Writes(o, q, ps, w), Keeps(o, q, ps, w), NEW b \in Book
  PROVE  stock'[b] + HeldIn(order', b) = stock[b] + HeldIn(order, b)
<1> DEFINE s == [x \in Order |-> Waits(order[x], b) + Went(order[x], b)]
           t == [x \in Order |-> Waits(order'[x], b) + Went(order'[x], b)]
<1>1. order \in [Order -> OrderRow] /\ stock \in [Book -> Int]
  BY TypedOrders DEF IInv
<1>2. q \in OrderRow /\ stock' \in [Book -> Int]
  BY DEF Keeps, Sound
<1>3. order'[o] = q /\ \A x \in Order \ {o} : order'[x] = order[x]
  BY <1>1 DEF Writes
<1>4. \A x \in Order : s[x] \in Int
  <2>1. \A x \in Order : Waits(order[x], b) \in Nat /\ Went(order[x], b) \in Nat
    BY <1>1, HeldNumbers
  <2> QED BY <2>1
<1>5. t[o] = Waits(q, b) + Went(q, b)
  BY <1>3
<1>6. t[o] \in Int
  <2>1. Waits(q, b) \in Nat /\ Went(q, b) \in Nat
    BY <1>2, HeldNumbers
  <2> QED BY <1>5, <2>1
<1>7. \A x \in Order \ {o} : t[x] = s[x]
  BY <1>3
<1>8. s[o] = Waits(order[o], b) + Went(order[o], b)
  OBVIOUS
<1>9. stock'[b] + t[o] = stock[b] + s[o]
  <2>1. PICK a \in Nat, c \in Nat : a = Waits(q, b) /\ c = Went(q, b)
    BY <1>2, HeldNumbers
  <2>2. PICK d \in Nat, e \in Nat : d = Waits(order[o], b) /\ e = Went(order[o], b)
    BY <1>1, HeldNumbers
  <2>3. PICK m \in Int, n \in Int : m = stock'[b] /\ n = stock[b]
    BY <1>1, <1>2
  <2>4. (m + a) + c = (n + d) + e
    BY <2>1, <2>2, <2>3 DEF Keeps
  <2>5. t[o] = a + c /\ s[o] = d + e
    BY <1>5, <1>8, <2>1, <2>2
  <2> HIDE DEF s, t
  <2> QED BY <2>3, <2>4, <2>5
<1>10. HeldIn(order, b) = SumFunctionOnSet(s, Order) /\ HeldIn(order', b) = SumFunctionOnSet(t, Order)
  BY DEF HeldIn
<1> HIDE DEF s, t
<1>11. IsFiniteSet(Order)
  BY OrdersAssumption
<1>12. SumFunctionOnSet(t, Order) = SumFunctionOnSet(s, Order) - s[o] + t[o]
  BY <1>4, <1>6, <1>7, <1>11, SumChange
<1>13. SumFunctionOnSet(s, Order) \in Int
  BY <1>4, <1>11, SumInteger
<1>14. s[o] \in Int /\ stock[b] \in Int /\ stock'[b] \in Int
  BY <1>1, <1>2, <1>4
<1> QED BY <1>6, <1>9, <1>10, <1>12, <1>13, <1>14

\* Steps that leave an order's lines, status and reservation rows as they were
LEMMA SameLines ==
  ASSUME NEW r, NEW ps, NEW w, Sound(r, ps, w), NEW q \in OrderRow, NEW qs \in Payments,
         q.status = r.status, q.lines = r.lines, Untouched(q)
  PROVE  Sound(q, qs, w) /\ \A b \in Book : Waits(q, b) = Waits(r, b) /\ Went(q, b) = Went(r, b)
<1>1. LinesTell(q)
  BY DEF Sound, LinesTell
<1>2. \A b \in Book : Waits(q, b) = Waits(r, b) /\ Went(q, b) = Went(r, b)
  BY DEF Waits, Went
<1>3. RowsMatch(q, w)
  BY <1>2 DEF Sound, RowsMatch
<1>4. w \in [Book -> Reservation]
  BY DEF Sound
<1> QED BY <1>1, <1>2, <1>3, <1>4 DEF Sound

LEMMA SameShelf ==
  ASSUME IInv, NEW o \in Order, NEW q, stock' = stock,
         \A b \in Book : Waits(q, b) = Waits(order[o], b) /\ Went(q, b) = Went(order[o], b)
  PROVE  /\ stock' \in [Book -> Int]
         /\ ~NegativeAllowed => \A b \in Book : stock'[b] >= 0
         /\ \A b \in Book : stock'[b] + Waits(q, b) + Went(q, b) = stock[b] + Waits(order[o], b) + Went(order[o], b)
  BY TypedOrders DEF IInv, NeverOversold

LEMMA SameDebt == ASSUME NEW debt, NEW ps, NEW qs PROVE DebtKept(debt, debt, ps, qs)
  BY DEF DebtKept, IsOpen

LEMMA NothingHeld ==
  ASSUME NEW r \in OrderRow, NEW b
  PROVE  /\ (\A i \in DOMAIN r.lines : r.lines[i].waiting = 0) => Waits(r, b) = 0
         /\ (\A i \in DOMAIN r.lines : r.lines[i].delivered = 0) => Went(r, b) = 0
<1>1. r.lines \in Seq(Line)
  BY RowFields
<1>2. "waiting" \in Fields /\ "delivered" \in Fields
  BY DEF Fields
<1>3. ASSUME \A i \in DOMAIN r.lines : r.lines[i].waiting = 0 PROVE Waits(r, b) = 0
  <2>1. \A i \in DOMAIN r.lines : r.lines[i]["waiting"] = 0
    BY <1>3
  <2> QED BY <1>1, <1>2, <2>1, CopiesNone DEF Waits
<1>4. ASSUME \A i \in DOMAIN r.lines : r.lines[i].delivered = 0 PROVE Went(r, b) = 0
  <2>1. \A i \in DOMAIN r.lines : r.lines[i]["delivered"] = 0
    BY <1>4
  <2> QED BY <1>1, <1>2, <2>1, CopiesNone DEF Went
<1> QED BY <1>3, <1>4

LEMMA ZeroOnLines ==
  ASSUME NEW r \in OrderRow, LinesTell(r), r.status \in {"NONE", "DELETED", "DRAFT", "CANCELLED"}
  PROVE  \A i \in DOMAIN r.lines : r.lines[i].waiting = 0 /\ r.lines[i].delivered = 0
<1>1. CASE r.status \in {"NONE", "DELETED"}
  <2>1. DOMAIN r.lines = {}
    BY <1>1 DEF LinesTell
  <2> QED BY <2>1
<1>2. CASE r.status \in {"DRAFT", "CANCELLED"}
  BY <1>2 DEF LinesTell
<1> QED BY <1>1, <1>2

\* What an order in one of these states holds: nothing
LEMMA HoldsNothing ==
  ASSUME NEW r, NEW ps, NEW w, Sound(r, ps, w), r.status \in {"NONE", "DELETED", "DRAFT", "CANCELLED"}, NEW b \in Book
  PROVE  Waits(r, b) = 0 /\ Went(r, b) = 0 /\ w[b].reserved = 0 /\ w[b].deducted = 0
<1>1. r \in OrderRow /\ LinesTell(r) /\ RowsMatch(r, w)
  BY DEF Sound
<1>2. \A i \in DOMAIN r.lines : r.lines[i].waiting = 0 /\ r.lines[i].delivered = 0
  BY <1>1, ZeroOnLines
<1>3. Waits(r, b) = 0 /\ Went(r, b) = 0
  BY <1>1, <1>2, NothingHeld
<1> QED BY <1>1, <1>3 DEF RowsMatch

LEMMA DraftedFacts ==
  ASSUME NEW r \in OrderRow, NEW saleType \in SaleTypes, NEW c \in Customer \cup {NoCustomer}, NEW basket \in Baskets
  PROVE  LET q == Drafted(r, saleType, c, basket)
         IN /\ q \in OrderRow /\ q.status = "DRAFT" /\ q.saleType = saleType /\ q.customer = c
            /\ q.lines = Requested(basket) /\ q.payStatus = r.payStatus /\ q.debt = r.debt /\ q.earned = r.earned
<1>1. PICK q1 : q1 = WithStatus(r, "DRAFT")
  OBVIOUS
<1>2. PICK q2 : q2 = WithSaleType(q1, saleType)
  OBVIOUS
<1>3. PICK q3 : q3 = WithCustomer(q2, c)
  OBVIOUS
<1>4. PICK q : q = WithLines(q3, Requested(basket))
  OBVIOUS
<1>5. Drafted(r, saleType, c, basket) = q
  BY <1>1, <1>2, <1>3, <1>4 DEF Drafted, WithStatus, WithSaleType, WithCustomer, WithLines, Requested
<1>6. "DRAFT" \in Statuses
  BY DEF Statuses
<1>7. /\ q1 \in OrderRow /\ q1.status = "DRAFT" /\ q1.payStatus = r.payStatus /\ q1.debt = r.debt
      /\ q1.earned = r.earned
  BY <1>1, <1>6, StatusSet
<1>8. /\ q2 \in OrderRow /\ q2.status = "DRAFT" /\ q2.saleType = saleType /\ q2.payStatus = r.payStatus
      /\ q2.debt = r.debt /\ q2.earned = r.earned
  BY <1>2, <1>7, SaleTypeSet
<1>9. /\ q3 \in OrderRow /\ q3.status = "DRAFT" /\ q3.saleType = saleType /\ q3.customer = c
      /\ q3.payStatus = r.payStatus /\ q3.debt = r.debt /\ q3.earned = r.earned
  BY <1>3, <1>8, CustomerSet
<1>10. PICK l \in Seq(Line) : l = Requested(basket)
  BY RequestedFacts
<1>11. q = WithLines(q3, l)
  BY <1>4, <1>10
<1>12. /\ q \in OrderRow /\ q.status = "DRAFT" /\ q.saleType = saleType /\ q.customer = c /\ q.lines = l
       /\ q.payStatus = r.payStatus /\ q.debt = r.debt /\ q.earned = r.earned
  BY <1>9, <1>11, LinesSet
<1> QED BY <1>5, <1>10, <1>12

LEMMA DraftStep ==
  ASSUME IInv, NEW o \in Order, NEW saleType \in SaleTypes, NEW c \in Customer \cup {NoCustomer}, NEW basket \in Baskets,
         Create(o, saleType, c, basket) \/ Update(o, saleType, c, basket),
         NEW q, q = Drafted(order[o], saleType, c, basket)
  PROVE  Writes(o, q, payments[o], rows[o]) /\ Keeps(o, q, payments[o], rows[o]) /\ fulfilling' = fulfilling
<1>0. /\ order[o] \in OrderRow /\ payments[o] \in Payments /\ rows[o] \in [Book -> Reservation]
      /\ order \in [Order -> OrderRow] /\ payments \in [Order -> Payments] /\ rows \in [Order -> [Book -> Reservation]]
      /\ funds \in Funds /\ Sound(order[o], payments[o], rows[o])
  BY TypedOrders DEF IInv
<1>1. order[o].status \in {"NONE", "DRAFT"}
  BY DEF Create, Update
<1>2. /\ order' = [order EXCEPT ![o] = q] /\ payments' = payments /\ rows' = rows /\ stock' = stock
      /\ funds' = funds /\ fulfilling' = fulfilling
  BY DEF Create, Update
<1>3. Writes(o, q, payments[o], rows[o])
  BY <1>0, <1>2 DEF Writes
<1>4. /\ q \in OrderRow /\ q.status = "DRAFT" /\ q.lines = Requested(basket) /\ q.debt = order[o].debt
  <2>1. PICK r \in OrderRow : r = order[o]
    BY <1>0
  <2>2. PICK d : d = Drafted(r, saleType, c, basket)
    OBVIOUS
  <2>3. d \in OrderRow /\ d.status = "DRAFT" /\ d.lines = Requested(basket) /\ d.debt = r.debt
    BY <2>2, DraftedFacts
  <2>4. q = d
    BY <2>1, <2>2
  <2> QED BY <2>1, <2>3, <2>4
<1>5. q.lines # <<>> /\ \A i \in DOMAIN q.lines : q.lines[i].waiting = 0 /\ q.lines[i].delivered = 0
  BY <1>4, RequestedFacts
<1>6. LinesTell(q)
  BY <1>4, <1>5 DEF LinesTell
<1>7. Untouched(q)
  BY <1>0, <1>1, <1>4 DEF Untouched, Sound
<1>8. ASSUME NEW b \in Book
      PROVE  /\ Waits(q, b) = 0 /\ Went(q, b) = 0 /\ Waits(order[o], b) = 0 /\ Went(order[o], b) = 0
             /\ rows[o][b].reserved = 0 /\ rows[o][b].deducted = 0
  <2>1. Waits(q, b) = 0 /\ Went(q, b) = 0
    BY <1>4, <1>5, NothingHeld
  <2>2. order[o].status \in {"NONE", "DELETED", "DRAFT", "CANCELLED"}
    BY <1>1
  <2> QED BY <1>0, <2>1, <2>2, HoldsNothing
<1>9. Sound(q, payments[o], rows[o])
  BY <1>0, <1>4, <1>6, <1>7, <1>8 DEF Sound, RowsMatch
<1>10. order[o].status \notin Done
  BY <1>1 DEF Done
<1>11. /\ stock' \in [Book -> Int]
       /\ ~NegativeAllowed => \A b \in Book : stock'[b] >= 0
       /\ \A b \in Book : stock'[b] + Waits(q, b) + Went(q, b) = stock[b] + Waits(order[o], b) + Went(order[o], b)
  <2>1. \A b \in Book : Waits(q, b) = Waits(order[o], b) /\ Went(q, b) = Went(order[o], b)
    BY <1>8
  <2>2. stock' = stock
    BY <1>2
  <2> QED BY <2>1, <2>2, SameShelf
<1>12. DebtKept(order[o].debt, q.debt, payments[o], payments[o])
  BY <1>4, SameDebt
<1> QED BY <1>0, <1>2, <1>3, <1>9, <1>10, <1>11, <1>12 DEF Keeps

\* Covered money comes in; money goes back.
LEMMA CoveredComesIn ==
  ASSUME funds \in Funds, NEW method \in PaymentMethods, NEW c \in Customer \cup {NoCustomer}, NEW t \in Nat,
         Covers(method, c, t)
  PROVE  /\ MoneyIn(funds, method, c, t) \in Funds
         /\ Holdings(MoneyIn(funds, method, c, t)) = Holdings(funds) + t
         /\ method # "cash" => c # NoCustomer
<1>1. funds \in Accounts /\ \A x \in Customer : funds.credit[x] >= 0 /\ funds.points[x] >= 0
  BY FundsAreAccounts
<1>2. PICK g : g = MoneyIn(funds, method, c, t)
  OBVIOUS
<1>3. PICK f : f = funds
  OBVIOUS
<1>4. f \in Accounts /\ t \in Int /\ g = MoneyIn(f, method, c, t)
  BY <1>1, <1>2, <1>3
<1>5. method # "cash" => c # NoCustomer
  BY DEF Covers
<1>6. /\ g \in Accounts
      /\ \A x \in Customer :
           /\ g.credit[x] = IF method = "store_credit" /\ x = c THEN f.credit[x] - t ELSE f.credit[x]
           /\ g.points[x] = IF method = "loyalty_points" /\ x = c THEN f.points[x] - t ELSE f.points[x]
      /\ method = "cash" \/ c # NoCustomer => Holdings(g) = Holdings(f) + t
  <2>1. f \in Accounts /\ t \in Int
    BY <1>4
  <2>2. /\ MoneyIn(f, method, c, t) \in Accounts
        /\ method = "cash" \/ c # NoCustomer => Holdings(MoneyIn(f, method, c, t)) = Holdings(f) + t
    BY <2>1, MoneyInFacts
  <2>3. \A x \in Customer :
          /\ MoneyIn(f, method, c, t).credit[x]
               = IF method = "store_credit" /\ x = c THEN f.credit[x] - t ELSE f.credit[x]
          /\ MoneyIn(f, method, c, t).points[x]
               = IF method = "loyalty_points" /\ x = c THEN f.points[x] - t ELSE f.points[x]
    BY <2>1, MoneyInFacts
  <2> QED BY <1>4, <2>2, <2>3
<1>7. ASSUME NEW x \in Customer PROVE g.credit[x] >= 0 /\ g.points[x] >= 0
  <2>1. PICK m \in Int, n \in Int : m = f.credit[x] /\ n = f.points[x] /\ m >= 0 /\ n >= 0
    BY <1>1, <1>3 DEF Accounts
  <2>2. method = "store_credit" /\ x = c => m >= t
    BY <1>3, <2>1 DEF Covers
  <2>3. method = "loyalty_points" /\ x = c => n >= t
    BY <1>3, <2>1 DEF Covers
  <2>4. /\ g.credit[x] = IF method = "store_credit" /\ x = c THEN m - t ELSE m
        /\ g.points[x] = IF method = "loyalty_points" /\ x = c THEN n - t ELSE n
    BY <1>6, <2>1
  <2> QED BY <2>1, <2>2, <2>3, <2>4
<1>8. g \in Funds
  BY <1>6, <1>7, FundsAreAccounts
<1> QED BY <1>2, <1>3, <1>5, <1>6, <1>8

LEMMA GoesBack ==
  ASSUME NEW f \in Funds, NEW method \in PaymentMethods, NEW c \in Customer \cup {NoCustomer}, NEW t \in Nat
  PROVE  /\ MoneyIn(f, method, c, -t) \in Funds
         /\ method = "cash" \/ c # NoCustomer => Holdings(MoneyIn(f, method, c, -t)) = Holdings(f) - t
<1>1. f \in Accounts /\ \A x \in Customer : f.credit[x] >= 0 /\ f.points[x] >= 0
  BY FundsAreAccounts
<1>2. PICK e \in Int : e = -t
  OBVIOUS
<1>3. PICK g : g = MoneyIn(f, method, c, e)
  OBVIOUS
<1>4. /\ g \in Accounts
      /\ \A x \in Customer :
           /\ g.credit[x] = IF method = "store_credit" /\ x = c THEN f.credit[x] - e ELSE f.credit[x]
           /\ g.points[x] = IF method = "loyalty_points" /\ x = c THEN f.points[x] - e ELSE f.points[x]
      /\ method = "cash" \/ c # NoCustomer => Holdings(g) = Holdings(f) + e
  <2>1. f \in Accounts
    BY <1>1
  <2>2. /\ MoneyIn(f, method, c, e) \in Accounts
        /\ method = "cash" \/ c # NoCustomer => Holdings(MoneyIn(f, method, c, e)) = Holdings(f) + e
    BY <2>1, MoneyInFacts
  <2>3. \A x \in Customer :
          /\ MoneyIn(f, method, c, e).credit[x]
               = IF method = "store_credit" /\ x = c THEN f.credit[x] - e ELSE f.credit[x]
          /\ MoneyIn(f, method, c, e).points[x]
               = IF method = "loyalty_points" /\ x = c THEN f.points[x] - e ELSE f.points[x]
    BY <2>1, MoneyInFacts
  <2> QED BY <1>3, <2>2, <2>3
<1>5. ASSUME NEW x \in Customer PROVE g.credit[x] >= 0 /\ g.points[x] >= 0
  <2>1. PICK m \in Int, n \in Int : m = f.credit[x] /\ n = f.points[x] /\ m >= 0 /\ n >= 0
    BY <1>1 DEF Accounts
  <2>2. /\ g.credit[x] = IF method = "store_credit" /\ x = c THEN m - e ELSE m
        /\ g.points[x] = IF method = "loyalty_points" /\ x = c THEN n - e ELSE n
    BY <1>4, <2>1
  <2> QED BY <1>2, <2>1, <2>2
<1>6. g \in Funds
  BY <1>4, <1>5, FundsAreAccounts
<1>7. Holdings(f) \in Int
  BY <1>1, HoldingsNumber
<1> QED BY <1>2, <1>3, <1>4, <1>6, <1>7

\* Copies reserved, and given up
LEMMA ReservedFacts ==
  ASSUME NEW row \in Reservation, NEW n \in Nat
  PROVE  /\ InsertReservation(row, n) \in Reservation /\ InsertReservation(row, n).reserved = row.reserved + n
         /\ InsertReservation(row, n).deducted = row.deducted
  BY DEF InsertReservation, Reservation

LEMMA ReleasedFacts ==
  ASSUME NEW row \in Reservation
  PROVE  /\ ReleaseReservations(row) \in Reservation /\ ReleaseReservations(row).reserved = 0
         /\ ReleaseReservations(row).deducted = row.deducted
<1>1. PICK k : k = [row EXCEPT !.released = @ + row.reserved]
  OBVIOUS
<1>2. k \in Reservation /\ k.deducted = row.deducted
  BY <1>1 DEF Reservation
<1>3. PICK j : j = ReleaseReservations(row)
  OBVIOUS
<1>4. j = [k EXCEPT !.reserved = 0]
  BY <1>1, <1>3 DEF ReleaseReservations
<1>5. j \in Reservation /\ j.reserved = 0 /\ j.deducted = row.deducted
  BY <1>2, <1>4 DEF Reservation
<1> QED BY <1>3, <1>5

LEMMA DeductedFacts ==
  ASSUME NEW row \in Reservation, NEW n \in Nat, n <= row.reserved
  PROVE  /\ DeductReserved(row, n) \in Reservation /\ DeductReserved(row, n).reserved = row.reserved - n
         /\ DeductReserved(row, n).deducted = row.deducted + n
<1>1. row.reserved \in Nat /\ row.deducted \in Nat
  BY DEF Reservation
<1>2. Min({n, row.reserved}) = n
  BY <1>1, SmallerOf
<1>3. PICK k : k = [row EXCEPT !.reserved = @ - n]
  OBVIOUS
<1>4. k \in Reservation /\ k.deducted = row.deducted /\ k.reserved = row.reserved - n
  BY <1>1, <1>3 DEF Reservation
<1>5. PICK j : j = DeductReserved(row, n)
  OBVIOUS
<1>6. j = [k EXCEPT !.deducted = @ + n]
  BY <1>2, <1>3, <1>5 DEF DeductReserved
<1>7. j \in Reservation /\ j.reserved = row.reserved - n /\ j.deducted = row.deducted + n
  BY <1>1, <1>4, <1>6 DEF Reservation
<1> QED BY <1>5, <1>7

-----------------------------------------------------------------------------
(* Confirmation.                                                           *)

NewPayment(method, t) == [method |-> method, amount |-> t, refunded |-> 0]

NewDebt(owed) == [status |-> "Pending", original |-> owed, outstanding |-> owed, pastDue |-> FALSE]

\* The copies of a book an order asks for
Asks(r, b) == Copies(r.lines, b, "quantity")

\* A confirmation that takes t, field by field
Confirmed(o, method, t, owed, q, ps, w) ==
  /\ order[o].status = "DRAFT"
  /\ t \in Nat /\ t <= Total(order[o].lines)
  /\ order[o].saleType = "cash_sale" => t = Total(order[o].lines)
  /\ EnoughStock(order[o].lines)
  /\ t > 0 => method # "loyalty_points" /\ Covers(method, order[o].customer, t)
  /\ ps = IF t = 0 THEN payments[o] ELSE Append(payments[o], NewPayment(method, t))
  /\ owed = Total(order[o].lines) - NetPaid(ps)
  /\ q = Rewritten(order[o], "CONFIRMED", AllWaiting(order[o].lines),
                   IF t = 0 THEN order[o].payStatus ELSE IF t < Total(order[o].lines) THEN "partial" ELSE "paid",
                   IF order[o].saleType = "credit_sale" /\ owed > 0 THEN NewDebt(owed) ELSE order[o].debt)
  /\ w = [b \in Book |-> InsertReservation(rows[o][b], Asks(order[o], b))]
  /\ Writes(o, q, ps, w)
  /\ stock' = [b \in Book |-> stock[b] - Asks(order[o], b)]
  /\ funds' = IF t = 0 THEN funds ELSE MoneyIn(funds, method, order[o].customer, t)
  /\ fulfilling' = fulfilling

LEMMA ConfirmDoes ==
  ASSUME IInv, NEW o \in Order, NEW method \in Methods, NEW deposit \in Deposits \cup {0}, Confirm(o, method, deposit)
  PROVE  \E t, owed, q, ps, w : Confirmed(o, method, t, owed, q, ps, w)
<1>0. order[o] \in OrderRow
  BY TypedOrders DEF IInv
<1>1. PICK t : t = IF order[o].saleType = "cash_sale" THEN Total(order[o].lines) ELSE deposit
  OBVIOUS
<1>2. PICK ps : ps = IF t = 0 THEN payments[o] ELSE Append(payments[o], NewPayment(method, t))
  OBVIOUS
<1>3. PICK owed : owed = Total(order[o].lines) - NetPaid(ps)
  OBVIOUS
<1>4. PICK q : q = Rewritten(order[o], "CONFIRMED", AllWaiting(order[o].lines),
                   IF t = 0 THEN order[o].payStatus ELSE IF t < Total(order[o].lines) THEN "partial" ELSE "paid",
                   IF order[o].saleType = "credit_sale" /\ owed > 0 THEN NewDebt(owed) ELSE order[o].debt)
  OBVIOUS
<1>5. PICK w : w = [b \in Book |-> InsertReservation(rows[o][b], Asks(order[o], b))]
  OBVIOUS
<1>6. t \in Nat /\ t <= Total(order[o].lines)
  <2>1. Total(order[o].lines) \in Nat
    BY <1>0, RowFields, TotalNumber
  <2>2. deposit \in Nat /\ deposit <= Total(order[o].lines)
    BY OrdersAssumption DEF Confirm
  <2> QED BY <1>1, <2>1, <2>2
<1>7. /\ order[o].status = "DRAFT" /\ EnoughStock(order[o].lines) /\ fulfilling' = fulfilling
      /\ t > 0 => method # "loyalty_points" /\ Covers(method, order[o].customer, t)
  BY <1>1 DEF Confirm
<1>8. stock' = [b \in Book |-> stock[b] - Asks(order[o], b)]
  BY DEF Confirm, Asks
<1>9. funds' = IF t = 0 THEN funds ELSE MoneyIn(funds, method, order[o].customer, t)
  BY <1>1 DEF Confirm
<1>10. payments' = [payments EXCEPT ![o] = ps]
  BY <1>1, <1>2 DEF Confirm, NewPayment
<1>11. rows' = [rows EXCEPT ![o] = w]
  BY <1>5 DEF Confirm, Asks
<1>12. order' = [order EXCEPT ![o] = q]
  BY <1>1, <1>2, <1>3, <1>4 DEF Confirm, NewPayment, NewDebt, Rewritten
<1>13. Writes(o, q, ps, w)
  BY <1>10, <1>11, <1>12 DEF Writes
<1> QED BY <1>1, <1>2, <1>3, <1>4, <1>5, <1>6, <1>7, <1>8, <1>9, <1>13 DEF Confirmed

LEMMA ConfirmKeeps ==
  ASSUME IInv, NEW o \in Order, NEW method \in PaymentMethods, NEW t, NEW owed, NEW q, NEW ps, NEW w,
         Confirmed(o, method, t, owed, q, ps, w)
  PROVE  Keeps(o, q, ps, w)
<1>0. /\ order[o] \in OrderRow /\ payments[o] \in Payments /\ rows[o] \in [Book -> Reservation]
      /\ funds \in Funds /\ stock \in [Book -> Int] /\ Sound(order[o], payments[o], rows[o])
  BY TypedOrders DEF IInv
<1>1. PICK r \in OrderRow : r = order[o]
  BY <1>0
<1>2. r.status = "DRAFT" /\ t \in Nat /\ EnoughStock(r.lines) /\ r.lines \in Seq(Line) /\ r.lines # <<>>
  BY <1>0, <1>1, RowFields DEF Confirmed, Sound, LinesTell
<1>3. ps \in Payments
  <2>1. CASE t = 0
    BY <1>0, <2>1 DEF Confirmed
  <2>2. CASE t # 0
    <3>1. PICK p : p = NewPayment(method, t)
      OBVIOUS
    <3>2. p \in Payment /\ p.refunded = 0
      BY <1>2, <2>2, <3>1 DEF NewPayment, Payment
    <3>3. ps = Append(payments[o], p)
      BY <2>2, <3>1 DEF Confirmed
    <3> QED BY <1>0, <3>2, <3>3, PaidMore
  <2> QED BY <2>1, <2>2
<1>4. PICK l : l = AllWaiting(r.lines)
  OBVIOUS
<1>5. /\ l \in Seq(Line) /\ DOMAIN l = DOMAIN r.lines /\ l # <<>>
      /\ \A i \in DOMAIN r.lines : /\ l[i].book = r.lines[i].book /\ l[i].quantity = r.lines[i].quantity
                                   /\ l[i].waiting = r.lines[i].quantity /\ l[i].delivered = r.lines[i].delivered
  BY <1>2, <1>4, AllWaitingFacts
<1>6. PICK s, d : /\ q = Rewritten(r, "CONFIRMED", l, s, d)
                  /\ s = (IF t = 0 THEN r.payStatus ELSE IF t < Total(r.lines) THEN "partial" ELSE "paid")
                  /\ d = (IF r.saleType = "credit_sale" /\ owed > 0 THEN NewDebt(owed) ELSE r.debt)
  BY <1>1, <1>4 DEF Confirmed
<1>7. s \in PayStatuses
  BY <1>6, RowFields DEF PayStatuses
<1>8. r.debt = NoDebt /\ NoDebt.status = "None"
  BY <1>0, <1>1, <1>2 DEF Sound, Untouched, NoDebt
<1>9. d \in Debt
  <2>1. Total(r.lines) \in Nat /\ NetPaid(ps) \in Nat
    BY <1>2, <1>3, TotalNumber, PaidNumbers
  <2>2. owed \in Int
    BY <1>1, <2>1 DEF Confirmed
  <2>3. r.debt \in Debt
    BY RowFields
  <2>4. owed > 0 => NewDebt(owed) \in Debt
    BY <2>2 DEF NewDebt, Debt
  <2> QED BY <1>6, <2>3, <2>4
<1>10. q \in OrderRow /\ q.status = "CONFIRMED" /\ q.lines = l /\ q.debt = d
  <2>1. "CONFIRMED" \in Statuses
    BY DEF Statuses
  <2>2. q = Rewritten(r, "CONFIRMED", l, s, d)
    BY <1>6
  <2> QED BY <1>5, <1>7, <1>9, <2>1, <2>2, RewrittenFacts
<1>11. LinesTell(q)
  <2>1. \A i \in DOMAIN r.lines : r.lines[i].delivered = 0
    BY <1>0, <1>1, <1>2 DEF Sound, LinesTell
  <2> QED BY <1>5, <1>10, <2>1 DEF LinesTell
<1>12. ASSUME NEW b \in Book
       PROVE  /\ Asks(r, b) \in Nat /\ Waits(q, b) = Asks(r, b) /\ Went(q, b) = 0
              /\ Waits(r, b) = 0 /\ Went(r, b) = 0 /\ rows[o][b].reserved = 0 /\ rows[o][b].deducted = 0
  <2>1. "quantity" \in Fields /\ "waiting" \in Fields
    BY DEF Fields
  <2>2. \A i \in DOMAIN r.lines : l[i].book = r.lines[i].book /\ l[i]["waiting"] = r.lines[i]["quantity"]
    BY <1>5
  <2>3. Copies(l, b, "waiting") = Copies(r.lines, b, "quantity")
    BY <1>2, <1>5, <2>1, <2>2, CopiesSame
  <2>4. \A i \in DOMAIN q.lines : q.lines[i].delivered = 0
    BY <1>10, <1>11 DEF LinesTell
  <2>5. Went(q, b) = 0
    BY <1>10, <2>4, NothingHeld
  <2>6. Copies(r.lines, b, "quantity") \in Nat
    BY <1>2, <2>1, CopiesNumber
  <2>7. Waits(r, b) = 0 /\ Went(r, b) = 0 /\ rows[o][b].reserved = 0 /\ rows[o][b].deducted = 0
    <3>1. Sound(r, payments[o], rows[o]) /\ r.status \in {"NONE", "DELETED", "DRAFT", "CANCELLED"}
      BY <1>0, <1>1, <1>2
    <3> QED BY <3>1, HoldsNothing
  <2> QED BY <1>10, <2>3, <2>5, <2>6, <2>7 DEF Waits, Asks
<1>13. w \in [Book -> Reservation] /\ RowsMatch(q, w)
  <2>1. w = [b \in Book |-> InsertReservation(rows[o][b], Asks(r, b))]
    BY <1>1 DEF Confirmed
  <2>2. ASSUME NEW b \in Book
        PROVE  w[b] \in Reservation /\ w[b].reserved = Waits(q, b) /\ w[b].deducted = Went(q, b)
    <3>1. PICK row \in Reservation, n \in Nat : row = rows[o][b] /\ n = Asks(r, b)
      BY <1>0, <1>12
    <3>2. w[b] = InsertReservation(row, n)
      BY <2>1, <3>1
    <3>3. /\ InsertReservation(row, n) \in Reservation /\ InsertReservation(row, n).reserved = row.reserved + n
          /\ InsertReservation(row, n).deducted = row.deducted
      BY ReservedFacts
    <3> QED BY <1>12, <3>1, <3>2, <3>3
  <2>3. w \in [Book -> Reservation]
    BY <2>1, <2>2
  <2> QED BY <2>2, <2>3 DEF RowsMatch
<1>14. Sound(q, ps, w)
  BY <1>3, <1>10, <1>11, <1>13 DEF Sound, Untouched
<1>15. ASSUME NEW b \in Book
       PROVE  /\ stock'[b] = stock[b] - Asks(r, b) /\ stock'[b] \in Int
              /\ ~NegativeAllowed => stock'[b] >= 0
              /\ stock'[b] + Waits(q, b) + Went(q, b) = stock[b] + Waits(r, b) + Went(r, b)
  <2>1. PICK n \in Nat, k \in Int : n = Asks(r, b) /\ k = stock[b]
    BY <1>0, <1>12
  <2>2. stock'[b] = k - n
    BY <1>1, <2>1 DEF Confirmed
  <2>3. ~NegativeAllowed => k - n >= 0
    <3>1. ~NegativeAllowed => (n > 0 => Rules!Available(k) >= n)
      BY <1>2, <2>1 DEF EnoughStock, Asks
    <3>2. ~NegativeAllowed => k >= 0
      BY <2>1 DEF IInv, NeverOversold
    <3> QED BY <2>1, <3>1, <3>2 DEF Rules!Available
  <2> QED BY <1>12, <2>1, <2>2, <2>3
<1>16. stock' \in [Book -> Int]
  <2>1. stock' = [b \in Book |-> stock[b] - Asks(r, b)]
    BY <1>1 DEF Confirmed
  <2> QED BY <1>15, <2>1
<1>17. funds' \in Funds
  <2>1. CASE t = 0
    BY <1>0, <2>1 DEF Confirmed
  <2>2. CASE t # 0
    <3>1. funds' = MoneyIn(funds, method, r.customer, t) /\ Covers(method, r.customer, t)
      BY <1>1, <1>2, <2>2 DEF Confirmed
    <3>2. r.customer \in Customer \cup {NoCustomer}
      BY RowFields
    <3> QED BY <1>0, <1>2, <3>1, <3>2, CoveredComesIn
  <2> QED BY <2>1, <2>2
<1>18. DebtKept(r.debt, q.debt, payments[o], ps)
  BY <1>8 DEF DebtKept
<1>19. ~(r.status \in Done)
  BY <1>2 DEF Done
<1> QED BY <1>1, <1>14, <1>15, <1>16, <1>17, <1>18, <1>19 DEF Keeps

-----------------------------------------------------------------------------
(* Delivery.                                                               *)

Saved(r) == WithEarned(r, r.earned + PointsToEarn(r))

LEMMA PointsFacts ==
  ASSUME NEW r \in OrderRow
  PROVE  /\ PointsToEarn(r) \in Nat /\ (r.customer = NoCustomer => PointsToEarn(r) = 0)
         /\ PointsToEarn(r) = 0 \/ PointsToEarn(r) = PointsRate * Total(r.lines)
         /\ PointsRate * Total(r.lines) \in Nat
<1>1. Total(r.lines) \in Nat /\ PointsRate \in Nat
  BY RowFields, TotalNumber, OrdersAssumption
<1>2. PointsRate * Total(r.lines) \in Nat
  BY <1>1
<1> QED BY <1>2 DEF PointsToEarn

LEMMA SavedFacts ==
  ASSUME NEW r \in OrderRow
  PROVE  /\ Saved(r) \in OrderRow /\ Saved(r).status = r.status /\ Saved(r).saleType = r.saleType
         /\ Saved(r).customer = r.customer /\ Saved(r).lines = r.lines /\ Saved(r).payStatus = r.payStatus
         /\ Saved(r).debt = r.debt /\ Saved(r).earned = r.earned + PointsToEarn(r)
<1>1. PICK n \in Nat : n = r.earned + PointsToEarn(r)
  BY RowFields, PointsFacts
<1>2. PICK q : q = WithEarned(r, n)
  OBVIOUS
<1>3. /\ q \in OrderRow /\ q.status = r.status /\ q.saleType = r.saleType
      /\ q.customer = r.customer /\ q.lines = r.lines /\ q.payStatus = r.payStatus
      /\ q.debt = r.debt /\ q.earned = n
  BY <1>2, EarnedSet
<1> QED BY <1>1, <1>2, <1>3 DEF Saved

LEMMA SaveAndEarnDoes ==
  ASSUME NEW o \in Order, NEW r \in OrderRow, NEW f \in Funds, SaveAndEarn(o, r, f)
  PROVE  /\ order' = [order EXCEPT ![o] = Saved(r)]
         /\ funds' \in Funds /\ Holdings(funds') = Holdings(f) - PointsToEarn(r)
<1>1. PICK e \in Nat, c \in Customer \cup {NoCustomer} : e = PointsToEarn(r) /\ c = r.customer
  BY PointsFacts, RowFields
<1>2. order' = [order EXCEPT ![o] = Saved(r)]
  BY DEF SaveAndEarn, Saved, WithEarned
<1>3. funds' = Earning(f, c, e)
  BY <1>1 DEF SaveAndEarn, Earning, WithPoints
<1>4. c = NoCustomer => e = 0
  BY <1>1, PointsFacts
<1>5. Earning(f, c, e) \in Funds /\ Holdings(Earning(f, c, e)) = Holdings(f) - e
  BY <1>4, EarningFacts
<1> QED BY <1>1, <1>2, <1>3, <1>5

LEMMA HandedOverFacts ==
  ASSUME NEW r \in OrderRow, NEW handed,
         \A i \in DOMAIN r.lines : handed[i] \in Nat /\ handed[i] <= r.lines[i].waiting
  PROVE  LET q == HandedOver(r, handed)
         IN /\ q \in OrderRow /\ q.saleType = r.saleType /\ q.customer = r.customer /\ q.payStatus = r.payStatus
            /\ q.debt = r.debt /\ q.earned = r.earned /\ q.lines = AfterHanding(r.lines, handed)
            /\ q.status = IF SomethingWaits(q.lines) THEN "PART_DELIVERED" ELSE "COMPLETED"
<1>1. PICK l \in Seq(Line) : l = AfterHanding(r.lines, handed)
  BY RowFields, AfterHandingFacts
<1>2. PICK s : s = IF SomethingWaits(l) THEN "PART_DELIVERED" ELSE "COMPLETED"
  OBVIOUS
<1>3. s \in Statuses
  BY <1>2 DEF Statuses
<1>4. PICK q1 : q1 = WithLines(r, l)
  OBVIOUS
<1>5. PICK q : q = WithStatus(q1, s)
  OBVIOUS
<1>6. HandedOver(r, handed) = q
  BY <1>1, <1>2, <1>4, <1>5 DEF HandedOver, WithLines, WithStatus, AfterHanding, LineMoves
<1>7. /\ q1 \in OrderRow /\ q1.lines = l /\ q1.saleType = r.saleType /\ q1.customer = r.customer
      /\ q1.payStatus = r.payStatus /\ q1.debt = r.debt /\ q1.earned = r.earned
  BY <1>4, LinesSet
<1>8. /\ q \in OrderRow /\ q.lines = l /\ q.saleType = r.saleType /\ q.customer = r.customer
      /\ q.payStatus = r.payStatus /\ q.debt = r.debt /\ q.earned = r.earned /\ q.status = s
  BY <1>3, <1>5, <1>7, StatusSet
<1> QED BY <1>1, <1>2, <1>6, <1>8

\* A delivery, field by field
DeliveredRow(o, handed, r, w) ==
  /\ order[o].status \in {"CONFIRMED", "PART_DELIVERED"}
  /\ \A i \in DOMAIN order[o].lines : handed[i] \in Nat /\ handed[i] <= order[o].lines[i].waiting
  /\ \E i \in DOMAIN order[o].lines : handed[i] > 0
  /\ r = HandedOver(order[o], handed)
  /\ SaveAndEarn(o, r, funds)
  /\ w = [b \in Book |-> DeductReserved(rows[o][b], HandedOf(order[o].lines, handed, b))]
  /\ Writes(o, Saved(r), payments[o], w)
  /\ stock' = stock /\ fulfilling' = fulfilling

LEMMA DeliverDoes ==
  ASSUME IInv, NEW o \in Order, NEW handed \in Handable(order[o].lines), Deliver(o, handed)
  PROVE  \E r, w : r \in OrderRow /\ DeliveredRow(o, handed, r, w)
<1>0. order[o] \in OrderRow /\ funds \in Funds /\ payments \in [Order -> Payments]
  BY TypedOrders DEF IInv
<1>1. \A i \in DOMAIN order[o].lines : handed[i] \in Nat
  <2>1. PICK most : handed \in [DOMAIN order[o].lines -> 0..most]
    BY DEF Handable
  <2> QED BY <2>1
<1>2. \A i \in DOMAIN order[o].lines : handed[i] \in Nat /\ handed[i] <= order[o].lines[i].waiting
  BY <1>1 DEF Deliver
<1>3. PICK r : r = HandedOver(order[o], handed)
  OBVIOUS
<1>4. r \in OrderRow
  <2>1. HandedOver(order[o], handed) \in OrderRow
    BY <1>0, <1>2, HandedOverFacts
  <2> QED BY <1>3, <2>1
<1>5. SaveAndEarn(o, r, funds)
  BY <1>3 DEF Deliver
<1>6. PICK w : w = [b \in Book |-> DeductReserved(rows[o][b], HandedOf(order[o].lines, handed, b))]
  OBVIOUS
<1>7. rows' = [rows EXCEPT ![o] = w]
  BY <1>6 DEF Deliver, HandedOf, SumFunction
<1>8. order' = [order EXCEPT ![o] = Saved(r)]
  BY <1>0, <1>4, <1>5, SaveAndEarnDoes
<1>9. payments' = [payments EXCEPT ![o] = payments[o]]
  BY <1>0 DEF Deliver
<1>10. Writes(o, Saved(r), payments[o], w)
  BY <1>7, <1>8, <1>9 DEF Writes
<1>11. /\ order[o].status \in {"CONFIRMED", "PART_DELIVERED"}
       /\ \E i \in DOMAIN order[o].lines : handed[i] > 0
       /\ stock' = stock /\ fulfilling' = fulfilling
  BY DEF Deliver
<1> QED BY <1>2, <1>3, <1>4, <1>5, <1>6, <1>10, <1>11 DEF DeliveredRow

LEMMA DeliverKeeps ==
  ASSUME IInv, NEW o \in Order, NEW handed, NEW r \in OrderRow, NEW w, DeliveredRow(o, handed, r, w)
  PROVE  Keeps(o, Saved(r), payments[o], w)
<1>0. /\ order[o] \in OrderRow /\ payments[o] \in Payments /\ rows[o] \in [Book -> Reservation]
      /\ funds \in Funds /\ Sound(order[o], payments[o], rows[o])
  BY TypedOrders DEF IInv
<1>1. PICK x \in OrderRow : x = order[o]
  BY <1>0
<1>2. PICK l, q : l = AfterHanding(x.lines, handed) /\ q = Saved(r)
  OBVIOUS
<1>3. /\ x.status \in {"CONFIRMED", "PART_DELIVERED"} /\ x.lines \in Seq(Line)
      /\ \A i \in DOMAIN x.lines : handed[i] \in Nat /\ handed[i] <= x.lines[i].waiting
      /\ \E i \in DOMAIN x.lines : handed[i] > 0
      /\ r = HandedOver(x, handed) /\ SaveAndEarn(o, r, funds)
      /\ w = [b \in Book |-> DeductReserved(rows[o][b], HandedOf(x.lines, handed, b))]
      /\ stock' = stock
  BY <1>1, RowFields DEF DeliveredRow
<1>4. /\ r.debt = x.debt /\ r.lines = l
      /\ r.status = IF SomethingWaits(l) THEN "PART_DELIVERED" ELSE "COMPLETED"
  BY <1>2, <1>3, HandedOverFacts
<1>5. /\ q \in OrderRow /\ q.lines = l /\ q.debt = x.debt
      /\ q.status = IF SomethingWaits(l) THEN "PART_DELIVERED" ELSE "COMPLETED"
  BY <1>2, <1>4, SavedFacts
<1>6. /\ l \in Seq(Line) /\ DOMAIN l = DOMAIN x.lines /\ (x.lines # <<>> => l # <<>>)
      /\ \A i \in DOMAIN x.lines :
           /\ l[i].book = x.lines[i].book /\ l[i].quantity = x.lines[i].quantity
           /\ l[i].waiting \in Nat /\ x.lines[i].waiting = l[i].waiting + handed[i]
           /\ l[i].delivered = x.lines[i].delivered + handed[i]
  BY <1>2, <1>3, AfterHandingFacts
<1>7. \A i \in DOMAIN x.lines : /\ x.lines[i].waiting \in Nat /\ x.lines[i].delivered \in Nat
                                /\ x.lines[i].quantity \in Nat
  BY <1>3, PositionsFinite, LineFields
<1>8. LinesTell(x) /\ RowsMatch(x, rows[o])
  BY <1>0, <1>1 DEF Sound
<1>9. \A i \in DOMAIN x.lines : x.lines[i].waiting + x.lines[i].delivered = x.lines[i].quantity
  BY <1>3, <1>7, <1>8 DEF LinesTell
<1>10. \A i \in DOMAIN l : /\ l[i].waiting + l[i].delivered = l[i].quantity
                           /\ l[i].waiting \in Nat /\ l[i].delivered \in Nat
  <2>1. ASSUME NEW i \in DOMAIN l
        PROVE  /\ l[i].waiting + l[i].delivered = l[i].quantity
               /\ l[i].waiting \in Nat /\ l[i].delivered \in Nat
    <3>1. PICK a \in Nat, b \in Nat, h \in Nat, c \in Nat :
            a = x.lines[i].waiting /\ b = x.lines[i].delivered /\ h = handed[i] /\ c = l[i].waiting
      BY <1>3, <1>6, <1>7, <2>1
    <3>2. a = c + h /\ l[i].delivered = b + h /\ l[i].quantity = a + b
      BY <1>6, <1>9, <2>1, <3>1
    <3> QED BY <3>1, <3>2
  <2> QED BY <2>1
<1>11. \E i \in DOMAIN l : l[i].delivered > 0
  <2>1. PICK i \in DOMAIN x.lines : handed[i] > 0
    BY <1>3
  <2>2. l[i].delivered = x.lines[i].delivered + handed[i] /\ x.lines[i].delivered \in Nat /\ handed[i] \in Nat
    BY <1>3, <1>6, <1>7
  <2> QED BY <1>6, <2>1, <2>2
<1>12. ~SomethingWaits(l) => \A i \in DOMAIN l : l[i].waiting = 0 /\ l[i].delivered = l[i].quantity
  BY <1>10 DEF SomethingWaits
<1>13. l # <<>>
  BY <1>3, <1>6, <1>8 DEF LinesTell
<1>14. LinesTell(q)
  BY <1>5, <1>10, <1>11, <1>12, <1>13 DEF LinesTell
<1>15. ASSUME NEW b \in Book
       PROVE  /\ HandedOf(x.lines, handed, b) \in Nat
              /\ Waits(x, b) = Waits(q, b) + HandedOf(x.lines, handed, b)
              /\ Went(q, b) = Went(x, b) + HandedOf(x.lines, handed, b)
              /\ Waits(x, b) \in Nat /\ Went(x, b) \in Nat /\ Waits(q, b) \in Nat /\ Went(q, b) \in Nat
  <2>1. \A i \in DOMAIN x.lines :
           /\ handed[i] \in Nat
           /\ l[i].book = x.lines[i].book
           /\ x.lines[i].waiting = l[i].waiting + handed[i]
           /\ l[i].delivered = x.lines[i].delivered + handed[i]
    BY <1>3, <1>6
  <2>2. /\ HandedOf(x.lines, handed, b) \in Nat
        /\ Copies(x.lines, b, "waiting") = Copies(l, b, "waiting") + HandedOf(x.lines, handed, b)
        /\ Copies(l, b, "delivered") = Copies(x.lines, b, "delivered") + HandedOf(x.lines, handed, b)
    <3>1. PICK m \in Seq(Line) : m = x.lines
      BY <1>3
    <3>2. l \in Seq(Line) /\ DOMAIN l = DOMAIN m
      BY <1>6, <3>1
    <3>3. \A i \in DOMAIN m :
           /\ handed[i] \in Nat
           /\ l[i].book = m[i].book
           /\ m[i].waiting = l[i].waiting + handed[i]
           /\ l[i].delivered = m[i].delivered + handed[i]
      BY <2>1, <3>1
    <3>4. /\ HandedOf(m, handed, b) \in Nat
          /\ Copies(m, b, "waiting") = Copies(l, b, "waiting") + HandedOf(m, handed, b)
          /\ Copies(l, b, "delivered") = Copies(m, b, "delivered") + HandedOf(m, handed, b)
      BY ONLY <3>1, <3>2, <3>3, CopiesHanded
    <3> QED BY <3>1, <3>4
  <2>3. Waits(x, b) \in Nat /\ Went(x, b) \in Nat /\ Waits(q, b) \in Nat /\ Went(q, b) \in Nat
    BY <1>5, HeldNumbers
  <2> QED BY <1>5, <2>2, <2>3 DEF Waits, Went
<1>16. w \in [Book -> Reservation] /\ RowsMatch(q, w)
  <2>1. ASSUME NEW b \in Book
        PROVE  w[b] \in Reservation /\ w[b].reserved = Waits(q, b) /\ w[b].deducted = Went(q, b)
    <3>1. PICK row \in Reservation, n \in Nat : row = rows[o][b] /\ n = HandedOf(x.lines, handed, b)
      BY <1>0, <1>15
    <3>2. row.reserved = Waits(x, b) /\ row.deducted = Went(x, b)
      BY <1>8, <3>1 DEF RowsMatch
    <3>3. n <= row.reserved
      BY <1>15, <3>1, <3>2
    <3>4. w[b] = DeductReserved(row, n)
      BY <1>3, <3>1
    <3>5. /\ DeductReserved(row, n) \in Reservation /\ DeductReserved(row, n).reserved = row.reserved - n
          /\ DeductReserved(row, n).deducted = row.deducted + n
      BY <3>3, DeductedFacts
    <3> QED BY <1>15, <3>1, <3>2, <3>4, <3>5
  <2>2. w \in [Book -> Reservation]
    BY <1>3, <2>1
  <2> QED BY <2>1, <2>2 DEF RowsMatch
<1>17. Sound(q, payments[o], w)
  <2>1. q.status \in {"PART_DELIVERED", "COMPLETED"}
    BY <1>5
  <2>2. Untouched(q)
    BY <2>1 DEF Untouched
  <2>3. q \in OrderRow /\ payments[o] \in Payments
    BY <1>0, <1>5
  <2> QED BY <1>14, <1>16, <2>2, <2>3 DEF Sound
<1>18. stock' \in [Book -> Int] /\ (~NegativeAllowed => \A b \in Book : stock'[b] >= 0)
  BY <1>3 DEF IInv, TypeOK, NeverOversold
<1>19. \A b \in Book : stock'[b] + Waits(q, b) + Went(q, b) = stock[b] + Waits(x, b) + Went(x, b)
  <2>1. ASSUME NEW b \in Book
        PROVE  stock'[b] + Waits(q, b) + Went(q, b) = stock[b] + Waits(x, b) + Went(x, b)
    <3>1. PICK n \in Nat, wx \in Nat, gx \in Nat, wq \in Nat, gq \in Nat, k \in Int :
            /\ n = HandedOf(x.lines, handed, b) /\ wx = Waits(x, b) /\ gx = Went(x, b)
            /\ wq = Waits(q, b) /\ gq = Went(q, b) /\ k = stock[b]
      BY <1>15 DEF IInv, TypeOK
    <3>2. wx = wq + n /\ gq = gx + n
      BY <1>15, <3>1
    <3> QED BY <1>3, <3>1, <3>2
  <2> QED BY <2>1
<1>20. funds' \in Funds
  BY <1>0, <1>3, SaveAndEarnDoes
<1>21. DebtKept(x.debt, q.debt, payments[o], payments[o])
  BY <1>5, SameDebt
<1>22. ~(x.status \in Done)
  BY <1>3 DEF Done
<1> QED BY <1>1, <1>2, <1>17, <1>18, <1>19, <1>20, <1>21, <1>22 DEF Keeps

-----------------------------------------------------------------------------
(* fulfill, its two actions.                                               *)

LEMMA FulfillReadKeeps ==
  ASSUME IInv, NEW o \in Order, FulfillRead(o)
  PROVE  IInv' /\ order' = order /\ payments' = payments /\ stock' = stock /\ funds' = funds
<1>1. /\ order' = order /\ payments' = payments /\ rows' = rows /\ stock' = stock /\ funds' = funds
      /\ fulfilling' = fulfilling \cup {o}
  BY DEF FulfillRead
<1>2. TypeOK'
  BY <1>1 DEF IInv, TypeOK
<1>3. \A x \in Order : Sound(order'[x], payments'[x], rows'[x])
  BY <1>1 DEF IInv
<1>4. ASSUME "fulfill" \notin DraftRequests PROVE order[o].status \in Done
  <2>1. order[o] \in OrderRow /\ LinesTell(order[o])
    BY DEF IInv, Sound
  <2>2. /\ order[o].status \notin {"NONE", "DELETED", "DRAFT"} /\ ~SomethingWaits(order[o].lines)
    BY <1>4 DEF FulfillRead, Stored
  <2>3. order[o].status # "CONFIRMED"
    <3>1. SUFFICES ASSUME order[o].status = "CONFIRMED" PROVE FALSE
      OBVIOUS
    <3>2. PICK l \in Seq(Line) : l = order[o].lines
      BY <2>1, RowFields
    <3>3. l # <<>> /\ \A i \in DOMAIN l : l[i].waiting = l[i].quantity
      BY <2>1, <3>1, <3>2 DEF LinesTell
    <3>4. 1 \in DOMAIN l
      BY <3>2, <3>3
    <3>5. l[1] \in Line
      BY <3>4, PositionsFinite
    <3>6. l[1].waiting > 0
      BY <3>3, <3>4, <3>5, LineFields
    <3> QED BY <2>2, <3>2, <3>4, <3>6 DEF SomethingWaits
  <2>4. order[o].status # "PART_DELIVERED"
    BY <2>1, <2>2 DEF LinesTell
  <2>5. order[o].status \in Statuses
    BY <2>1, RowFields
  <2> QED BY <2>2, <2>3, <2>4, <2>5 DEF Statuses, Done
<1>5. "fulfill" \notin DraftRequests => \A x \in fulfilling' : order'[x].status \in Done
  BY <1>1, <1>4 DEF IInv
<1>6. NeverOversold'
  BY <1>1 DEF IInv, NeverOversold
<1> QED BY <1>1, <1>2, <1>3, <1>5, <1>6 DEF IInv

CompletedRow(o) == WithStatus(order[o], "COMPLETED")

LEMMA FulfillCommitKeeps ==
  ASSUME IInv, NEW o \in Order, FulfillCommit(o)
  PROVE  /\ Writes(o, Saved(CompletedRow(o)), payments[o], rows[o])
         /\ Keeps(o, Saved(CompletedRow(o)), payments[o], rows[o])
         /\ fulfilling' \subseteq fulfilling /\ order[o].status = "CONFIRMED"
         /\ CompletedRow(o) \in OrderRow /\ SaveAndEarn(o, CompletedRow(o), funds)
<1>0. /\ order[o] \in OrderRow /\ payments[o] \in Payments /\ rows[o] \in [Book -> Reservation]
      /\ funds \in Funds /\ Sound(order[o], payments[o], rows[o])
      /\ payments \in [Order -> Payments] /\ rows \in [Order -> [Book -> Reservation]]
  BY TypedOrders DEF IInv
<1>1. PICK x \in OrderRow : x = order[o]
  BY <1>0
<1>2. PICK r, q : r = CompletedRow(o) /\ q = Saved(r)
  OBVIOUS
<1>3. /\ x.status = "CONFIRMED" /\ fulfilling' \subseteq fulfilling /\ o \in fulfilling
      /\ SaveAndEarn(o, r, funds) /\ payments' = payments /\ rows' = rows /\ stock' = stock
  BY <1>1, <1>2 DEF FulfillCommit, CompletedRow, WithStatus
<1>4. r \in OrderRow /\ r.status = "COMPLETED" /\ r.lines = x.lines /\ r.debt = x.debt
  <2>1. "COMPLETED" \in Statuses
    BY DEF Statuses
  <2>2. r = WithStatus(x, "COMPLETED")
    BY <1>1, <1>2 DEF CompletedRow
  <2> QED BY <2>1, <2>2, StatusSet
<1>5. q \in OrderRow /\ q.status = "COMPLETED" /\ q.lines = x.lines /\ q.debt = x.debt
  BY <1>2, <1>4, SavedFacts
<1>6. order' = [order EXCEPT ![o] = q] /\ funds' \in Funds
  BY <1>0, <1>2, <1>3, <1>4, SaveAndEarnDoes
<1>7. Writes(o, q, payments[o], rows[o])
  BY <1>0, <1>3, <1>6 DEF Writes
<1>8. "fulfill" \in DraftRequests
  BY <1>1, <1>3 DEF IInv, Done
<1>9. LinesTell(q)
  <2>1. x.lines # <<>>
    BY <1>0, <1>1, <1>3 DEF Sound, LinesTell
  <2> QED BY <1>5, <1>8, <2>1 DEF LinesTell
<1>10. \A b \in Book : Waits(q, b) = Waits(x, b) /\ Went(q, b) = Went(x, b)
  BY <1>5 DEF Waits, Went
<1>11. RowsMatch(q, rows[o])
  BY <1>0, <1>1, <1>10 DEF Sound, RowsMatch
<1>12. Sound(q, payments[o], rows[o])
  BY <1>0, <1>5, <1>9, <1>11 DEF Sound, Untouched
<1>13. /\ stock' \in [Book -> Int]
       /\ ~NegativeAllowed => \A b \in Book : stock'[b] >= 0
       /\ \A b \in Book : stock'[b] + Waits(q, b) + Went(q, b) = stock[b] + Waits(order[o], b) + Went(order[o], b)
  <2>1. \A b \in Book : Waits(q, b) = Waits(order[o], b) /\ Went(q, b) = Went(order[o], b)
    BY <1>1, <1>10
  <2>2. stock' = stock
    BY <1>3
  <2> QED BY <2>1, <2>2, SameShelf
<1>14. DebtKept(order[o].debt, q.debt, payments[o], payments[o])
  BY <1>1, <1>5, SameDebt
<1>15. Keeps(o, q, payments[o], rows[o])
  BY <1>5, <1>6, <1>12, <1>13, <1>14 DEF Keeps, Done
<1> QED BY <1>1, <1>2, <1>3, <1>4, <1>7, <1>15

LEMMA FulfillRefusedKeeps ==
  ASSUME IInv, NEW o \in Order, FulfillRefused(o)
  PROVE  IInv' /\ order' = order /\ payments' = payments /\ stock' = stock /\ funds' = funds
<1>1. /\ order' = order /\ payments' = payments /\ rows' = rows /\ stock' = stock /\ funds' = funds
      /\ fulfilling' \subseteq fulfilling
  BY DEF FulfillRefused
<1>2. TypeOK'
  BY <1>1 DEF IInv, TypeOK
<1>3. NeverOversold'
  BY <1>1 DEF IInv, NeverOversold
<1> QED BY <1>1, <1>2, <1>3 DEF IInv

-----------------------------------------------------------------------------
(* Cancellation.                                                           *)

\* A cancellation, field by field: net was kept of the payments, d is the debt that stays
CancelledRow(o, refundTo, net, d, q, ps, w) ==
  /\ order[o].status \in {"DRAFT", "CONFIRMED"}
  /\ net = NetPaid(payments[o])
  /\ net > 0 /\ refundTo = "store_credit" => order[o].customer # NoCustomer
  /\ ~(net > 0 /\ order[o].debt.status = "WrittenOff")
  /\ d = CancelledDebt(order[o].debt, net)
  /\ ps = IF net > 0 THEN AllBack(payments[o]) ELSE payments[o]
  /\ q = Rewritten(order[o], "CANCELLED", NoneWaiting(order[o].lines),
                   IF net > 0 THEN PaymentStatus(order[o].saleType, Total(order[o].lines), ps) ELSE order[o].payStatus, d)
  /\ w = [b \in Book |-> ReleaseReservations(rows[o][b])]
  /\ Writes(o, q, ps, w)
  /\ stock' = [b \in Book |-> stock[b] + Waits(order[o], b)]
  /\ funds' = IF net > 0 THEN MoneyReturned(funds, order[o].customer, payments[o], refundTo) ELSE funds
  /\ fulfilling' = fulfilling

LEMMA CancelDoes ==
  ASSUME IInv, NEW o \in Order, NEW refundTo, Cancel(o, refundTo)
  PROVE  \E net, d, q, ps, w : CancelledRow(o, refundTo, net, d, q, ps, w)
<1>0. order[o] \in OrderRow /\ payments[o] \in Payments /\ payments \in [Order -> Payments]
  BY TypedOrders DEF IInv
<1>1. PICK net \in Nat : net = NetPaid(payments[o])
  BY <1>0, PaidNumbers
<1>2. PICK d : d = CancelledDebt(order[o].debt, net)
  OBVIOUS
<1>3. PICK ps : ps = IF net > 0 THEN AllBack(payments[o]) ELSE payments[o]
  OBVIOUS
<1>4. PICK q : q = Rewritten(order[o], "CANCELLED", NoneWaiting(order[o].lines),
                   IF net > 0 THEN PaymentStatus(order[o].saleType, Total(order[o].lines), ps) ELSE order[o].payStatus, d)
  OBVIOUS
<1>5. PICK w : w = [b \in Book |-> ReleaseReservations(rows[o][b])]
  OBVIOUS
<1>6. /\ order[o].status \in {"DRAFT", "CONFIRMED"} /\ fulfilling' = fulfilling
      /\ net > 0 /\ refundTo = "store_credit" => order[o].customer # NoCustomer
      /\ ~(net > 0 /\ order[o].debt.status = "WrittenOff")
  BY <1>1 DEF Cancel
<1>7. stock' = [b \in Book |-> stock[b] + Waits(order[o], b)]
  BY DEF Cancel, PutBack, Waits
<1>8. funds' = IF net > 0 THEN MoneyReturned(funds, order[o].customer, payments[o], refundTo) ELSE funds
  BY <1>1 DEF Cancel
<1>9. payments' = [payments EXCEPT ![o] = ps]
  <2>1. CASE net > 0
    <3>1. payments' = [payments EXCEPT ![o] = AllBack(payments[o])]
      BY <1>1, <2>1 DEF Cancel, AllBack
    <3> QED BY <1>3, <2>1, <3>1
  <2>2. CASE ~(net > 0)
    <3>1. payments' = payments
      BY <1>1, <2>2 DEF Cancel
    <3> QED BY <1>0, <1>3, <2>2, <3>1
  <2> QED BY <2>1, <2>2
<1>10. rows' = [rows EXCEPT ![o] = w]
  BY <1>5 DEF Cancel
<1>11. order' = [order EXCEPT ![o] = q]
  <2>1. DebtAfterCancel(order[o].debt, net > 0) = d
    BY <1>2 DEF DebtAfterCancel, CancelledDebt, DebtSet
  <2>2. CASE net > 0
    <3>1. order[o].debt \in Debt
      BY <1>0, RowFields
    <3>2. d \in Debt /\ d.status \in {"None", "WrittenOff", "Cancelled"}
      BY <1>2, <2>2, <3>1, CancelledDebtFacts
    <3>3. PICK owed \in Nat : owed = Outstanding(Total(order[o].lines), AllBack(payments[o]))
      <4>1. Total(order[o].lines) \in Nat /\ AllBack(payments[o]) \in Payments
        BY <1>0, RowFields, TotalNumber, AllPaidBack
      <4>2. Outstanding(Total(order[o].lines), AllBack(payments[o])) \in Nat
        BY <4>1, OutstandingIs, PaidNumbers
      <4> QED BY <4>2
    <3>4. DebtAfterRefund(d, owed) = d
      BY <3>2, DebtAfterRefundTyped
    <3>5. order' = [order EXCEPT ![o] =
             Rewritten(order[o], "CANCELLED", NoneWaiting(order[o].lines),
                       PaymentStatus(order[o].saleType, Total(order[o].lines), AllBack(payments[o])),
                       IF order[o].saleType = "credit_sale" THEN DebtAfterRefund(d, owed) ELSE d)]
      BY <1>1, <1>2, <2>2, <3>3 DEF Cancel, AllBack, Rewritten, DebtAfterCancel, CancelledDebt, DebtSet
    <3> QED BY <1>3, <1>4, <2>2, <3>4, <3>5
  <2>3. CASE ~(net > 0)
    <3>1. order' = [order EXCEPT ![o] =
             Rewritten(order[o], "CANCELLED", NoneWaiting(order[o].lines), order[o].payStatus, d)]
      BY <1>1, <1>2, <2>3 DEF Cancel, Rewritten, DebtAfterCancel, CancelledDebt, DebtSet
    <3> QED BY <1>4, <2>3, <3>1
  <2> QED BY <2>2, <2>3
<1>12. Writes(o, q, ps, w)
  BY <1>9, <1>10, <1>11 DEF Writes
<1> QED BY <1>1, <1>2, <1>3, <1>4, <1>5, <1>6, <1>7, <1>8, <1>12 DEF CancelledRow

LEMMA CancelKeeps ==
  ASSUME IInv, NEW o \in Order, NEW refundTo, NEW net, NEW d, NEW q, NEW ps, NEW w,
         CancelledRow(o, refundTo, net, d, q, ps, w)
  PROVE  Keeps(o, q, ps, w)
<1>0. /\ order[o] \in OrderRow /\ payments[o] \in Payments /\ rows[o] \in [Book -> Reservation]
      /\ funds \in Funds /\ stock \in [Book -> Int] /\ Sound(order[o], payments[o], rows[o])
  BY TypedOrders DEF IInv
<1>1. PICK r \in OrderRow : r = order[o]
  BY <1>0
<1>2. /\ r.status \in {"DRAFT", "CONFIRMED"} /\ net = NetPaid(payments[o]) /\ net \in Nat
      /\ r.lines \in Seq(Line) /\ r.lines # <<>> /\ r.debt \in Debt
  <2>1. NetPaid(payments[o]) \in Nat
    BY <1>0, PaidNumbers
  <2> QED BY <1>0, <1>1, <2>1, RowFields DEF CancelledRow, Sound, LinesTell
<1>3. ps \in Payments
  BY <1>0, AllPaidBack DEF CancelledRow
<1>4. PICK l : l = NoneWaiting(r.lines)
  OBVIOUS
<1>5. /\ l \in Seq(Line) /\ DOMAIN l = DOMAIN r.lines /\ l # <<>>
      /\ \A i \in DOMAIN r.lines : l[i].waiting = 0 /\ l[i].delivered = r.lines[i].delivered
  BY <1>2, <1>4, NoneWaitingFacts
<1>6. PICK s : /\ q = Rewritten(r, "CANCELLED", l, s, d)
               /\ s = (IF net > 0 THEN PaymentStatus(r.saleType, Total(r.lines), ps) ELSE r.payStatus)
  BY <1>1, <1>4 DEF CancelledRow
<1>7. s \in PayStatuses
  <2>1. r.saleType \in SaleTypes /\ r.payStatus \in PayStatuses /\ Total(r.lines) \in Nat /\ Total(r.lines) > 0
    BY <1>2, RowFields, TotalNumber
  <2>2. PaymentStatus(r.saleType, Total(r.lines), ps) \in PayStatuses
    BY <1>3, <2>1, PaymentStatusIs
  <2> QED BY <1>6, <2>1, <2>2
<1>8. /\ d \in Debt /\ ~IsOpen(d) /\ (r.debt.status \in {"WrittenOff", "Cancelled"} => d = r.debt)
  <2>1. d = CancelledDebt(r.debt, net)
    BY <1>1 DEF CancelledRow
  <2> QED BY <1>2, <2>1, CancelledDebtFacts
<1>9. q \in OrderRow /\ q.status = "CANCELLED" /\ q.lines = l /\ q.debt = d
  <2>1. "CANCELLED" \in Statuses
    BY DEF Statuses
  <2>2. q = Rewritten(r, "CANCELLED", l, s, d)
    BY <1>6
  <2> QED BY <1>5, <1>7, <1>8, <2>1, <2>2, RewrittenFacts
<1>10. \A i \in DOMAIN r.lines : r.lines[i].delivered = 0
  BY <1>0, <1>1, <1>2 DEF Sound, LinesTell
<1>11. LinesTell(q)
  BY <1>5, <1>9, <1>10 DEF LinesTell
<1>12. ASSUME NEW b \in Book
       PROVE  Waits(q, b) = 0 /\ Went(q, b) = 0 /\ Went(r, b) = 0 /\ Waits(r, b) \in Nat
  <2>1. \A i \in DOMAIN q.lines : q.lines[i].waiting = 0 /\ q.lines[i].delivered = 0
    BY <1>5, <1>9, <1>10
  <2>2. Waits(q, b) = 0 /\ Went(q, b) = 0
    BY <1>9, <2>1, NothingHeld
  <2>3. Went(r, b) = 0
    BY <1>10, NothingHeld
  <2> QED BY <2>2, <2>3, HeldNumbers
<1>13. w \in [Book -> Reservation] /\ RowsMatch(q, w)
  <2>1. w = [b \in Book |-> ReleaseReservations(rows[o][b])]
    BY DEF CancelledRow
  <2>2. ASSUME NEW b \in Book
        PROVE  w[b] \in Reservation /\ w[b].reserved = Waits(q, b) /\ w[b].deducted = Went(q, b)
    <3>1. PICK row \in Reservation : row = rows[o][b]
      BY <1>0
    <3>2. row.deducted = Went(r, b)
      BY <1>0, <1>1, <3>1 DEF Sound, RowsMatch
    <3>3. w[b] = ReleaseReservations(row)
      BY <2>1, <3>1
    <3>4. /\ ReleaseReservations(row) \in Reservation /\ ReleaseReservations(row).reserved = 0
          /\ ReleaseReservations(row).deducted = row.deducted
      BY ReleasedFacts
    <3> QED BY <1>12, <3>2, <3>3, <3>4
  <2>3. w \in [Book -> Reservation]
    BY <2>1, <2>2
  <2> QED BY <2>2, <2>3 DEF RowsMatch
<1>14. Sound(q, ps, w)
  BY <1>3, <1>9, <1>11, <1>13 DEF Sound, Untouched
<1>15. ASSUME NEW b \in Book
       PROVE  /\ stock'[b] = stock[b] + Waits(r, b) /\ stock'[b] \in Int
              /\ ~NegativeAllowed => stock'[b] >= 0
              /\ stock'[b] + Waits(q, b) + Went(q, b) = stock[b] + Waits(r, b) + Went(r, b)
  <2>1. PICK n \in Nat, k \in Int : n = Waits(r, b) /\ k = stock[b]
    BY <1>0, <1>12
  <2>2. stock'[b] = k + n
    BY <1>1, <2>1 DEF CancelledRow
  <2>3. ~NegativeAllowed => k >= 0
    BY <2>1 DEF IInv, NeverOversold
  <2> QED BY <1>12, <2>1, <2>2, <2>3
<1>16. stock' \in [Book -> Int]
  <2>1. stock' = [b \in Book |-> stock[b] + Waits(r, b)]
    BY <1>1 DEF CancelledRow
  <2> QED BY <1>15, <2>1
<1>17. funds' \in Funds
  <2>1. r.customer \in Customer \cup {NoCustomer}
    BY RowFields
  <2>2. MoneyReturned(funds, r.customer, payments[o], refundTo) \in Funds
    BY <1>0, <2>1, MoneyReturnedFacts
  <2> QED BY <1>0, <1>1, <2>2 DEF CancelledRow
<1>18. DebtKept(r.debt, q.debt, payments[o], ps)
  BY <1>8, <1>9 DEF DebtKept
<1>19. ~(r.status \in Done)
  BY <1>2 DEF Done
<1> QED BY <1>1, <1>14, <1>15, <1>16, <1>17, <1>18, <1>19 DEF Keeps

-----------------------------------------------------------------------------
(* Removal of an order.                                                    *)

DeletedRow == [Absent EXCEPT !.status = "DELETED"]

LEMMA AbsentFacts ==
  /\ Absent \in OrderRow /\ DeletedRow \in OrderRow
  /\ Absent.status = "NONE" /\ DeletedRow.status = "DELETED"
  /\ \A r \in {Absent, DeletedRow} :
       r.saleType = "cash_sale" /\ r.customer = NoCustomer /\ r.lines = <<>> /\ r.payStatus = "unpaid"
       /\ r.debt = NoDebt /\ r.earned = 0
<1>1. NoDebt \in Debt
  BY DEF NoDebt, Debt
<1>2. Absent \in OrderRow
  BY <1>1 DEF Absent, OrderRow
<1>3. DeletedRow \in OrderRow
  BY <1>2 DEF DeletedRow, OrderRow
<1>4. Absent.status = "NONE" /\ DeletedRow.status = "DELETED"
  BY DEF Absent, DeletedRow
<1>5. \A r \in {Absent, DeletedRow} :
       r.saleType = "cash_sale" /\ r.customer = NoCustomer /\ r.lines = <<>> /\ r.payStatus = "unpaid"
       /\ r.debt = NoDebt /\ r.earned = 0
  BY DEF Absent, DeletedRow
<1> QED BY <1>2, <1>3, <1>4, <1>5

LEMMA NoRowsFacts ==
  NoRows \in [Book -> Reservation] /\ \A b \in Book : NoRows[b].reserved = 0 /\ NoRows[b].deducted = 0
  BY DEF NoRows, Reservation

LEMMA EmptyHolds ==
  ASSUME NEW r \in {Absent, DeletedRow}, NEW b
  PROVE  Waits(r, b) = 0 /\ Went(r, b) = 0
<1>1. r \in OrderRow /\ r.lines = <<>>
  BY AbsentFacts
<1>2. \A i \in DOMAIN r.lines : r.lines[i].waiting = 0 /\ r.lines[i].delivered = 0
  BY <1>1
<1> QED BY <1>1, <1>2, NothingHeld

LEMMA EmptySound ==
  ASSUME NEW r \in {Absent, DeletedRow}
  PROVE  Sound(r, <<>>, NoRows)
<1>1. r \in OrderRow /\ r.lines = <<>> /\ r.debt = NoDebt /\ r.status \in {"NONE", "DELETED"}
  BY AbsentFacts
<1>2. LinesTell(r)
  BY <1>1 DEF LinesTell
<1>3. RowsMatch(r, NoRows)
  BY EmptyHolds, NoRowsFacts DEF RowsMatch
<1> QED BY <1>1, <1>2, <1>3, NothingPaid, NoRowsFacts DEF Sound, Untouched

LEMMA DeleteKeeps ==
  ASSUME IInv, NEW o \in Order, DeleteOrder(o)
  PROVE  /\ Writes(o, DeletedRow, <<>>, NoRows) /\ Keeps(o, DeletedRow, <<>>, NoRows)
         /\ fulfilling' = fulfilling /\ funds' = funds /\ payments[o] = <<>>
         /\ order[o].status \in {"DRAFT", "CANCELLED"}
<1>0. /\ payments \in [Order -> Payments] /\ rows \in [Order -> [Book -> Reservation]] /\ funds \in Funds
      /\ Sound(order[o], payments[o], rows[o])
  BY TypedOrders DEF IInv
<1>1. /\ order' = [order EXCEPT ![o] = DeletedRow] /\ payments' = payments /\ rows' = rows /\ stock' = stock
      /\ funds' = funds /\ fulfilling' = fulfilling
      /\ payments[o] = <<>> /\ rows[o] = NoRows /\ order[o].debt = NoDebt
      /\ order[o].status \in {"DRAFT", "CANCELLED"}
  BY DEF DeleteOrder, DeletedRow
<1>2. Writes(o, DeletedRow, <<>>, NoRows)
  BY <1>0, <1>1 DEF Writes
<1>3. Sound(DeletedRow, <<>>, NoRows)
  BY EmptySound
<1>4. /\ stock' \in [Book -> Int]
      /\ ~NegativeAllowed => \A b \in Book : stock'[b] >= 0
      /\ \A b \in Book : stock'[b] + Waits(DeletedRow, b) + Went(DeletedRow, b)
                           = stock[b] + Waits(order[o], b) + Went(order[o], b)
  <2>1. order[o].status \in {"NONE", "DELETED", "DRAFT", "CANCELLED"}
    BY <1>1
  <2>2. \A b \in Book : Waits(DeletedRow, b) = Waits(order[o], b) /\ Went(DeletedRow, b) = Went(order[o], b)
    BY <1>0, <2>1, HoldsNothing, EmptyHolds
  <2>3. stock' = stock
    BY <1>1
  <2> QED BY <2>2, <2>3, SameShelf
<1>5. DebtKept(order[o].debt, DeletedRow.debt, payments[o], <<>>)
  BY <1>1, AbsentFacts, SameDebt
<1>6. DeletedRow.status \in Done
  BY AbsentFacts DEF Done
<1> QED BY <1>0, <1>1, <1>2, <1>3, <1>4, <1>5, <1>6 DEF Keeps

-----------------------------------------------------------------------------
(* Payments and refunds.                                                   *)

Charged(r, s, d) == [r EXCEPT !.payStatus = s, !.debt = d]

LEMMA ChargedFacts ==
  ASSUME NEW r \in OrderRow, NEW s \in PayStatuses, NEW d \in Debt, NEW q, q = Charged(r, s, d)
  PROVE  /\ q \in OrderRow /\ q.status = r.status /\ q.saleType = r.saleType /\ q.customer = r.customer
         /\ q.lines = r.lines /\ q.payStatus = s /\ q.debt = d /\ q.earned = r.earned
<1>1. PICK q1 : q1 = WithPayStatus(r, s)
  OBVIOUS
<1>2. q = WithDebt(q1, d)
  BY <1>1 DEF Charged, WithPayStatus, WithDebt
<1>3. /\ q1 \in OrderRow /\ q1.status = r.status /\ q1.saleType = r.saleType /\ q1.customer = r.customer
      /\ q1.lines = r.lines /\ q1.payStatus = s /\ q1.earned = r.earned
  BY <1>1, PayStatusSet
<1> QED BY <1>2, <1>3, DebtWritten

\* A payment, field by field: owed is what it leaves, s the status it gives the order, d the debt
PaidRow(o, method, amount, owed, s, d, ps, r) ==
  /\ order[o].status \notin {"NONE", "CANCELLED"}
  /\ order[o].status = "DRAFT" => "pay" \in DraftRequests
  /\ order[o].saleType = "credit_sale" /\ order[o].debt.status # "WrittenOff"
  /\ amount <= Outstanding(Total(order[o].lines), payments[o])
  /\ Covers(method, order[o].customer, amount)
  /\ ps = Append(payments[o], NewPayment(method, amount))
  /\ owed = Outstanding(Total(order[o].lines), ps)
  /\ s = PaymentStatus(order[o].saleType, Total(order[o].lines), ps)
  /\ d = PaidDebt(order[o].debt, owed, s)
  /\ r = Charged(order[o], s, d)
  /\ SaveAndEarn(o, r, MoneyIn(funds, method, order[o].customer, amount))
  /\ payments' = [payments EXCEPT ![o] = ps]
  /\ rows' = rows /\ stock' = stock /\ fulfilling' = fulfilling

LEMMA PayDoes ==
  ASSUME NEW o \in Order, NEW method, NEW amount, CreatePayment(o, method, amount)
  PROVE  \E owed, s, d, ps, r : PaidRow(o, method, amount, owed, s, d, ps, r)
<1>1. PICK ps : ps = Append(payments[o], NewPayment(method, amount))
  OBVIOUS
<1>2. PICK owed : owed = Outstanding(Total(order[o].lines), ps)
  OBVIOUS
<1>3. PICK s : s = PaymentStatus(order[o].saleType, Total(order[o].lines), ps)
  OBVIOUS
<1>4. PICK d : d = PaidDebt(order[o].debt, owed, s)
  OBVIOUS
<1>5. PICK r : r = Charged(order[o], s, d)
  OBVIOUS
<1>6. /\ order[o].status \notin {"NONE", "CANCELLED"}
      /\ order[o].status = "DRAFT" => "pay" \in DraftRequests
      /\ order[o].saleType = "credit_sale" /\ order[o].debt.status # "WrittenOff"
      /\ amount <= Outstanding(Total(order[o].lines), payments[o])
      /\ Covers(method, order[o].customer, amount)
      /\ rows' = rows /\ stock' = stock /\ fulfilling' = fulfilling
  BY DEF CreatePayment, CanPay
<1>7. payments' = [payments EXCEPT ![o] = ps]
  BY <1>1 DEF CreatePayment, NewPayment
<1>8. SaveAndEarn(o, r, MoneyIn(funds, method, order[o].customer, amount))
  BY <1>1, <1>2, <1>3, <1>4, <1>5 DEF CreatePayment, NewPayment, Charged, PaidDebt
<1> QED BY <1>1, <1>2, <1>3, <1>4, <1>5, <1>6, <1>7, <1>8 DEF PaidRow

LEMMA PaidRowTyped ==
  ASSUME IInv, NEW o \in Order, NEW method \in PaymentMethods, NEW amount \in Nat \ {0},
         NEW owed, NEW s, NEW d, NEW ps, NEW r, PaidRow(o, method, amount, owed, s, d, ps, r)
  PROVE  /\ ps \in Payments /\ owed \in Nat /\ s \in PayStatuses /\ d \in Debt
         /\ NetPaid(ps) = NetPaid(payments[o]) + amount
         /\ r \in OrderRow /\ r.status = order[o].status /\ r.saleType = order[o].saleType
         /\ r.customer = order[o].customer /\ r.lines = order[o].lines
         /\ r.payStatus = s /\ r.debt = d /\ r.earned = order[o].earned
         /\ MoneyIn(funds, method, order[o].customer, amount) \in Funds
         /\ Holdings(MoneyIn(funds, method, order[o].customer, amount)) = Holdings(funds) + amount
         /\ method # "cash" => order[o].customer # NoCustomer
         /\ ~IsOpen(order[o].debt) => d = order[o].debt
         /\ Writes(o, Saved(r), ps, rows[o])
<1>0. /\ order[o] \in OrderRow /\ payments[o] \in Payments /\ funds \in Funds
      /\ payments \in [Order -> Payments] /\ rows \in [Order -> [Book -> Reservation]]
  BY TypedOrders DEF IInv
<1>1. PICK x \in OrderRow : x = order[o]
  BY <1>0
<1>2. /\ x.saleType \in SaleTypes /\ Total(x.lines) \in Nat /\ x.debt \in Debt /\ x.customer \in Customer \cup {NoCustomer}
  BY RowFields, TotalNumber
<1>3. ps \in Payments /\ NetPaid(ps) = NetPaid(payments[o]) + amount
  <2>1. PICK p : p = NewPayment(method, amount)
    OBVIOUS
  <2>2. p \in Payment /\ p.refunded = 0 /\ p.amount = amount
    BY <2>1 DEF NewPayment, Payment
  <2>3. ps = Append(payments[o], p)
    BY <2>1 DEF PaidRow
  <2> QED BY <1>0, <2>2, <2>3, PaidMore
<1>4. owed \in Nat
  <2>1. owed = Outstanding(Total(x.lines), ps)
    BY <1>1 DEF PaidRow
  <2> QED BY <1>2, <1>3, <2>1, OutstandingIs, PaidNumbers
<1>5. s \in PayStatuses
  <2>1. s = PaymentStatus(x.saleType, Total(x.lines), ps)
    BY <1>1 DEF PaidRow
  <2> QED BY <1>2, <1>3, <2>1, PaymentStatusIs
<1>6. d \in Debt /\ (~IsOpen(x.debt) => d = x.debt)
  <2>1. d = PaidDebt(x.debt, owed, s)
    BY <1>1 DEF PaidRow
  <2> QED BY <1>2, <1>4, <2>1, DebtAfterPaymentTyped
<1>7. /\ r \in OrderRow /\ r.status = x.status /\ r.saleType = x.saleType /\ r.customer = x.customer
      /\ r.lines = x.lines /\ r.payStatus = s /\ r.debt = d /\ r.earned = x.earned
  <2>1. r = Charged(x, s, d)
    BY <1>1 DEF PaidRow
  <2> QED BY <1>5, <1>6, <2>1, ChargedFacts
<1>8. PICK c, f : c \in Customer \cup {NoCustomer} /\ c = x.customer /\ f = MoneyIn(funds, method, c, amount)
  BY <1>2
<1>9. f \in Funds /\ Holdings(f) = Holdings(funds) + amount /\ (method # "cash" => c # NoCustomer)
  <2>1. Covers(method, c, amount)
    BY <1>1, <1>8 DEF PaidRow
  <2> QED BY <1>0, <1>8, <2>1, CoveredComesIn
<1>10. order' = [order EXCEPT ![o] = Saved(r)]
  <2>1. SaveAndEarn(o, r, f)
    BY <1>1, <1>8 DEF PaidRow
  <2> QED BY <1>7, <1>9, <2>1, SaveAndEarnDoes
<1>11. Writes(o, Saved(r), ps, rows[o])
  BY <1>0, <1>10 DEF Writes, PaidRow
<1> QED BY <1>1, <1>3, <1>4, <1>5, <1>6, <1>7, <1>8, <1>9, <1>11

LEMMA PayKeeps ==
  ASSUME IInv, NEW o \in Order, NEW method \in PaymentMethods, NEW amount \in Nat \ {0},
         NEW owed, NEW s, NEW d, NEW ps, NEW r, PaidRow(o, method, amount, owed, s, d, ps, r)
  PROVE  Keeps(o, Saved(r), ps, rows[o])
<1>0. Sound(order[o], payments[o], rows[o])
  BY DEF IInv
<1>1. /\ ps \in Payments /\ d \in Debt
      /\ r \in OrderRow /\ r.status = order[o].status /\ r.lines = order[o].lines /\ r.debt = d
      /\ MoneyIn(funds, method, order[o].customer, amount) \in Funds
      /\ ~IsOpen(order[o].debt) => d = order[o].debt
  BY PaidRowTyped
<1>2. PICK q : q = Saved(r)
  OBVIOUS
<1>3. q \in OrderRow /\ q.status = order[o].status /\ q.lines = order[o].lines /\ q.debt = d
  BY <1>1, <1>2, SavedFacts
<1>4. Untouched(q)
  BY <1>0, <1>1, <1>3 DEF Sound, Untouched, NoDebt, IsOpen
<1>5. Sound(q, ps, rows[o]) /\ \A b \in Book : Waits(q, b) = Waits(order[o], b) /\ Went(q, b) = Went(order[o], b)
  BY <1>0, <1>1, <1>3, <1>4, SameLines
<1>6. /\ stock' \in [Book -> Int]
      /\ ~NegativeAllowed => \A b \in Book : stock'[b] >= 0
      /\ \A b \in Book : stock'[b] + Waits(q, b) + Went(q, b) = stock[b] + Waits(order[o], b) + Went(order[o], b)
  <2>1. stock' = stock
    BY DEF PaidRow
  <2> QED BY <1>5, <2>1, SameShelf
<1>7. funds' \in Funds
  <2>1. SaveAndEarn(o, r, MoneyIn(funds, method, order[o].customer, amount))
    BY DEF PaidRow
  <2> QED BY <1>1, <2>1, SaveAndEarnDoes
<1>8. DebtKept(order[o].debt, q.debt, payments[o], ps)
  BY <1>1, <1>3 DEF DebtKept, IsOpen
<1> QED BY <1>2, <1>3, <1>5, <1>6, <1>7, <1>8 DEF Keeps

\* A refund of a payment, field by field
RefundedRow(o, i, amount, owed, s, d, ps, q) ==
  /\ payments[o][i].refunded + amount <= payments[o][i].amount
  /\ order[o].debt.status # "WrittenOff"
  /\ ps = BackOne(payments[o], i, amount)
  /\ owed = Outstanding(Total(order[o].lines), ps)
  /\ s = PaymentStatus(order[o].saleType, Total(order[o].lines), ps)
  /\ d = IF order[o].saleType = "credit_sale" THEN DebtAfterRefund(order[o].debt, owed) ELSE order[o].debt
  /\ q = Charged(order[o], s, d)
  /\ order' = [order EXCEPT ![o] = q]
  /\ payments' = [payments EXCEPT ![o] = ps]
  /\ funds' = MoneyIn(funds, payments[o][i].method, order[o].customer, -amount)
  /\ rows' = rows /\ stock' = stock /\ fulfilling' = fulfilling

LEMMA RefundDoes ==
  ASSUME NEW o \in Order, NEW i \in DOMAIN payments[o], NEW amount, Refund(o, i, amount)
  PROVE  \E owed, s, d, ps, q : RefundedRow(o, i, amount, owed, s, d, ps, q)
<1>1. PICK ps : ps = BackOne(payments[o], i, amount)
  OBVIOUS
<1>2. PICK owed : owed = Outstanding(Total(order[o].lines), ps)
  OBVIOUS
<1>3. PICK s : s = PaymentStatus(order[o].saleType, Total(order[o].lines), ps)
  OBVIOUS
<1>4. PICK d : d = IF order[o].saleType = "credit_sale" THEN DebtAfterRefund(order[o].debt, owed) ELSE order[o].debt
  OBVIOUS
<1>5. PICK q : q = Charged(order[o], s, d)
  OBVIOUS
<1>6. /\ payments[o][i].refunded + amount <= payments[o][i].amount
      /\ order[o].debt.status # "WrittenOff"
      /\ rows' = rows /\ stock' = stock /\ fulfilling' = fulfilling
      /\ funds' = MoneyIn(funds, payments[o][i].method, order[o].customer, -amount)
  BY DEF Refund, CanRefund
<1>7. payments' = [payments EXCEPT ![o] = ps]
  BY <1>1 DEF Refund, BackOne
<1>8. order' = [order EXCEPT ![o] = q]
  BY <1>1, <1>2, <1>3, <1>4, <1>5 DEF Refund, Charged, BackOne
<1> QED BY <1>1, <1>2, <1>3, <1>4, <1>5, <1>6, <1>7, <1>8 DEF RefundedRow

LEMMA RefundedRowTyped ==
  ASSUME IInv, NEW o \in Order, NEW i \in DOMAIN payments[o], NEW amount \in Nat \ {0},
         NEW owed, NEW s, NEW d, NEW ps, NEW q, RefundedRow(o, i, amount, owed, s, d, ps, q)
  PROVE  /\ ps \in Payments /\ owed \in Nat /\ s \in PayStatuses /\ d \in Debt
         /\ DOMAIN ps = DOMAIN payments[o] /\ \A j \in DOMAIN ps : ps[j].method = payments[o][j].method
         /\ NetPaid(ps) = NetPaid(payments[o]) - amount
         /\ q \in OrderRow /\ q.status = order[o].status /\ q.saleType = order[o].saleType
         /\ q.customer = order[o].customer /\ q.lines = order[o].lines
         /\ q.payStatus = s /\ q.debt = d /\ q.earned = order[o].earned
         /\ funds' \in Funds
         /\ (payments[o][i].method = "cash" \/ order[o].customer # NoCustomer)
               => Holdings(funds') = Holdings(funds) - amount
         /\ order[o].debt.status \in {"None", "WrittenOff", "Cancelled"} => d = order[o].debt
         /\ Writes(o, q, ps, rows[o])
<1>0. /\ order[o] \in OrderRow /\ payments[o] \in Payments /\ funds \in Funds
      /\ payments \in [Order -> Payments] /\ rows \in [Order -> [Book -> Reservation]]
  BY TypedOrders DEF IInv
<1>1. PICK x \in OrderRow : x = order[o]
  BY <1>0
<1>2. /\ x.saleType \in SaleTypes /\ Total(x.lines) \in Nat /\ x.debt \in Debt /\ x.customer \in Customer \cup {NoCustomer}
  BY RowFields, TotalNumber
<1>3. /\ ps \in Payments /\ DOMAIN ps = DOMAIN payments[o] /\ \A j \in DOMAIN ps : ps[j].method = payments[o][j].method
      /\ NetPaid(ps) = NetPaid(payments[o]) - amount
  <2>1. PICK old \in Payments : old = payments[o]
    BY <1>0
  <2>2. i \in DOMAIN old /\ amount \in Nat
    BY <2>1
  <2>3. old[i].refunded + amount <= old[i].amount /\ ps = BackOne(old, i, amount)
    BY <2>1 DEF RefundedRow
  <2>4. /\ ps \in Payments /\ DOMAIN ps = DOMAIN old /\ \A j \in DOMAIN old : ps[j].method = old[j].method
        /\ NetPaid(ps) = NetPaid(old) - amount
    BY ONLY <2>2, <2>3, PaidBack
  <2> QED BY <2>1, <2>4
<1>4. owed \in Nat
  <2>1. owed = Outstanding(Total(x.lines), ps)
    BY <1>1 DEF RefundedRow
  <2> QED BY <1>2, <1>3, <2>1, OutstandingIs, PaidNumbers
<1>5. s \in PayStatuses
  <2>1. s = PaymentStatus(x.saleType, Total(x.lines), ps)
    BY <1>1 DEF RefundedRow
  <2> QED BY <1>2, <1>3, <2>1, PaymentStatusIs
<1>6. d \in Debt /\ (x.debt.status \in {"None", "WrittenOff", "Cancelled"} => d = x.debt)
  <2>1. d = IF x.saleType = "credit_sale" THEN DebtAfterRefund(x.debt, owed) ELSE x.debt
    BY <1>1 DEF RefundedRow
  <2> QED BY <1>2, <1>4, <2>1, DebtAfterRefundTyped
<1>7. /\ q \in OrderRow /\ q.status = x.status /\ q.saleType = x.saleType /\ q.customer = x.customer
      /\ q.lines = x.lines /\ q.payStatus = s /\ q.debt = d /\ q.earned = x.earned
  <2>1. q = Charged(x, s, d)
    BY <1>1 DEF RefundedRow
  <2> QED BY <1>5, <1>6, <2>1, ChargedFacts
<1>8. /\ funds' \in Funds
      /\ (payments[o][i].method = "cash" \/ x.customer # NoCustomer) => Holdings(funds') = Holdings(funds) - amount
  <2>1. PICK c \in Customer \cup {NoCustomer}, method \in PaymentMethods : c = x.customer /\ method = payments[o][i].method
    BY <1>0, <1>2, PaymentFacts
  <2>2. funds' = MoneyIn(funds, method, c, -amount) /\ amount \in Nat
    BY <1>1, <2>1 DEF RefundedRow
  <2>3. /\ MoneyIn(funds, method, c, -amount) \in Funds
        /\ method = "cash" \/ c # NoCustomer => Holdings(MoneyIn(funds, method, c, -amount)) = Holdings(funds) - amount
    BY <1>0, <2>2, GoesBack
  <2> QED BY <2>1, <2>2, <2>3
<1>9. Writes(o, q, ps, rows[o])
  BY <1>0 DEF Writes, RefundedRow
<1> QED BY <1>1, <1>3, <1>4, <1>5, <1>6, <1>7, <1>8, <1>9

LEMMA RefundKeeps ==
  ASSUME IInv, NEW o \in Order, NEW i \in DOMAIN payments[o], NEW amount \in Nat \ {0},
         NEW owed, NEW s, NEW d, NEW ps, NEW q, RefundedRow(o, i, amount, owed, s, d, ps, q)
  PROVE  Keeps(o, q, ps, rows[o])
<1>0. Sound(order[o], payments[o], rows[o]) /\ payments[o] \in Payments
  BY DEF IInv, Sound
<1>1. /\ ps \in Payments /\ d \in Debt /\ NetPaid(ps) = NetPaid(payments[o]) - amount
      /\ q \in OrderRow /\ q.status = order[o].status /\ q.lines = order[o].lines /\ q.debt = d
      /\ funds' \in Funds
      /\ order[o].debt.status \in {"None", "WrittenOff", "Cancelled"} => d = order[o].debt
  BY RefundedRowTyped
<1>2. Untouched(q)
  BY <1>0, <1>1 DEF Sound, Untouched, NoDebt
<1>3. Sound(q, ps, rows[o]) /\ \A b \in Book : Waits(q, b) = Waits(order[o], b) /\ Went(q, b) = Went(order[o], b)
  BY <1>0, <1>1, <1>2, SameLines
<1>4. /\ stock' \in [Book -> Int]
      /\ ~NegativeAllowed => \A b \in Book : stock'[b] >= 0
      /\ \A b \in Book : stock'[b] + Waits(q, b) + Went(q, b) = stock[b] + Waits(order[o], b) + Went(order[o], b)
  <2>1. stock' = stock
    BY DEF RefundedRow
  <2> QED BY <1>3, <2>1, SameShelf
<1>5. DebtKept(order[o].debt, q.debt, payments[o], ps)
  <2>1. PICK n \in Nat : n = NetPaid(payments[o])
    BY <1>0, PaidNumbers
  <2>2. NetPaid(ps) < n
    BY <1>1, <2>1
  <2> QED BY <1>1, <2>1, <2>2 DEF DebtKept
<1> QED BY <1>1, <1>3, <1>4, <1>5 DEF Keeps

-----------------------------------------------------------------------------
(* The receivable on its own.                                              *)

LEMMA DebtAlone ==
  ASSUME IInv, NEW o \in Order, NEW d \in Debt, SaveDebt(o, d),
         order[o].debt.status # "None",
         order[o].debt.status \in {"WrittenOff", "Cancelled", "Settled"} => d.status = order[o].debt.status,
         NEW q, q = WithDebt(order[o], d)
  PROVE  /\ Writes(o, q, payments[o], rows[o]) /\ Keeps(o, q, payments[o], rows[o])
         /\ q \in OrderRow /\ q.status = order[o].status /\ q.saleType = order[o].saleType
         /\ q.customer = order[o].customer /\ q.lines = order[o].lines /\ q.payStatus = order[o].payStatus
         /\ q.debt = d /\ q.earned = order[o].earned
         /\ fulfilling' = fulfilling /\ funds' = funds
<1>0. /\ order[o] \in OrderRow /\ payments[o] \in Payments /\ funds \in Funds
      /\ payments \in [Order -> Payments] /\ rows \in [Order -> [Book -> Reservation]]
      /\ Sound(order[o], payments[o], rows[o])
  BY TypedOrders DEF IInv
<1>1. /\ order' = [order EXCEPT ![o] = q] /\ payments' = payments /\ rows' = rows
      /\ stock' = stock /\ funds' = funds /\ fulfilling' = fulfilling
  BY DEF SaveDebt, WithDebt
<1>2. Writes(o, q, payments[o], rows[o])
  BY <1>0, <1>1 DEF Writes
<1>3. /\ q \in OrderRow /\ q.status = order[o].status /\ q.saleType = order[o].saleType
      /\ q.customer = order[o].customer /\ q.lines = order[o].lines /\ q.payStatus = order[o].payStatus
      /\ q.debt = d /\ q.earned = order[o].earned
  <2>1. PICK r \in OrderRow : r = order[o]
    BY <1>0
  <2>2. q = WithDebt(r, d)
    BY <2>1
  <2>3. /\ q \in OrderRow /\ q.status = r.status /\ q.saleType = r.saleType
        /\ q.customer = r.customer /\ q.lines = r.lines /\ q.payStatus = r.payStatus
        /\ q.debt = d /\ q.earned = r.earned
    BY ONLY <2>1, <2>2, d \in Debt, DebtWritten
  <2> QED BY <2>1, <2>3
<1>4. Untouched(q)
  BY <1>0, <1>3 DEF Sound, Untouched, NoDebt
<1>5. /\ Sound(q, payments[o], rows[o])
      /\ \A b \in Book : Waits(q, b) = Waits(order[o], b) /\ Went(q, b) = Went(order[o], b)
  BY <1>0, <1>3, <1>4, SameLines
<1>6. /\ stock' \in [Book -> Int]
      /\ ~NegativeAllowed => \A b \in Book : stock'[b] >= 0
      /\ \A b \in Book : stock'[b] + Waits(q, b) + Went(q, b) = stock[b] + Waits(order[o], b) + Went(order[o], b)
  <2>1. stock' = stock
    BY <1>1
  <2> QED BY <1>5, <2>1, SameShelf
<1>7. DebtKept(order[o].debt, q.debt, payments[o], payments[o])
  BY <1>3 DEF DebtKept, IsOpen
<1>8. Keeps(o, q, payments[o], rows[o])
  BY <1>0, <1>1, <1>3, <1>5, <1>6, <1>7 DEF Keeps
<1> QED BY <1>1, <1>2, <1>3, <1>8

\* The receivable's own actions, with the debt each writes
DebtWrittenOff(debt) == [debt EXCEPT !.status = "WrittenOff", !.outstanding = 0]
DebtPastDue(debt, pastDue) == [debt EXCEPT !.pastDue = pastDue]
DebtInStatus(debt, s) == [debt EXCEPT !.status = s]

LEMMA DebtFlags ==
  ASSUME NEW debt \in Debt, NEW pastDue \in BOOLEAN, NEW s \in DebtStatuses
  PROVE  /\ DebtPastDue(debt, pastDue) \in Debt /\ DebtPastDue(debt, pastDue).status = debt.status
         /\ DebtPastDue(debt, pastDue).original = debt.original
         /\ DebtPastDue(debt, pastDue).outstanding = debt.outstanding
         /\ DebtInStatus(debt, s) \in Debt /\ DebtInStatus(debt, s).status = s
         /\ DebtInStatus(debt, s).original = debt.original
         /\ DebtInStatus(debt, s).outstanding = debt.outstanding
  BY DEF DebtPastDue, DebtInStatus, Debt, DebtStatuses

LEMMA WrittenOffFacts ==
  ASSUME NEW debt \in Debt
  PROVE  /\ DebtWrittenOff(debt) \in Debt /\ DebtWrittenOff(debt).status = "WrittenOff"
         /\ DebtWrittenOff(debt).original = debt.original /\ DebtWrittenOff(debt).outstanding = 0
<1>1. PICK e : e = DebtInStatus(debt, "WrittenOff")
  OBVIOUS
<1>2. "WrittenOff" \in DebtStatuses
  BY DEF DebtStatuses
<1>3. e \in Debt /\ e.status = "WrittenOff" /\ e.original = debt.original
  <2>1. TRUE \in BOOLEAN
    OBVIOUS
  <2> QED BY <1>1, <1>2, <2>1, DebtFlags
<1>4. PICK d : d = DebtWrittenOff(debt)
  OBVIOUS
<1>5. d = [e EXCEPT !.outstanding = 0]
  BY <1>1, <1>4 DEF DebtWrittenOff, DebtInStatus
<1>6. d \in Debt /\ d.status = "WrittenOff" /\ d.original = debt.original /\ d.outstanding = 0
  BY <1>3, <1>5 DEF Debt
<1> QED BY <1>4, <1>6

\* A step that writes only the debt of an order, d
OnlyDebt(o, d) ==
  /\ d \in Debt /\ SaveDebt(o, d) /\ order[o].debt.status # "None"
  /\ d.status # "None" /\ d.original = order[o].debt.original
  /\ IsOpen(d) => IsOpen(order[o].debt) /\ d.outstanding = order[o].debt.outstanding
  /\ ~IsOpen(d) => \/ d.status = "WrittenOff" /\ d.outstanding = 0
                   \/ d.status = order[o].debt.status /\ d.outstanding = order[o].debt.outstanding
  /\ order[o].debt.status \in {"WrittenOff", "Cancelled", "Settled"} => d.status = order[o].debt.status

LEMMA DebtSteps ==
  ASSUME IInv, NEW o \in Order,
         \/ WriteOff(o)
         \/ \E pastDue \in BOOLEAN : ChangeDueDate(o, pastDue)
         \/ DueDatePasses(o)
  PROVE  \E d : OnlyDebt(o, d)
<1>1. PICK debt \in Debt : debt = order[o].debt
  BY TypedOrders, RowFields DEF IInv
<1>2. debt.status \in DebtStatuses
  BY DebtFields
<1>3. CASE WriteOff(o)
  <2>1. PICK d : d = DebtWrittenOff(debt)
    OBVIOUS
  <2>2. IsOpen(debt) /\ SaveDebt(o, d)
    BY <1>1, <1>3, <2>1 DEF WriteOff, DebtWrittenOff
  <2>3. d \in Debt /\ d.status = "WrittenOff" /\ d.original = debt.original /\ d.outstanding = 0
    BY <2>1, WrittenOffFacts
  <2>4. OnlyDebt(o, d)
    BY <1>1, <2>2, <2>3 DEF OnlyDebt, IsOpen
  <2> QED BY <2>4
<1>4. CASE \E pastDue \in BOOLEAN : ChangeDueDate(o, pastDue)
  <2>1. PICK pastDue \in BOOLEAN : ChangeDueDate(o, pastDue)
    BY <1>4
  <2>2. PICK e : e = DebtPastDue(debt, pastDue)
    OBVIOUS
  <2>3. "None" \in DebtStatuses
    BY DEF DebtStatuses
  <2>4. e \in Debt /\ e.status = debt.status /\ e.original = debt.original /\ e.outstanding = debt.outstanding
    BY <2>2, <2>3, DebtFlags
  <2>5. PICK s : s = DueStatus(e)
    OBVIOUS
  <2>6. s \in {"Overdue", "PartiallyPaid", "Pending"} /\ s \in DebtStatuses
    BY <2>5 DEF DueStatus, DebtStatuses
  <2>7. PICK d : d = DebtInStatus(e, s)
    OBVIOUS
  <2>8. d \in Debt /\ d.status = s /\ d.original = debt.original /\ d.outstanding = debt.outstanding
    BY <2>4, <2>6, <2>7, DebtFlags
  <2>9. IsOpen(e) /\ SaveDebt(o, d)
    BY <1>1, <2>1, <2>2, <2>5, <2>7 DEF ChangeDueDate, DebtPastDue, DebtInStatus
  <2>10. OnlyDebt(o, d)
    BY <1>1, <2>4, <2>6, <2>8, <2>9 DEF OnlyDebt, IsOpen
  <2> QED BY <2>10
<1>5. CASE DueDatePasses(o)
  <2>1. PICK d : d = DebtPastDue(debt, TRUE)
    OBVIOUS
  <2>2. debt.status # "None" /\ SaveDebt(o, d)
    BY <1>1, <1>5, <2>1 DEF DueDatePasses, DebtPastDue
  <2>3. "None" \in DebtStatuses
    BY DEF DebtStatuses
  <2>4. d \in Debt /\ d.status = debt.status /\ d.original = debt.original /\ d.outstanding = debt.outstanding
    BY <2>1, <2>3, DebtFlags
  <2>5. OnlyDebt(o, d)
    BY <1>1, <2>2, <2>4 DEF OnlyDebt, IsOpen
  <2> QED BY <2>5
<1> QED BY <1>3, <1>4, <1>5

LEMMA OnlyDebtKeeps ==
  ASSUME IInv, NEW o \in Order, NEW d, OnlyDebt(o, d), NEW q, q = WithDebt(order[o], d)
  PROVE  /\ Writes(o, q, payments[o], rows[o]) /\ Keeps(o, q, payments[o], rows[o])
         /\ q \in OrderRow /\ q.status = order[o].status /\ q.saleType = order[o].saleType
         /\ q.customer = order[o].customer /\ q.lines = order[o].lines /\ q.payStatus = order[o].payStatus
         /\ q.debt = d /\ q.earned = order[o].earned
         /\ fulfilling' = fulfilling /\ funds' = funds
<1>1. /\ d \in Debt /\ SaveDebt(o, d) /\ order[o].debt.status # "None"
      /\ order[o].debt.status \in {"WrittenOff", "Cancelled", "Settled"} => d.status = order[o].debt.status
  BY DEF OnlyDebt
<1> QED BY <1>1, DebtAlone

\* An order as markOverdue leaves it
Marked(r, q) ==
  /\ q \in OrderRow /\ q.status = r.status /\ q.saleType = r.saleType /\ q.customer = r.customer
  /\ q.lines = r.lines /\ q.payStatus = r.payStatus /\ q.earned = r.earned
  /\ \/ q.debt = r.debt
     \/ /\ IsOpen(r.debt) /\ IsOpen(q.debt)
        /\ q.debt.original = r.debt.original /\ q.debt.outstanding = r.debt.outstanding

LEMMA MarkOverdueDoes ==
  ASSUME IInv, MarkOverdue
  PROVE  /\ \A x \in Order : Marked(order[x], order'[x])
         /\ order' \in [Order -> OrderRow]
         /\ payments' = payments /\ rows' = rows /\ stock' = stock /\ funds' = funds /\ fulfilling' = fulfilling
<1>1. /\ payments' = payments /\ rows' = rows /\ stock' = stock /\ funds' = funds /\ fulfilling' = fulfilling
      /\ order' = [x \in Order |-> IF FallsDue(order[x].debt) THEN [order[x] EXCEPT !.debt.status = "Overdue"]
                                   ELSE order[x]]
  BY DEF MarkOverdue
<1>2. ASSUME NEW x \in Order PROVE Marked(order[x], order'[x])
  <2>1. PICK r \in OrderRow : r = order[x]
    BY TypedOrders DEF IInv
  <2>2. CASE ~FallsDue(r.debt)
    BY <1>1, <2>1, <2>2 DEF Marked
  <2>3. CASE FallsDue(r.debt)
    <3>1. PICK debt \in Debt : debt = r.debt
      BY RowFields
    <3>2. PICK d : d = DebtInStatus(debt, "Overdue")
      OBVIOUS
    <3>3. "Overdue" \in DebtStatuses /\ TRUE \in BOOLEAN
      BY DEF DebtStatuses
    <3>4. d \in Debt /\ d.status = "Overdue" /\ d.original = debt.original /\ d.outstanding = debt.outstanding
      BY <3>2, <3>3, DebtFlags
    <3>5. PICK q : q = WithDebt(r, d)
      OBVIOUS
    <3>6. order'[x] = q
      BY <1>1, <2>1, <2>3, <3>1, <3>2, <3>5 DEF WithDebt, DebtInStatus
    <3>7. /\ q \in OrderRow /\ q.debt = d /\ q.status = r.status /\ q.saleType = r.saleType /\ q.customer = r.customer
          /\ q.lines = r.lines /\ q.payStatus = r.payStatus /\ q.earned = r.earned
      BY <3>4, <3>5, DebtWritten
    <3>8. IsOpen(debt) /\ IsOpen(d)
      BY <2>3, <3>1, <3>4 DEF FallsDue, IsOpen
    <3> QED BY <2>1, <3>1, <3>4, <3>6, <3>7, <3>8 DEF Marked
  <2> QED BY <2>2, <2>3
<1>3. order' \in [Order -> OrderRow]
  <2>1. \A x \in Order : order'[x] \in OrderRow
    BY <1>2 DEF Marked
  <2>2. order' = [x \in Order |-> order'[x]]
    BY <1>1
  <2> QED BY <2>1, <2>2
<1> QED BY <1>1, <1>2, <1>3

LEMMA MarkOverdueKeeps ==
  ASSUME IInv, MarkOverdue
  PROVE  /\ IInv'
         /\ \A x \in Order : DebtKept(order[x].debt, order'[x].debt, payments[x], payments'[x])
         /\ \A b \in Book : HeldIn(order', b) = HeldIn(order, b)
<1>1. /\ \A x \in Order : Marked(order[x], order'[x])
      /\ order' \in [Order -> OrderRow]
      /\ payments' = payments /\ rows' = rows /\ stock' = stock /\ funds' = funds /\ fulfilling' = fulfilling
  BY MarkOverdueDoes
<1>2. ASSUME NEW x \in Order
      PROVE  /\ Sound(order'[x], payments'[x], rows'[x])
             /\ \A b \in Book : Waits(order'[x], b) = Waits(order[x], b) /\ Went(order'[x], b) = Went(order[x], b)
             /\ DebtKept(order[x].debt, order'[x].debt, payments[x], payments'[x])
             /\ order'[x].status = order[x].status
  <2>1. PICK r, q, ps, w : r = order[x] /\ q = order'[x] /\ ps = payments[x] /\ w = rows[x]
    OBVIOUS
  <2>2. Sound(r, ps, w) /\ ps \in Payments
    BY <2>1 DEF IInv, Sound
  <2>3. Marked(r, q)
    BY <1>1, <2>1
  <2>4. Untouched(q)
    BY <2>2, <2>3 DEF Sound, Untouched, Marked, NoDebt, IsOpen
  <2>5. q \in OrderRow /\ q.status = r.status /\ q.lines = r.lines
    BY <2>3 DEF Marked
  <2>6. Sound(q, ps, w) /\ \A b \in Book : Waits(q, b) = Waits(r, b) /\ Went(q, b) = Went(r, b)
    BY <2>2, <2>4, <2>5, SameLines
  <2>7. DebtKept(r.debt, q.debt, ps, ps)
    BY <2>3 DEF Marked, DebtKept, IsOpen
  <2> QED BY <1>1, <2>1, <2>5, <2>6, <2>7
<1>3. TypeOK'
  <2>1. /\ payments \in [Order -> Payments] /\ rows \in [Order -> [Book -> Reservation]]
        /\ stock \in [Book -> Int] /\ funds \in Funds /\ fulfilling \subseteq Order
    <3>1. payments \in [Order -> Payments]
      <4>1. payments \in [Order -> Seq(Payment)] /\ \A x \in Order : payments[x] \in Payments
        BY DEF IInv, TypeOK, Sound
      <4> QED BY <4>1
    <3> QED BY <3>1 DEF IInv, TypeOK, Funds
  <2> QED BY <1>1, <2>1, TypesKept
<1>4. NeverOversold'
  BY <1>1 DEF IInv, NeverOversold
<1>5. "fulfill" \notin DraftRequests => \A x \in fulfilling' : order'[x].status \in Done
  BY <1>1, <1>2 DEF IInv, TypeOK
<1>6. IInv'
  BY <1>2, <1>3, <1>4, <1>5 DEF IInv
<1>7. ASSUME NEW b \in Book PROVE HeldIn(order', b) = HeldIn(order, b)
  <2>1. [x \in Order |-> Waits(order'[x], b) + Went(order'[x], b)]
          = [x \in Order |-> Waits(order[x], b) + Went(order[x], b)]
    BY <1>2
  <2> QED BY <2>1 DEF HeldIn
<1> QED BY <1>2, <1>6, <1>7

-----------------------------------------------------------------------------
(* Every step.                                                             *)

\* What each step does to the copies and the debts
StepFacts ==
  /\ IInv'
  /\ \A b \in Book : stock'[b] + HeldIn(order', b) = stock[b] + HeldIn(order, b)
  /\ \A x \in Order : DebtKept(order[x].debt, order'[x].debt, payments[x], payments'[x])

LEMMA WrittenFacts ==
  ASSUME IInv, NEW o \in Order, NEW q, NEW ps, NEW w, Writes(o, q, ps, w), Keeps(o, q, ps, w),
         fulfilling' \subseteq fulfilling
  PROVE  StepFacts
<1>1. IInv'
  BY OneOrderWritten
<1>2. \A b \in Book : stock'[b] + HeldIn(order', b) = stock[b] + HeldIn(order, b)
  BY OneOrderHolds
<1>3. ASSUME NEW x \in Order PROVE DebtKept(order[x].debt, order'[x].debt, payments[x], payments'[x])
  <2>1. order \in [Order -> OrderRow] /\ payments \in [Order -> Payments]
    BY TypedOrders DEF IInv
  <2>2. CASE x = o
    BY <2>1, <2>2 DEF Writes, Keeps
  <2>3. CASE x # o
    <3>1. order'[x] = order[x] /\ payments'[x] = payments[x]
      BY <2>1, <2>3 DEF Writes
    <3> QED BY <3>1, SameDebt
  <2> QED BY <2>2, <2>3
<1> QED BY <1>1, <1>2, <1>3 DEF StepFacts

LEMMA StillFacts ==
  ASSUME IInv', order' = order, payments' = payments, stock' = stock
  PROVE  StepFacts
  BY SameDebt DEF StepFacts

LEMMA StepTells ==
  ASSUME IInv, [Next]_vars PROVE StepFacts
<1>1. CASE UNCHANGED vars
  <2>1. IInv'
    BY <1>1 DEF vars, IInv, TypeOK, Sound, LinesTell, RowsMatch, Untouched, NeverOversold
  <2> QED BY <1>1, <2>1, StillFacts DEF vars
<1>2. ASSUME NEW o \in Order, NEW saleType \in {"cash_sale", "credit_sale"}, NEW c \in Customer \cup {NoCustomer},
             NEW basket \in Baskets, Create(o, saleType, c, basket) \/ Update(o, saleType, c, basket)
      PROVE  StepFacts
  <2>1. PICK q : q = Drafted(order[o], saleType, c, basket)
    OBVIOUS
  <2>2. saleType \in SaleTypes
    BY DEF SaleTypes
  <2>3. Writes(o, q, payments[o], rows[o]) /\ Keeps(o, q, payments[o], rows[o]) /\ fulfilling' = fulfilling
    BY <1>2, <2>1, <2>2, DraftStep
  <2> QED BY <2>3, WrittenFacts
<1>3. ASSUME NEW o \in Order, NEW method \in Methods, NEW deposit \in Deposits \cup {0}, Confirm(o, method, deposit)
      PROVE  StepFacts
  <2>1. PICK t, owed, q, ps, w : Confirmed(o, method, t, owed, q, ps, w)
    BY <1>3, ConfirmDoes
  <2>2. method \in PaymentMethods
    BY OrdersAssumption
  <2>3. Keeps(o, q, ps, w)
    BY <2>1, <2>2, ConfirmKeeps
  <2>4. Writes(o, q, ps, w) /\ fulfilling' \subseteq fulfilling
    BY <2>1 DEF Confirmed
  <2> QED BY <2>3, <2>4, WrittenFacts
<1>4. ASSUME NEW o \in Order, NEW handed \in Handable(order[o].lines), Deliver(o, handed)
      PROVE  StepFacts
  <2>1. PICK r, w : r \in OrderRow /\ DeliveredRow(o, handed, r, w)
    BY <1>4, DeliverDoes
  <2>2. Keeps(o, Saved(r), payments[o], w)
    BY <2>1, DeliverKeeps
  <2>3. Writes(o, Saved(r), payments[o], w) /\ fulfilling' \subseteq fulfilling
    BY <2>1 DEF DeliveredRow
  <2> QED BY <2>2, <2>3, WrittenFacts
<1>5. ASSUME NEW o \in Order, FulfillRead(o) PROVE StepFacts
  BY <1>5, FulfillReadKeeps, StillFacts
<1>6. ASSUME NEW o \in Order, FulfillCommit(o) PROVE StepFacts
  BY <1>6, FulfillCommitKeeps, WrittenFacts
<1>7. ASSUME NEW o \in Order, FulfillRefused(o) PROVE StepFacts
  BY <1>7, FulfillRefusedKeeps, StillFacts
<1>8. ASSUME NEW o \in Order, NEW refundTo, Cancel(o, refundTo) PROVE StepFacts
  <2>1. PICK net, d, q, ps, w : CancelledRow(o, refundTo, net, d, q, ps, w)
    BY <1>8, CancelDoes
  <2>2. Keeps(o, q, ps, w)
    BY <2>1, CancelKeeps
  <2>3. Writes(o, q, ps, w) /\ fulfilling' \subseteq fulfilling
    BY <2>1 DEF CancelledRow
  <2> QED BY <2>2, <2>3, WrittenFacts
<1>9. ASSUME NEW o \in Order, DeleteOrder(o) PROVE StepFacts
  <2>1. /\ Writes(o, DeletedRow, <<>>, NoRows) /\ Keeps(o, DeletedRow, <<>>, NoRows)
        /\ fulfilling' \subseteq fulfilling
    BY <1>9, DeleteKeeps
  <2> QED BY <2>1, WrittenFacts
<1>10. ASSUME NEW o \in Order, NEW method \in Methods, NEW amount \in Amounts, CreatePayment(o, method, amount)
       PROVE  StepFacts
  <2>1. PICK owed, s, d, ps, r : PaidRow(o, method, amount, owed, s, d, ps, r)
    BY <1>10, PayDoes
  <2>2. method \in PaymentMethods /\ amount \in Nat \ {0}
    BY OrdersAssumption
  <2>3. Keeps(o, Saved(r), ps, rows[o])
    BY <2>1, <2>2, PayKeeps
  <2>4. Writes(o, Saved(r), ps, rows[o])
    BY <2>1, <2>2, PaidRowTyped
  <2>5. fulfilling' \subseteq fulfilling
    BY <2>1 DEF PaidRow
  <2> QED BY <2>3, <2>4, <2>5, WrittenFacts
<1>11. ASSUME NEW o \in Order, NEW i \in DOMAIN payments[o], NEW amount \in Amounts, Refund(o, i, amount)
       PROVE  StepFacts
  <2>1. PICK owed, s, d, ps, q : RefundedRow(o, i, amount, owed, s, d, ps, q)
    BY <1>11, RefundDoes
  <2>2. amount \in Nat \ {0}
    BY OrdersAssumption
  <2>3. Keeps(o, q, ps, rows[o])
    BY <2>1, <2>2, RefundKeeps
  <2>4. Writes(o, q, ps, rows[o])
    BY <2>1, <2>2, RefundedRowTyped
  <2>5. fulfilling' \subseteq fulfilling
    BY <2>1 DEF RefundedRow
  <2> QED BY <2>3, <2>4, <2>5, WrittenFacts
<1>12. ASSUME NEW o \in Order,
              WriteOff(o) \/ (\E pastDue \in BOOLEAN : ChangeDueDate(o, pastDue)) \/ DueDatePasses(o)
       PROVE  StepFacts
  <2>1. PICK d : OnlyDebt(o, d)
    BY <1>12, DebtSteps
  <2>2. PICK q : q = WithDebt(order[o], d)
    OBVIOUS
  <2>3. /\ Writes(o, q, payments[o], rows[o]) /\ Keeps(o, q, payments[o], rows[o])
        /\ fulfilling' \subseteq fulfilling
    BY <2>1, <2>2, OnlyDebtKeeps
  <2> QED BY <2>3, WrittenFacts
<1>13. ASSUME MarkOverdue PROVE StepFacts
  <2>1. stock' = stock
    BY <1>13, MarkOverdueDoes
  <2>2. /\ IInv'
        /\ \A x \in Order : DebtKept(order[x].debt, order'[x].debt, payments[x], payments'[x])
        /\ \A b \in Book : HeldIn(order', b) = HeldIn(order, b)
    BY <1>13, MarkOverdueKeeps
  <2> QED BY <2>1, <2>2 DEF StepFacts
<1> QED BY <1>1, <1>2, <1>3, <1>4, <1>5, <1>6, <1>7, <1>8, <1>9, <1>10, <1>11, <1>12, <1>13 DEF Next

LEMMA InitSound == Init => IInv
<1> SUFFICES ASSUME Init PROVE IInv
  OBVIOUS
<1>1. /\ order = [x \in Order |-> Absent] /\ payments = [x \in Order |-> <<>>]
      /\ rows = [x \in Order |-> NoRows] /\ stock \in [Book -> InitialStock] /\ fulfilling = {}
      /\ funds = [drawer |-> 0, credit |-> [c \in Customer |-> InitialCredit],
                  points |-> [c \in Customer |-> InitialPoints]]
  BY DEF Init
<1>2. \A x \in Order : Sound(order[x], payments[x], rows[x])
  BY <1>1, EmptySound
<1>3. TypeOK
  <2>1. order \in [Order -> OrderRow] /\ rows \in [Order -> [Book -> Reservation]]
    BY <1>1, AbsentFacts, NoRowsFacts
  <2>2. payments \in [Order -> Seq(Payment)]
    BY <1>1
  <2>3. \A x \in Order : \A i \in DOMAIN payments[x] : payments[x][i].refunded <= payments[x][i].amount
    BY <1>1
  <2>4. stock \in [Book -> Int]
    <3>1. InitialStock \subseteq Int
      BY OrdersAssumption
    <3> QED BY <1>1, <3>1
  <2>5. funds \in [drawer : Int, credit : [Customer -> Nat], points : [Customer -> Nat]]
    <3>1. InitialCredit \in Nat /\ InitialPoints \in Nat
      BY OrdersAssumption
    <3>2. [c \in Customer |-> InitialCredit] \in [Customer -> Nat] /\ [c \in Customer |-> InitialPoints] \in [Customer -> Nat]
      BY <3>1
    <3> QED BY <1>1, <3>2
  <2> QED BY <1>1, <2>1, <2>2, <2>3, <2>4, <2>5 DEF TypeOK
<1>4. NeverOversold
  <2>1. InitialStock \subseteq Nat
    BY OrdersAssumption
  <2>2. \A b \in Book : stock[b] \in Nat
    BY <1>1, <2>1
  <2> QED BY <2>2 DEF NeverOversold
<1> QED BY <1>1, <1>2, <1>3, <1>4 DEF IInv

LEMMA Sounds == Spec => []IInv
<1>1. IInv /\ [Next]_vars => IInv'
  BY StepTells DEF StepFacts
<1> QED BY InitSound, <1>1, PTL DEF Spec

\* Every order, payment, reservation row and account stays well formed: no payment gives
\* back more than it took, and no customer's credit or points fall below zero.
THEOREM OrdersTypeCorrect == Spec => []TypeOK
<1>1. IInv => TypeOK
  BY DEF IInv
<1> QED BY Sounds, <1>1, PTL

\* No step of any order makes a copy appear or disappear: what leaves the shelf waits on an
\* order or was handed over, and what no longer waits is back on the shelf or gone.
THEOREM OrdersConserveCopies == Spec => CopiesConserved
<1>1. ASSUME IInv, [Next]_vars
      PROVE  \A b \in Book :
               LET Held(o) == Copies(order[o].lines, b, "waiting") + Copies(order[o].lines, b, "delivered")
               IN stock'[b] + SumFunction([o \in Order |-> Held(o)'])
                    = stock[b] + SumFunction([o \in Order |-> Held(o)])
  <2>1. ASSUME NEW b \in Book
        PROVE  LET Held(o) == Copies(order[o].lines, b, "waiting") + Copies(order[o].lines, b, "delivered")
               IN stock'[b] + SumFunction([o \in Order |-> Held(o)'])
                    = stock[b] + SumFunction([o \in Order |-> Held(o)])
    <3>1. stock'[b] + HeldIn(order', b) = stock[b] + HeldIn(order, b)
      BY <1>1, StepTells DEF StepFacts
    <3> QED BY <3>1 DEF HeldIn, Waits, Went, SumFunction
  <2> QED BY <2>1
<1> QED BY Sounds, <1>1, PTL DEF Spec, CopiesConserved

\* A debt that was written off or that went with its order stays so, and a settled one opens
\* again only by the step that gives a payment back, whatever the overdue job, a new due date
\* or a late payment do.
THEOREM ClosedDebtsRemainClosed == Spec => ClosedDebtsStayClosed
<1>1. ASSUME IInv, [Next]_vars
      PROVE  \A o \in Order :
               /\ order[o].debt.status \in {"WrittenOff", "Cancelled"} => order'[o].debt.status = order[o].debt.status
               /\ (order[o].debt.status = "Settled" /\ IsOpen(order'[o].debt))
                    => NetPaid(payments'[o]) < NetPaid(payments[o])
  BY <1>1, StepTells DEF StepFacts, DebtKept
<1> QED BY Sounds, <1>1, PTL DEF Spec, ClosedDebtsStayClosed

LEMMA SoundAgrees ==
  ASSUME IInv, "fulfill" \notin DraftRequests PROVE CopiesAgree
<1>1. ASSUME NEW o \in Order, NEW b \in Book
      PROVE  /\ rows[o][b].reserved = Copies(order[o].lines, b, "waiting")
             /\ rows[o][b].deducted = Copies(order[o].lines, b, "delivered")
  BY DEF IInv, Sound, RowsMatch, Waits, Went
<1>2. ASSUME NEW o \in Order, order[o].status \notin {"CONFIRMED", "PART_DELIVERED"}
      PROVE  ~SomethingWaits(order[o].lines) /\ \A b \in Book : rows[o][b].reserved = 0
  <2>1. PICK r \in OrderRow : r = order[o] /\ LinesTell(r) /\ RowsMatch(r, rows[o])
    BY DEF IInv, Sound
  <2>2. \A i \in DOMAIN r.lines : r.lines[i].waiting = 0
    <3>1. r.status \in Statuses
      BY RowFields
    <3>2. CASE r.status = "COMPLETED"
      BY <2>1, <3>2 DEF LinesTell
    <3>3. CASE r.status # "COMPLETED"
      <4>1. r.status \in {"NONE", "DELETED", "DRAFT", "CANCELLED"}
        BY <1>2, <2>1, <3>1, <3>3 DEF Statuses
      <4> QED BY <2>1, <4>1, ZeroOnLines
    <3> QED BY <3>2, <3>3
  <2>3. ~SomethingWaits(r.lines)
    BY <2>2 DEF SomethingWaits
  <2>4. ASSUME NEW b \in Book PROVE rows[o][b].reserved = 0
    <3>1. Waits(r, b) = 0
      BY <2>2, NothingHeld
    <3> QED BY <2>1, <3>1 DEF RowsMatch
  <2> QED BY <2>1, <2>3, <2>4
<1>3. StatusTellsDelivery
  <2>1. SUFFICES ASSUME NEW o \in Stored
        PROVE  LET lines == order[o].lines
                   someWent == \E i \in DOMAIN lines : lines[i].delivered > 0
                   allWent == \A i \in DOMAIN lines : lines[i].delivered = lines[i].quantity
               IN CASE order[o].status = "PART_DELIVERED" -> someWent /\ SomethingWaits(lines)
                    [] order[o].status = "COMPLETED" -> allWent
                    [] OTHER -> ~someWent
    BY DEF StatusTellsDelivery
  <2>2. PICK r \in OrderRow : r = order[o] /\ LinesTell(r) /\ r.status \notin {"NONE", "DELETED"}
    BY DEF IInv, Sound, Stored
  <2>3. r.status \in Statuses
    BY RowFields
  <2>4. CASE r.status = "PART_DELIVERED"
    BY <2>2, <2>4 DEF LinesTell
  <2>5. CASE r.status = "COMPLETED"
    BY <2>2, <2>5 DEF LinesTell
  <2>6. CASE r.status \in {"DRAFT", "CANCELLED", "CONFIRMED"}
    <3>1. \A i \in DOMAIN r.lines : r.lines[i].delivered = 0
      BY <2>2, <2>6 DEF LinesTell
    <3>2. ~\E i \in DOMAIN r.lines : r.lines[i].delivered > 0
      BY <3>1
    <3>3. r.status # "PART_DELIVERED" /\ r.status # "COMPLETED"
      BY <2>6
    <3> QED BY <2>2, <3>2, <3>3
  <2> QED BY <2>2, <2>3, <2>4, <2>5, <2>6 DEF Statuses
<1> QED BY <1>1, <1>2, <1>3 DEF IInv, CopiesAgree, ReservationsMatchLines, ReservedOnlyWhileOpen

\* However many orders compete for the same copies, none is sold twice where the branch does
\* not allow it, and the shelf, the reservation rows, the lines and the status of every order
\* agree on where each copy is.  No screen offers to fulfil a draft (DraftRequests): one that
\* was, and was confirmed between fulfill()'s two steps, would be completed with its copies
\* still waiting.
THEOREM CopiesAlwaysAgree ==
  ASSUME "fulfill" \notin DraftRequests
  PROVE  Spec => []CopiesAgree
<1>1. IInv => CopiesAgree
  BY SoundAgrees
<1> QED BY Sounds, <1>1, PTL

-----------------------------------------------------------------------------
(* The inductive invariant of the money.                                   *)

\* What an order's points may be
EarnedRight(r) ==
  /\ r.earned \in {0, PointsRate * Total(r.lines)}
  /\ r.earned > 0 => r.status = "COMPLETED"
  /\ (r.status = "COMPLETED" /\ r.payStatus = "paid" /\ r.customer # NoCustomer)
       => r.earned = PointsRate * Total(r.lines)

\* What a receivable was opened for: all of a credit sale, or what its first payment left
OpenedFor(status, saleType, original, total, ps) ==
  (status \in {"CONFIRMED", "PART_DELIVERED", "COMPLETED"} /\ saleType = "credit_sale") =>
    original = total \/ (ps # <<>> /\ original + ps[1].amount = total)

\* An order and its payments
Paying(r, ps) ==
  /\ r.status \in {"NONE", "DRAFT", "DELETED"} => ps = <<>> /\ r.payStatus = "unpaid"
  /\ \A i \in DOMAIN ps : ps[i].method = "cash" \/ r.customer # NoCustomer
  /\ NetPaid(ps) <= Total(r.lines)
  /\ r.status \notin {"NONE", "DELETED"} => StatusAgrees(r.saleType, r.payStatus, Total(r.lines), ps)
  /\ EarnedRight(r)
  /\ DebtTells(r.status, r.saleType, r.debt, Total(r.lines), NetPaid(ps))
  /\ OpenedFor(r.status, r.saleType, r.debt.original, Total(r.lines), ps)

\* What the orders kept of their payments, less the points they earned
Booked(ord, pay) == SumFunctionOnSet([x \in Order |-> NetPaid(pay[x]) - ord[x].earned], Order)

MInv ==
  /\ \A o \in Order : Paying(order[o], payments[o])
  /\ Holdings(funds) = Booked(order, payments)

\* What a step that writes one order and its payments does not break
Pays(o, q, ps) ==
  /\ Paying(q, ps)
  /\ Holdings(funds') = Holdings(funds) + (NetPaid(ps) - NetPaid(payments[o])) - (q.earned - order[o].earned)

LEMMA OneOrderPays ==
  ASSUME IInv, MInv, NEW o \in Order, NEW q \in OrderRow, NEW ps \in Payments, NEW w, Writes(o, q, ps, w),
         Pays(o, q, ps)
  PROVE  MInv'
<1> DEFINE s == [x \in Order |-> NetPaid(payments[x]) - order[x].earned]
           t == [x \in Order |-> NetPaid(payments'[x]) - order'[x].earned]
<1>1. order \in [Order -> OrderRow] /\ payments \in [Order -> Payments] /\ funds \in Accounts
  BY TypedOrders, FundsAreAccounts DEF IInv
<1>2. /\ order'[o] = q /\ \A x \in Order \ {o} : order'[x] = order[x]
      /\ payments'[o] = ps /\ \A x \in Order \ {o} : payments'[x] = payments[x]
  BY <1>1 DEF Writes
<1>3. ASSUME NEW x \in Order PROVE Paying(order'[x], payments'[x])
  <2>1. CASE x = o
    BY <1>2, <2>1 DEF Pays
  <2>2. CASE x # o
    BY <1>2, <2>2 DEF MInv
  <2> QED BY <2>1, <2>2
<1>4. \A x \in Order : s[x] \in Int
  <2>1. \A x \in Order : NetPaid(payments[x]) \in Nat
    BY <1>1, PaidNumbers
  <2>2. \A x \in Order : order[x].earned \in Nat
    BY <1>1, RowFields
  <2> QED BY <2>1, <2>2
<1>5. PICK m \in Nat, n \in Nat, e \in Nat, f \in Nat :
        m = NetPaid(payments[o]) /\ n = NetPaid(ps) /\ e = order[o].earned /\ f = q.earned
  BY <1>1, PaidNumbers, RowFields
<1>6. s[o] = m - e /\ t[o] = n - f
  BY <1>2, <1>5
<1>7. \A x \in Order \ {o} : t[x] = s[x]
  BY <1>2
<1>8. Booked(order, payments) = SumFunctionOnSet(s, Order) /\ Booked(order', payments') = SumFunctionOnSet(t, Order)
  BY DEF Booked
<1> HIDE DEF s, t
<1>9. t[o] \in Int
  BY <1>5, <1>6
<1>10. IsFiniteSet(Order)
  BY OrdersAssumption
<1>11. SumFunctionOnSet(t, Order) = SumFunctionOnSet(s, Order) - s[o] + t[o]
  BY <1>4, <1>7, <1>9, <1>10, SumChange
<1>12. SumFunctionOnSet(s, Order) \in Int
  BY <1>4, <1>10, SumInteger
<1>13. Holdings(funds') = Holdings(funds) + (n - m) - (f - e)
  BY <1>5 DEF Pays
<1>14. Holdings(funds') = Booked(order', payments')
  <2>1. PICK h \in Int : h = Holdings(funds) /\ h = SumFunctionOnSet(s, Order)
    BY <1>1, <1>8, HoldingsNumber DEF MInv
  <2>2. SumFunctionOnSet(t, Order) = h - (m - e) + (n - f)
    BY <1>6, <1>11, <2>1
  <2> QED BY <1>5, <1>8, <1>13, <2>1, <2>2
<1> QED BY <1>3, <1>14 DEF MInv

\* An order with nothing taken yet
LEMMA NothingTaken ==
  ASSUME NEW r \in OrderRow, NEW ps, Paying(r, ps), Untouched(r), r.status \in {"NONE", "DRAFT", "DELETED"}
  PROVE  ps = <<>> /\ r.payStatus = "unpaid" /\ r.earned = 0 /\ r.debt = NoDebt /\ NetPaid(ps) = 0
<1>1. ps = <<>> /\ r.payStatus = "unpaid" /\ r.debt = NoDebt
  BY DEF Paying, Untouched
<1>2. r.earned \in Nat
  BY RowFields
<1>3. r.earned = 0
  BY <1>2 DEF Paying, EarnedRight
<1> QED BY <1>1, <1>3, NothingPaid

LEMMA NoDebtTells ==
  ASSUME NEW status \in {"NONE", "DRAFT", "DELETED", "CANCELLED"}, NEW saleType, NEW total
  PROVE  DebtTells(status, saleType, NoDebt, total, 0)
  BY DEF DebtTells, NoDebt, IsOpen

LEMMA DraftPays ==
  ASSUME IInv, MInv, NEW o \in Order, NEW saleType \in SaleTypes, NEW c \in Customer \cup {NoCustomer},
         NEW basket \in Baskets,
         Create(o, saleType, c, basket) \/ Update(o, saleType, c, basket),
         NEW q, q = Drafted(order[o], saleType, c, basket)
  PROVE  Pays(o, q, payments[o])
<1>1. PICK r \in OrderRow : r = order[o] /\ Paying(r, payments[o]) /\ Untouched(r)
  BY DEF IInv, Sound, MInv
<1>2. r.status \in {"NONE", "DRAFT"} /\ funds' = funds
  BY <1>1 DEF Create, Update
<1>3. payments[o] = <<>> /\ r.payStatus = "unpaid" /\ r.earned = 0 /\ r.debt = NoDebt
  BY <1>1, <1>2, NothingTaken
<1>4. /\ q \in OrderRow /\ q.status = "DRAFT" /\ q.saleType = saleType /\ q.customer = c
      /\ q.lines = Requested(basket) /\ q.payStatus = "unpaid" /\ q.debt = NoDebt /\ q.earned = 0
  <2>1. PICK d : d = Drafted(r, saleType, c, basket)
    OBVIOUS
  <2>2. /\ d \in OrderRow /\ d.status = "DRAFT" /\ d.saleType = saleType /\ d.customer = c
        /\ d.lines = Requested(basket) /\ d.payStatus = r.payStatus /\ d.debt = r.debt /\ d.earned = r.earned
    BY <2>1, DraftedFacts
  <2> QED BY <1>1, <1>3, <2>1, <2>2
<1>5. PICK total \in Nat : total = Total(q.lines) /\ total > 0
  <2>1. q.lines \in Seq(Line) /\ q.lines # <<>>
    BY <1>4, RequestedFacts
  <2> QED BY <2>1, TotalNumber
<1>6. NetPaid(<<>>) = 0
  BY NothingPaid
<1>7. StatusAgrees(saleType, "unpaid", total, <<>>)
  BY <1>5, <1>6 DEF StatusAgrees
<1>8. EarnedRight(q)
  BY <1>4 DEF EarnedRight
<1>9. DebtTells("DRAFT", saleType, NoDebt, total, 0)
  BY NoDebtTells
<1>10. \A i \in DOMAIN <<>> : <<>>[i].method = "cash" \/ c # NoCustomer
  OBVIOUS
<1>11. Paying(q, <<>>)
  BY <1>4, <1>5, <1>6, <1>7, <1>8, <1>9, <1>10 DEF Paying, OpenedFor
<1>12. Holdings(funds) \in Int
  BY TypedOrders, FundsAreAccounts, HoldingsNumber DEF IInv
<1> QED BY <1>1, <1>2, <1>3, <1>4, <1>6, <1>11, <1>12 DEF Pays

LEMMA FirstPayment ==
  ASSUME NEW method \in PaymentMethods, NEW t \in Nat, NEW ps,
         ps = IF t = 0 THEN <<>> ELSE Append(<<>>, NewPayment(method, t))
  PROVE  /\ ps \in Payments /\ NetPaid(ps) = t
         /\ t # 0 => ps # <<>> /\ ps[1].amount = t
         /\ \A i \in DOMAIN ps : ps[i].method = method
<1>1. CASE t = 0
  BY <1>1, NothingPaid
<1>2. CASE t # 0
  <2>1. PICK p : p = NewPayment(method, t)
    OBVIOUS
  <2>2. p \in Payment /\ p.refunded = 0 /\ p.amount = t /\ p.method = method
    BY <1>2, <2>1 DEF NewPayment, Payment
  <2>3. ps = Append(<<>>, p)
    BY <1>2, <2>1
  <2>4. ps \in Payments /\ NetPaid(ps) = NetPaid(<<>>) + p.amount
    BY <2>2, <2>3, NothingPaid, PaidMore
  <2>5. ps = <<p>>
    BY <2>3
  <2> QED BY <2>2, <2>4, <2>5, NothingPaid
<1> QED BY <1>1, <1>2

LEMMA NewDebtTells ==
  ASSUME NEW total \in Nat, NEW net \in Nat, net <= total, NEW saleType \in SaleTypes, NEW d,
         saleType = "cash_sale" => net = total,
         d = IF saleType = "credit_sale" /\ total - net > 0 THEN NewDebt(total - net) ELSE NoDebt
  PROVE  DebtTells("CONFIRMED", saleType, d, total, net)
<1>1. CASE saleType = "credit_sale" /\ total - net > 0
  BY <1>1 DEF DebtTells, NewDebt, IsOpen
<1>2. CASE ~(saleType = "credit_sale" /\ total - net > 0)
  BY <1>2 DEF DebtTells, NoDebt, IsOpen, SaleTypes
<1> QED BY <1>1, <1>2

LEMMA ConfirmPays ==
  ASSUME IInv, MInv, NEW o \in Order, NEW method \in PaymentMethods, NEW t, NEW owed, NEW q, NEW ps, NEW w,
         Confirmed(o, method, t, owed, q, ps, w)
  PROVE  Pays(o, q, ps) /\ q \in OrderRow /\ ps \in Payments
<1>1. PICK r \in OrderRow : r = order[o] /\ Paying(r, payments[o]) /\ Untouched(r) /\ LinesTell(r)
  BY DEF IInv, Sound, MInv
<1>2. PICK total \in Nat : total = Total(r.lines)
  BY RowFields, TotalNumber
<1>3. /\ r.status = "DRAFT" /\ t \in Nat /\ t <= total
      /\ (r.saleType = "cash_sale" => t = total)
      /\ (t > 0 => Covers(method, r.customer, t))
      /\ ps = IF t = 0 THEN payments[o] ELSE Append(payments[o], NewPayment(method, t))
      /\ owed = total - NetPaid(ps)
  BY <1>1, <1>2 DEF Confirmed
<1>4. payments[o] = <<>> /\ r.payStatus = "unpaid" /\ r.earned = 0 /\ r.debt = NoDebt
  BY <1>1, <1>3, NothingTaken
<1>5. /\ ps \in Payments /\ NetPaid(ps) = t /\ \A i \in DOMAIN ps : ps[i].method = method
      /\ t # 0 => ps # <<>> /\ ps[1].amount = t
  <2>1. ps = IF t = 0 THEN <<>> ELSE Append(<<>>, NewPayment(method, t))
    BY <1>3, <1>4
  <2>2. t \in Nat
    BY <1>3
  <2>3. method \in PaymentMethods
    OBVIOUS
  <2> QED BY ONLY <2>1, <2>2, <2>3, FirstPayment
<1>6. r.lines \in Seq(Line) /\ r.lines # <<>> /\ total > 0
  <2>1. r.lines \in Seq(Line) /\ r.lines # <<>>
    BY <1>1, <1>3, RowFields DEF LinesTell
  <2> QED BY <1>2, <2>1, TotalNumber
<1>7. PICK l : l = AllWaiting(r.lines)
  OBVIOUS
<1>8. l \in Seq(Line) /\ Total(l) = total
  <2>1. /\ l \in Seq(Line) /\ DOMAIN l = DOMAIN r.lines
        /\ \A i \in DOMAIN r.lines : l[i].book = r.lines[i].book /\ l[i].quantity = r.lines[i].quantity
    BY <1>6, <1>7, AllWaitingFacts
  <2> QED BY <1>2, <1>6, <2>1, TotalSame
<1>9. PICK s, d : /\ q = Rewritten(r, "CONFIRMED", l, s, d)
                  /\ s = (IF t = 0 THEN "unpaid" ELSE IF t < total THEN "partial" ELSE "paid")
                  /\ d = (IF r.saleType = "credit_sale" /\ total - t > 0 THEN NewDebt(total - t) ELSE NoDebt)
  <2>1. owed = total - t
    BY <1>3, <1>5
  <2> QED BY <1>1, <1>2, <1>4, <1>7, <2>1 DEF Confirmed
<1>10. s \in PayStatuses
  BY <1>9 DEF PayStatuses
<1>11. d \in Debt
  BY <1>3, <1>9 DEF NewDebt, NoDebt, Debt
<1>12. /\ q \in OrderRow /\ q.status = "CONFIRMED" /\ q.lines = l /\ q.payStatus = s /\ q.debt = d
       /\ q.saleType = r.saleType /\ q.customer = r.customer /\ q.earned = 0
  <2>1. "CONFIRMED" \in Statuses
    BY DEF Statuses
  <2>2. q = Rewritten(r, "CONFIRMED", l, s, d)
    BY <1>9
  <2> QED BY <1>4, <1>8, <1>10, <1>11, <2>1, <2>2, RewrittenFacts
<1>13. r.saleType \in SaleTypes
  BY RowFields
<1>14. StatusAgrees(r.saleType, s, total, ps)
  BY <1>3, <1>5, <1>6, <1>9, <1>13 DEF StatusAgrees, SaleTypes
<1>15. DebtTells("CONFIRMED", r.saleType, d, total, t)
  BY <1>3, <1>9, <1>13, NewDebtTells
<1>16. \A i \in DOMAIN ps : ps[i].method = "cash" \/ r.customer # NoCustomer
  <2>1. CASE t = 0
    BY <1>3, <1>4, <2>1
  <2>2. CASE t > 0
    BY <1>3, <1>5, <2>2 DEF Covers
  <2> QED BY <1>3, <2>1, <2>2
<1>17. EarnedRight(q)
  BY <1>12 DEF EarnedRight
<1>18. Paying(q, ps)
  <2>1. OpenedFor("CONFIRMED", r.saleType, d.original, total, ps)
    BY <1>2, <1>3, <1>5, <1>9 DEF OpenedFor, NewDebt, NoDebt
  <2> QED BY <1>3, <1>5, <1>8, <1>12, <1>14, <1>15, <1>16, <1>17, <2>1 DEF Paying
<1>19. Holdings(funds') = Holdings(funds) + t
  <2>1. funds \in Funds /\ Holdings(funds) \in Int
    BY TypedOrders, FundsAreAccounts, HoldingsNumber DEF IInv
  <2>2. CASE t = 0
    BY <2>1, <2>2 DEF Confirmed
  <2>3. CASE t # 0
    <3>1. funds' = MoneyIn(funds, method, r.customer, t) /\ Covers(method, r.customer, t)
      BY <1>1, <1>3, <2>3 DEF Confirmed
    <3>2. r.customer \in Customer \cup {NoCustomer}
      BY RowFields
    <3> QED BY <1>3, <2>1, <3>1, <3>2, CoveredComesIn
  <2> QED BY <2>2, <2>3
<1>20. Holdings(funds) \in Int
  BY TypedOrders, FundsAreAccounts, HoldingsNumber DEF IInv
<1>21. NetPaid(payments[o]) = 0 /\ order[o].earned = 0
  BY <1>1, <1>4, NothingPaid
<1>22. Holdings(funds') = Holdings(funds) + (NetPaid(ps) - NetPaid(payments[o])) - (q.earned - order[o].earned)
  BY <1>3, <1>5, <1>12, <1>19, <1>20, <1>21
<1> QED BY <1>5, <1>12, <1>18, <1>22 DEF Pays

\* An order that is saved earns what it should.
LEMMA SavedEarns ==
  ASSUME NEW r \in OrderRow, r.earned \in {0, PointsRate * Total(r.lines)}, r.earned > 0 => r.status = "COMPLETED"
  PROVE  EarnedRight(Saved(r))
<1>1. PICK points \in Nat : points = PointsRate * Total(r.lines)
  BY PointsFacts
<1>2. r.earned \in Nat
  BY RowFields
<1>3. PICK q : q = Saved(r)
  OBVIOUS
<1>4. /\ q.status = r.status /\ q.customer = r.customer /\ q.lines = r.lines /\ q.payStatus = r.payStatus
      /\ q.earned = r.earned + PointsToEarn(r)
  BY <1>3, SavedFacts
<1>5. PointsToEarn(r) = IF r.status = "COMPLETED" /\ r.payStatus = "paid" /\ r.customer # NoCustomer /\ r.earned = 0
                        THEN points ELSE 0
  BY <1>1 DEF PointsToEarn
<1>6. EarnedRight(q)
  BY <1>1, <1>2, <1>4, <1>5 DEF EarnedRight
<1> QED BY <1>3, <1>6

\* An order before it is delivered whole has earned nothing.
LEMMA NotEarned ==
  ASSUME NEW r \in OrderRow, EarnedRight(r), r.status # "COMPLETED" PROVE r.earned = 0
  BY RowFields DEF EarnedRight

\* A step that hands over copies of an order, or completes it: nothing else of its money moves.
LEMMA SavePays ==
  ASSUME IInv, MInv, NEW o \in Order, order[o].status \in {"CONFIRMED", "PART_DELIVERED"},
         NEW r \in OrderRow, r.status \in {"CONFIRMED", "PART_DELIVERED", "COMPLETED"},
         r.saleType = order[o].saleType, r.customer = order[o].customer, r.payStatus = order[o].payStatus,
         r.debt = order[o].debt, r.earned = order[o].earned, Total(r.lines) = Total(order[o].lines),
         SaveAndEarn(o, r, funds)
  PROVE  Pays(o, Saved(r), payments[o])
<1>1. PICK x \in OrderRow : x = order[o] /\ Paying(x, payments[o])
  BY DEF IInv, Sound, MInv
<1>2. PICK ps \in Payments, total \in Nat : ps = payments[o] /\ total = Total(x.lines)
  BY <1>1, RowFields, TotalNumber DEF IInv, Sound
<1>3. r.earned = 0
  BY <1>1, NotEarned DEF Paying
<1>4. EarnedRight(Saved(r))
  BY <1>3, SavedEarns
<1>5. PICK q : q = Saved(r)
  OBVIOUS
<1>6. /\ q.status = r.status /\ q.saleType = x.saleType /\ q.customer = x.customer /\ q.lines = r.lines
      /\ q.payStatus = x.payStatus /\ q.debt = x.debt /\ q.earned = PointsToEarn(r)
  <2>1. q.earned = r.earned + PointsToEarn(r) /\ PointsToEarn(r) \in Nat
    BY <1>5, SavedFacts, PointsFacts
  <2> QED BY <1>1, <1>3, <1>5, <2>1, SavedFacts
<1>7. Total(q.lines) = total
  BY <1>1, <1>2, <1>6
<1>8. DebtTells(r.status, x.saleType, x.debt, total, NetPaid(ps))
  <2>1. DebtTells(x.status, x.saleType, x.debt, total, NetPaid(ps))
    BY <1>1, <1>2 DEF Paying
  <2> QED BY <1>1, <2>1 DEF DebtTells
<1>9. StatusAgrees(x.saleType, x.payStatus, total, ps)
  BY <1>1, <1>2 DEF Paying
<1>10. Paying(q, ps)
  <2>1. q.status \notin {"NONE", "DRAFT", "DELETED"}
    BY <1>6
  <2>2. NetPaid(ps) <= total /\ \A i \in DOMAIN ps : ps[i].method = "cash" \/ x.customer # NoCustomer
    BY <1>1, <1>2 DEF Paying
  <2>3. EarnedRight(q)
    BY <1>4, <1>5
  <2>4. DebtTells(q.status, q.saleType, q.debt, Total(q.lines), NetPaid(ps))
    BY <1>6, <1>7, <1>8
  <2>5. StatusAgrees(q.saleType, q.payStatus, Total(q.lines), ps)
    BY <1>6, <1>7, <1>9
  <2>6. OpenedFor(q.status, q.saleType, q.debt.original, Total(q.lines), ps)
    <3>1. OpenedFor(x.status, x.saleType, x.debt.original, total, ps)
      BY <1>1, <1>2 DEF Paying
    <3> QED BY <1>1, <1>6, <1>7, <3>1 DEF OpenedFor
  <2> QED BY <1>6, <1>7, <2>1, <2>2, <2>3, <2>4, <2>5, <2>6 DEF Paying
<1>11. Holdings(funds') = Holdings(funds) + (NetPaid(ps) - NetPaid(ps)) - (q.earned - x.earned)
  <2>1. funds \in Funds /\ Holdings(funds) \in Int
    BY TypedOrders, FundsAreAccounts, HoldingsNumber DEF IInv
  <2>2. Holdings(funds') = Holdings(funds) - PointsToEarn(r)
    BY <2>1, SaveAndEarnDoes
  <2>3. NetPaid(ps) \in Nat /\ PointsToEarn(r) \in Nat
    BY PaidNumbers, PointsFacts
  <2>4. x.earned = 0 /\ q.earned = PointsToEarn(r)
    BY <1>1, <1>3, <1>6
  <2> QED BY <2>1, <2>2, <2>3, <2>4
<1> QED BY <1>1, <1>2, <1>5, <1>10, <1>11 DEF Pays

LEMMA DeliverPays ==
  ASSUME IInv, MInv, NEW o \in Order, NEW handed, NEW r \in OrderRow, NEW w, DeliveredRow(o, handed, r, w)
  PROVE  Pays(o, Saved(r), payments[o])
<1>1. PICK x \in OrderRow : x = order[o]
  BY DEF IInv, Sound
<1>2. /\ x.status \in {"CONFIRMED", "PART_DELIVERED"} /\ x.lines \in Seq(Line)
      /\ \A i \in DOMAIN x.lines : handed[i] \in Nat /\ handed[i] <= x.lines[i].waiting
      /\ r = HandedOver(x, handed) /\ SaveAndEarn(o, r, funds)
  BY <1>1, RowFields DEF DeliveredRow
<1>3. PICK l : l = AfterHanding(x.lines, handed)
  OBVIOUS
<1>4. /\ r.saleType = x.saleType /\ r.customer = x.customer /\ r.payStatus = x.payStatus
      /\ r.debt = x.debt /\ r.earned = x.earned /\ r.lines = l
      /\ r.status \in {"CONFIRMED", "PART_DELIVERED", "COMPLETED"}
  BY <1>2, <1>3, HandedOverFacts
<1>5. Total(l) = Total(x.lines)
  <2>1. /\ l \in Seq(Line) /\ DOMAIN l = DOMAIN x.lines
        /\ \A i \in DOMAIN x.lines : l[i].book = x.lines[i].book /\ l[i].quantity = x.lines[i].quantity
    BY <1>2, <1>3, AfterHandingFacts
  <2> QED BY <1>2, <2>1, TotalSame
<1>6. /\ order[o].status \in {"CONFIRMED", "PART_DELIVERED"}
      /\ r.status \in {"CONFIRMED", "PART_DELIVERED", "COMPLETED"}
      /\ r.saleType = order[o].saleType /\ r.customer = order[o].customer /\ r.payStatus = order[o].payStatus
      /\ r.debt = order[o].debt /\ r.earned = order[o].earned /\ Total(r.lines) = Total(order[o].lines)
      /\ SaveAndEarn(o, r, funds)
  BY <1>1, <1>2, <1>4, <1>5
<1> QED BY <1>6, SavePays

LEMMA FulfillCommitPays ==
  ASSUME IInv, MInv, NEW o \in Order, FulfillCommit(o)
  PROVE  Pays(o, Saved(CompletedRow(o)), payments[o])
<1>1. PICK x \in OrderRow : x = order[o]
  BY DEF IInv, Sound
<1>2. PICK r : r = CompletedRow(o)
  OBVIOUS
<1>3. /\ order[o].status = "CONFIRMED" /\ r \in OrderRow /\ SaveAndEarn(o, r, funds)
  BY <1>2, FulfillCommitKeeps
<1>4. /\ r.status = "COMPLETED" /\ r.saleType = x.saleType /\ r.customer = x.customer
      /\ r.lines = x.lines /\ r.payStatus = x.payStatus /\ r.debt = x.debt /\ r.earned = x.earned
  <2>1. "COMPLETED" \in Statuses
    BY DEF Statuses
  <2>2. r = WithStatus(x, "COMPLETED")
    BY <1>1, <1>2 DEF CompletedRow
  <2> QED BY <2>1, <2>2, StatusSet
<1>5. /\ order[o].status \in {"CONFIRMED", "PART_DELIVERED"}
      /\ r.status \in {"CONFIRMED", "PART_DELIVERED", "COMPLETED"}
      /\ r.saleType = order[o].saleType /\ r.customer = order[o].customer /\ r.payStatus = order[o].payStatus
      /\ r.debt = order[o].debt /\ r.earned = order[o].earned /\ Total(r.lines) = Total(order[o].lines)
      /\ SaveAndEarn(o, r, funds)
  BY <1>1, <1>3, <1>4
<1>6. Pays(o, Saved(r), payments[o])
  BY <1>3, <1>5, SavePays
<1> QED BY <1>2, <1>6

LEMMA CancelPays ==
  ASSUME IInv, MInv, NEW o \in Order, NEW refundTo, NEW net, NEW d, NEW q, NEW ps, NEW w,
         CancelledRow(o, refundTo, net, d, q, ps, w)
  PROVE  Pays(o, q, ps) /\ q \in OrderRow /\ ps \in Payments
<1>1. PICK r \in OrderRow : r = order[o] /\ Paying(r, payments[o]) /\ LinesTell(r)
  BY DEF IInv, Sound, MInv
<1>2. PICK old \in Payments : old = payments[o]
  BY DEF IInv, Sound
<1>3. /\ r.status \in {"DRAFT", "CONFIRMED"} /\ net = NetPaid(old) /\ net \in Nat
      /\ (net > 0 /\ refundTo = "store_credit" => r.customer # NoCustomer)
      /\ d = CancelledDebt(r.debt, net)
      /\ ps = IF net > 0 THEN AllBack(old) ELSE old
  <2>1. NetPaid(old) \in Nat
    BY PaidNumbers
  <2> QED BY <1>1, <1>2, <2>1 DEF CancelledRow
<1>4. /\ ps \in Payments /\ NetPaid(ps) = 0 /\ DOMAIN ps = DOMAIN old
      /\ \A i \in DOMAIN old : ps[i].method = old[i].method
  <2>1. CASE net > 0
    BY <1>3, <2>1, AllPaidBack
  <2>2. CASE ~(net > 0)
    BY <1>3, <2>2
  <2> QED BY <2>1, <2>2
<1>5. PICK total \in Nat : total = Total(r.lines) /\ total > 0 /\ r.lines \in Seq(Line)
  <2>1. r.lines \in Seq(Line) /\ r.lines # <<>>
    BY <1>1, <1>3, RowFields DEF LinesTell
  <2> QED BY <2>1, TotalNumber
<1>6. PICK l : l = NoneWaiting(r.lines)
  OBVIOUS
<1>7. l \in Seq(Line) /\ Total(l) = total
  <2>1. /\ l \in Seq(Line) /\ DOMAIN l = DOMAIN r.lines
        /\ \A i \in DOMAIN r.lines : l[i].book = r.lines[i].book /\ l[i].quantity = r.lines[i].quantity
    BY <1>5, <1>6, NoneWaitingFacts
  <2> QED BY <1>5, <2>1, TotalSame
<1>8. PICK s : /\ q = Rewritten(r, "CANCELLED", l, s, d)
               /\ s = (IF net > 0 THEN PaymentStatus(r.saleType, total, ps) ELSE r.payStatus)
  BY <1>1, <1>5, <1>6 DEF CancelledRow
<1>9. r.saleType \in SaleTypes /\ r.payStatus \in PayStatuses /\ r.debt \in Debt /\ r.customer \in Customer \cup {NoCustomer}
  BY RowFields
<1>10. s \in PayStatuses
  <2>1. PaymentStatus(r.saleType, total, ps) \in PayStatuses
    BY <1>4, <1>9, PaymentStatusIs
  <2> QED BY <1>8, <1>9, <2>1
<1>11. StatusAgrees(r.saleType, s, total, ps)
  <2>1. CASE net > 0
    <3>1. StatusAgrees(r.saleType, PaymentStatus(r.saleType, total, ps), total, ps)
      BY <1>4, <1>5, <1>9, PaymentStatusFacts
    <3> QED BY <1>8, <2>1, <3>1
  <2>2. CASE ~(net > 0)
    <3>1. ps = old /\ s = r.payStatus
      BY <1>3, <1>8, <2>2
    <3>2. StatusAgrees(r.saleType, r.payStatus, total, old)
      BY <1>1, <1>2, <1>3, <1>5 DEF Paying
    <3> QED BY <3>1, <3>2
  <2> QED BY <2>1, <2>2
<1>12. d \in Debt
  BY <1>3, <1>9, CancelledDebtFacts
<1>13. DebtTells("CANCELLED", r.saleType, d, total, 0)
  <2>1. DebtTells(r.status, r.saleType, r.debt, total, net)
    BY <1>1, <1>2, <1>3, <1>5 DEF Paying
  <2> QED BY <1>3, <1>9, <2>1, DebtCancelled
<1>14. r.earned = 0
  BY <1>1, <1>3, NotEarned DEF Paying
<1>15. /\ q \in OrderRow /\ q.status = "CANCELLED" /\ q.lines = l /\ q.payStatus = s /\ q.debt = d
       /\ q.saleType = r.saleType /\ q.customer = r.customer /\ q.earned = 0
  <2>1. "CANCELLED" \in Statuses
    BY DEF Statuses
  <2>2. q = Rewritten(r, "CANCELLED", l, s, d)
    BY <1>8
  <2> QED BY <1>7, <1>10, <1>12, <1>14, <2>1, <2>2, RewrittenFacts
<1>16. \A i \in DOMAIN ps : ps[i].method = "cash" \/ r.customer # NoCustomer
  BY <1>1, <1>2, <1>4 DEF Paying
<1>17. EarnedRight(q)
  BY <1>15 DEF EarnedRight
<1>18. Paying(q, ps)
  BY <1>4, <1>7, <1>11, <1>13, <1>15, <1>16, <1>17 DEF Paying, OpenedFor
<1>19. funds \in Funds /\ Holdings(funds) \in Int
  BY TypedOrders, FundsAreAccounts, HoldingsNumber DEF IInv
<1>20. Holdings(funds') = Holdings(funds) - net
  <2>1. CASE net > 0
    <3>1. funds' = MoneyReturned(funds, r.customer, old, refundTo)
      BY <1>1, <1>2, <2>1 DEF CancelledRow
    <3>2. \/ r.customer # NoCustomer
          \/ refundTo # "store_credit" /\ \A i \in DOMAIN old : old[i].method = "cash"
      BY <1>1, <1>2, <1>3, <2>1 DEF Paying
    <3>3. Holdings(MoneyReturned(funds, r.customer, old, refundTo)) = Holdings(funds) - NetPaid(old)
      BY <1>9, <1>19, <3>2, MoneyReturnedFacts
    <3> QED BY <1>3, <3>1, <3>3
  <2>2. CASE ~(net > 0)
    <3>1. funds' = funds
      BY <2>2 DEF CancelledRow
    <3> QED BY <1>3, <1>19, <2>2, <3>1
  <2> QED BY <2>1, <2>2
<1>21. Holdings(funds') = Holdings(funds) + (NetPaid(ps) - NetPaid(old)) - (q.earned - r.earned)
  BY <1>3, <1>4, <1>14, <1>15, <1>19, <1>20
<1> QED BY <1>1, <1>2, <1>4, <1>15, <1>18, <1>21 DEF Pays

LEMMA EmptyPays ==
  ASSUME NEW r \in {Absent, DeletedRow} PROVE Paying(r, <<>>)
<1>1. /\ r.status \in {"NONE", "DELETED"} /\ r.lines = <<>> /\ r.payStatus = "unpaid" /\ r.debt = NoDebt /\ r.earned = 0
  BY AbsentFacts
<1>2. NetPaid(<<>>) = 0 /\ Total(<<>>) = 0
  BY NothingPaid, NothingOrdered
<1>3. EarnedRight(r)
  BY <1>1 DEF EarnedRight
<1>4. DebtTells(r.status, r.saleType, NoDebt, 0, 0)
  BY <1>1, NoDebtTells
<1>5. \A i \in DOMAIN <<>> : <<>>[i].method = "cash" \/ r.customer # NoCustomer
  OBVIOUS
<1> QED BY <1>1, <1>2, <1>3, <1>4, <1>5 DEF Paying, OpenedFor

LEMMA DeletePays ==
  ASSUME IInv, MInv, NEW o \in Order, DeleteOrder(o)
  PROVE  Pays(o, DeletedRow, <<>>)
<1>1. PICK r \in OrderRow : r = order[o] /\ Paying(r, payments[o])
  BY DEF IInv, Sound, MInv
<1>2. funds' = funds /\ payments[o] = <<>> /\ r.status \in {"DRAFT", "CANCELLED"}
  BY <1>1, DeleteKeeps
<1>3. r.earned = 0
  BY <1>1, <1>2, NotEarned DEF Paying
<1>4. Holdings(funds) \in Int
  BY TypedOrders, FundsAreAccounts, HoldingsNumber DEF IInv
<1>5. Paying(DeletedRow, <<>>) /\ DeletedRow.earned = 0
  BY EmptyPays, AbsentFacts
<1> QED BY <1>1, <1>2, <1>3, <1>4, <1>5, NothingPaid DEF Pays

\* What was first owed stays on record, whatever is paid or refunded.
LEMMA PaidKeepsOriginal ==
  ASSUME NEW debt \in Debt, NEW owed, NEW s PROVE PaidDebt(debt, owed, s).original = debt.original
  BY DEF PaidDebt, DebtAfterPayment, Debt

LEMMA RefundKeepsOriginal ==
  ASSUME NEW debt \in Debt, NEW owed PROVE DebtAfterRefund(debt, owed).original = debt.original
  BY DEF DebtAfterRefund, Debt

\* A payment; drafts take none.
LEMMA PayPays ==
  ASSUME "pay" \notin DraftRequests, IInv, MInv, NEW o \in Order, NEW method \in PaymentMethods,
         NEW amount \in Nat \ {0}, NEW owed, NEW s, NEW d, NEW ps, NEW r,
         PaidRow(o, method, amount, owed, s, d, ps, r)
  PROVE  Pays(o, Saved(r), ps)
<1>1. PICK x \in OrderRow : x = order[o] /\ Paying(x, payments[o]) /\ LinesTell(x)
  BY DEF IInv, Sound, MInv
<1>2. PICK old \in Payments, total \in Nat : old = payments[o] /\ total = Total(x.lines)
  BY RowFields, TotalNumber DEF IInv, Sound
<1>3. PICK net \in Nat, net2 \in Nat : net = NetPaid(old) /\ net2 = net + amount
  BY PaidNumbers
<1>4. /\ ps \in Payments /\ NetPaid(ps) = net2 /\ r \in OrderRow /\ r.status = x.status /\ r.saleType = x.saleType
      /\ r.customer = x.customer /\ r.lines = x.lines /\ r.payStatus = s /\ r.debt = d /\ r.earned = x.earned
      /\ (method # "cash" => x.customer # NoCustomer) /\ d \in Debt
  BY <1>1, <1>2, <1>3, PaidRowTyped
<1>5. PICK f : f = MoneyIn(funds, method, x.customer, amount)
  OBVIOUS
<1>6. f \in Funds /\ Holdings(f) = Holdings(funds) + amount
  BY <1>1, <1>5, PaidRowTyped
<1>7. /\ x.status \notin {"NONE", "CANCELLED", "DRAFT"} /\ x.saleType = "credit_sale" /\ x.debt.status # "WrittenOff"
      /\ amount <= Outstanding(total, old) /\ s = PaymentStatus(x.saleType, total, ps)
      /\ owed = Outstanding(total, ps) /\ d = PaidDebt(x.debt, owed, s) /\ SaveAndEarn(o, r, f)
      /\ ps = Append(old, NewPayment(method, amount))
  BY <1>1, <1>2, <1>5 DEF PaidRow
<1>8. net2 <= total /\ amount > 0
  <2>1. net <= total
    BY <1>1, <1>2, <1>3 DEF Paying
  <2>2. Outstanding(total, old) = total - net
    BY <1>3, <2>1, OutstandingIs
  <2> QED BY <1>3, <1>7, <2>1, <2>2
<1>9. x.status \in {"CONFIRMED", "PART_DELIVERED", "COMPLETED"}
  <2>1. total > 0
    BY <1>3, <1>8
  <2>2. x.lines # <<>>
    BY <1>2, <2>1, NothingOrdered
  <2>3. x.status # "DELETED"
    BY <1>1, <2>2 DEF LinesTell
  <2>4. x.status \in Statuses
    BY RowFields
  <2> QED BY <1>7, <2>3, <2>4 DEF Statuses
<1>10. x.saleType \in SaleTypes /\ x.debt \in Debt
  BY RowFields
<1>11. total > 0
  BY <1>3, <1>8
<1>12. StatusAgrees(x.saleType, s, total, ps)
  BY <1>4, <1>7, <1>10, <1>11, PaymentStatusFacts
<1>13. owed = total - (net + amount)
  <2>1. owed = total - net2
    BY <1>4, <1>7, <1>8, OutstandingIs
  <2> QED BY <1>3, <2>1
<1>14. DebtTells(x.status, "credit_sale", d, total, net2)
  <2>1. DebtTells(x.status, "credit_sale", x.debt, total, net)
    BY <1>1, <1>2, <1>3, <1>7 DEF Paying
  <2>2. s = "paid" <=> net + amount >= total
    BY <1>3, <1>4, <1>12 DEF StatusAgrees
  <2>3. net + amount <= total /\ amount > 0 /\ amount \in Nat
    BY <1>3, <1>8
  <2>4. PICK debt \in Debt, status \in {"CONFIRMED", "PART_DELIVERED", "COMPLETED"} : debt = x.debt /\ status = x.status
    BY <1>9, <1>10
  <2>5. DebtTells(status, "credit_sale", debt, total, net) /\ debt.status # "WrittenOff"
    BY <1>7, <2>1, <2>4
  <2>6. DebtTells(status, "credit_sale", PaidDebt(debt, total - (net + amount), s), total, net + amount)
    <3>1. total \in Nat /\ net \in Nat
      BY <1>3
    <3>2. debt \in Debt /\ status \in {"CONFIRMED", "PART_DELIVERED", "COMPLETED"}
      BY <2>4
    <3> QED BY ONLY <2>2, <2>3, <2>5, <3>1, <3>2, DebtPaid
  <2> QED BY <1>3, <1>7, <1>13, <2>4, <2>6
<1>15. PICK q : q = Saved(r)
  OBVIOUS
<1>16. /\ q.status = x.status /\ q.saleType = x.saleType /\ q.customer = x.customer /\ q.lines = x.lines
       /\ q.payStatus = s /\ q.debt = d /\ q.earned = x.earned + PointsToEarn(r)
  BY <1>4, <1>15, SavedFacts
<1>17. EarnedRight(q)
  <2>1. r.earned \in {0, PointsRate * Total(r.lines)} /\ (r.earned > 0 => r.status = "COMPLETED")
    BY <1>1, <1>4 DEF Paying, EarnedRight
  <2> QED BY <1>4, <1>15, <2>1, SavedEarns
<1>18. \A i \in DOMAIN ps : ps[i].method = "cash" \/ x.customer # NoCustomer
  <2>1. PICK p : p = NewPayment(method, amount)
    OBVIOUS
  <2>2. p.method = method
    BY <2>1 DEF NewPayment
  <2>3. old \in Seq(Payment)
    BY DEF Payments
  <2>4. \A i \in DOMAIN ps : (i \in DOMAIN old /\ ps[i] = old[i]) \/ ps[i] = p
    BY <1>7, <2>1, <2>3
  <2>5. \A i \in DOMAIN old : old[i].method = "cash" \/ x.customer # NoCustomer
    BY <1>1, <1>2 DEF Paying
  <2> QED BY <1>4, <2>2, <2>4, <2>5
<1>19. Paying(q, ps)
  <2>1. q.status \notin {"NONE", "DRAFT", "DELETED"}
    BY <1>9, <1>16
  <2>2. NetPaid(ps) <= Total(q.lines)
    BY <1>2, <1>4, <1>8, <1>16
  <2>3. StatusAgrees(q.saleType, q.payStatus, Total(q.lines), ps)
    BY <1>2, <1>12, <1>16
  <2>4. DebtTells(q.status, q.saleType, q.debt, Total(q.lines), NetPaid(ps))
    BY <1>2, <1>4, <1>7, <1>14, <1>16
  <2>5. OpenedFor(q.status, q.saleType, q.debt.original, Total(q.lines), ps)
    <3>1. OpenedFor(x.status, x.saleType, x.debt.original, total, old)
      BY <1>1, <1>2 DEF Paying
    <3>2. d.original = x.debt.original
      BY <1>7, <1>10, PaidKeepsOriginal
    <3>3. old # <<>> => ps # <<>> /\ ps[1] = old[1]
      BY <1>7 DEF Payments
    <3> QED BY <1>2, <1>16, <3>1, <3>2, <3>3 DEF OpenedFor
  <2> QED BY <1>16, <1>17, <1>18, <2>1, <2>2, <2>3, <2>4, <2>5 DEF Paying
<1>20. Holdings(funds') = Holdings(funds) + (NetPaid(ps) - NetPaid(old)) - (q.earned - x.earned)
  <2>1. Holdings(funds) \in Int
    BY TypedOrders, FundsAreAccounts, HoldingsNumber DEF IInv
  <2>2. Holdings(funds') = Holdings(f) - PointsToEarn(r)
    BY <1>4, <1>6, <1>7, SaveAndEarnDoes
  <2>3. PointsToEarn(r) \in Nat /\ x.earned \in Nat
    BY <1>4, PointsFacts, RowFields
  <2> QED BY <1>3, <1>4, <1>6, <1>16, <2>1, <2>2, <2>3
<1> QED BY <1>1, <1>2, <1>15, <1>19, <1>20 DEF Pays

LEMMA RefundPays ==
  ASSUME IInv, MInv, NEW o \in Order, NEW i \in DOMAIN payments[o], NEW amount \in Nat \ {0},
         NEW owed, NEW s, NEW d, NEW ps, NEW q, RefundedRow(o, i, amount, owed, s, d, ps, q)
  PROVE  Pays(o, q, ps)
<1>1. PICK x \in OrderRow : x = order[o] /\ Paying(x, payments[o]) /\ LinesTell(x)
  BY DEF IInv, Sound, MInv
<1>2. PICK old \in Payments, total \in Nat : old = payments[o] /\ total = Total(x.lines)
  BY RowFields, TotalNumber DEF IInv, Sound
<1>3. PICK net \in Nat : net = NetPaid(old)
  BY PaidNumbers
<1>4. /\ ps \in Payments /\ NetPaid(ps) = net - amount /\ d \in Debt
      /\ DOMAIN ps = DOMAIN old /\ (\A j \in DOMAIN ps : ps[j].method = old[j].method)
      /\ q \in OrderRow /\ q.status = x.status /\ q.saleType = x.saleType /\ q.customer = x.customer
      /\ q.lines = x.lines /\ q.payStatus = s /\ q.debt = d /\ q.earned = x.earned
  BY <1>1, <1>2, <1>3, RefundedRowTyped
<1>5. PICK net2 \in Nat : net2 = NetPaid(ps) /\ net2 = net - amount /\ net2 < net
  <2>1. NetPaid(ps) \in Nat
    BY <1>4, PaidNumbers
  <2> QED BY <1>4, <2>1
<1>6. /\ s = PaymentStatus(x.saleType, total, ps) /\ owed = Outstanding(total, ps)
      /\ d = IF x.saleType = "credit_sale" THEN DebtAfterRefund(x.debt, owed) ELSE x.debt
  BY <1>1, <1>2 DEF RefundedRow
<1>7. net <= total /\ net2 < total /\ total > 0
  <2>1. net <= total
    BY <1>1, <1>2, <1>3 DEF Paying
  <2> QED BY <1>5, <2>1
<1>8. x.status \in {"CONFIRMED", "PART_DELIVERED", "COMPLETED"}
  <2>1. old # <<>> /\ net > 0
    BY <1>2, <1>5
  <2>2. x.status \notin {"NONE", "DRAFT", "DELETED"}
    BY <1>1, <1>2, <2>1 DEF Paying
  <2>3. x.status # "CANCELLED"
    BY <1>1, <1>2, <1>3, <2>1 DEF Paying, DebtTells
  <2>4. x.status \in Statuses
    BY RowFields
  <2> QED BY <2>2, <2>3, <2>4 DEF Statuses
<1>9. x.saleType \in SaleTypes /\ x.debt \in Debt /\ x.earned \in Nat
  BY RowFields
<1>10. StatusAgrees(x.saleType, s, total, ps)
  BY <1>4, <1>6, <1>7, <1>9, PaymentStatusFacts
<1>11. DebtTells(x.status, x.saleType, d, total, net2)
  <2>1. DebtTells(x.status, x.saleType, x.debt, total, net)
    BY <1>1, <1>2, <1>3 DEF Paying
  <2>2. CASE x.saleType = "credit_sale"
    <3>1. owed = total - net2
      BY <1>4, <1>5, <1>6, <1>7, OutstandingIs
    <3>2. owed \in Nat
      BY <1>7, <3>1
    <3>3. DebtTells(x.status, "credit_sale", x.debt, total, net)
      BY <2>1, <2>2
    <3>4. DebtTells(x.status, "credit_sale", DebtAfterRefund(x.debt, owed), total, net2)
      BY <1>7, <1>8, <1>9, <3>1, <3>2, <3>3, DebtRefunded
    <3> QED BY <1>6, <2>2, <3>4
  <2>3. CASE x.saleType # "credit_sale"
    <3>1. d = x.debt /\ x.debt.status = "None"
      BY <1>6, <2>1, <2>3 DEF DebtTells
    <3> QED BY <1>8, <2>1, <2>3, <3>1 DEF DebtTells
  <2> QED BY <2>2, <2>3
<1>12. EarnedRight(q)
  <2>1. s # "paid"
    BY <1>5, <1>7, <1>10 DEF StatusAgrees
  <2>2. EarnedRight(x)
    BY <1>1 DEF Paying
  <2> QED BY <1>4, <2>1, <2>2 DEF EarnedRight
<1>13. \A j \in DOMAIN ps : ps[j].method = "cash" \/ x.customer # NoCustomer
  BY <1>1, <1>2, <1>4 DEF Paying
<1>14. Paying(q, ps)
  <2>1. q.status \notin {"NONE", "DRAFT", "DELETED"}
    BY <1>4, <1>8
  <2>2. NetPaid(ps) <= Total(q.lines)
    BY <1>2, <1>4, <1>5, <1>7
  <2>3. StatusAgrees(q.saleType, q.payStatus, Total(q.lines), ps)
    BY <1>2, <1>4, <1>10
  <2>4. DebtTells(q.status, q.saleType, q.debt, Total(q.lines), NetPaid(ps))
    BY <1>2, <1>4, <1>5, <1>11
  <2>5. OpenedFor(q.status, q.saleType, q.debt.original, Total(q.lines), ps)
    <3>1. OpenedFor(x.status, x.saleType, x.debt.original, total, old)
      BY <1>1, <1>2 DEF Paying
    <3>2. d.original = x.debt.original
      BY <1>6, <1>9, RefundKeepsOriginal
    <3>3. ps = BackOne(old, i, amount)
      BY <1>2 DEF RefundedRow
    <3>4. ps # <<>> /\ 1 \in DOMAIN old /\ ps[1].amount = old[1].amount
      BY <1>2, <3>3 DEF BackOne, Payments, Payment
    <3> QED BY <1>2, <1>4, <3>1, <3>2, <3>4 DEF OpenedFor
  <2> QED BY <1>4, <1>12, <1>13, <2>1, <2>2, <2>3, <2>4, <2>5 DEF Paying
<1>15. Holdings(funds') = Holdings(funds) + (NetPaid(ps) - NetPaid(old)) - (q.earned - x.earned)
  <2>1. Holdings(funds) \in Int
    BY TypedOrders, FundsAreAccounts, HoldingsNumber DEF IInv
  <2>2. old[i].method = "cash" \/ x.customer # NoCustomer
    BY <1>1, <1>2 DEF Paying
  <2>3. Holdings(funds') = Holdings(funds) - amount
    BY <1>1, <1>2, <2>2, RefundedRowTyped
  <2> QED BY <1>3, <1>4, <1>9, <2>1, <2>3
<1> QED BY <1>1, <1>2, <1>14, <1>15 DEF Pays

\* A debt that changes alone, and keeps what it says is owed, or is written off
LEMMA DebtAloneTells ==
  ASSUME NEW debt \in Debt, NEW d \in Debt, NEW status, NEW saleType, NEW total, NEW net,
         DebtTells(status, saleType, debt, total, net), debt.status # "None", d.status # "None",
         d.original = debt.original,
         IsOpen(d) => IsOpen(debt) /\ d.outstanding = debt.outstanding,
         ~IsOpen(d) => \/ d.status = "WrittenOff" /\ d.outstanding = 0
                       \/ d.status = debt.status /\ d.outstanding = debt.outstanding,
         debt.status \in {"WrittenOff", "Cancelled", "Settled"} => d.status = debt.status
  PROVE  DebtTells(status, saleType, d, total, net)
<1>1. /\ debt.status \in DebtStatuses /\ debt.outstanding \in Nat /\ d.status \in DebtStatuses /\ d.outstanding \in Nat
      /\ debt.original \in Nat
  BY DebtFields
<1>2. IsOpen(d) <=> d.outstanding > 0
  BY <1>1 DEF DebtTells, IsOpen
<1>3. d.original > 0 /\ saleType = "credit_sale"
  BY DEF DebtTells
<1>4. d.status = "Cancelled" => status = "CANCELLED"
  BY DEF DebtTells, IsOpen
<1>5. status = "CANCELLED" => net = 0 /\ ~IsOpen(d)
  BY DEF DebtTells
<1>6. d.status # "WrittenOff" => debt.status # "WrittenOff" /\ d.outstanding = debt.outstanding
  BY DEF IsOpen
<1> QED BY <1>2, <1>3, <1>4, <1>5, <1>6 DEF DebtTells

\* What an order is paid does not follow from its debt.
LEMMA OtherDebtPays ==
  ASSUME NEW r, NEW q, NEW ps, Paying(r, ps), q.status = r.status, q.saleType = r.saleType,
         q.customer = r.customer, q.lines = r.lines, q.payStatus = r.payStatus, q.earned = r.earned,
         q.debt.original = r.debt.original,
         DebtTells(r.status, r.saleType, q.debt, Total(r.lines), NetPaid(ps))
  PROVE  Paying(q, ps)
  BY DEF Paying, EarnedRight

LEMMA OnlyDebtPays ==
  ASSUME IInv, MInv, NEW o \in Order, NEW d, OnlyDebt(o, d), NEW q, q = WithDebt(order[o], d)
  PROVE  Pays(o, q, payments[o]) /\ q \in OrderRow /\ payments[o] \in Payments
<1>1. PICK r \in OrderRow, ps \in Payments : r = order[o] /\ ps = payments[o] /\ Paying(r, ps)
  BY DEF IInv, Sound, MInv
<1>2. /\ q \in OrderRow /\ q.status = r.status /\ q.saleType = r.saleType /\ q.customer = r.customer
      /\ q.lines = r.lines /\ q.payStatus = r.payStatus /\ q.debt = d /\ q.earned = r.earned /\ funds' = funds
  BY <1>1, OnlyDebtKeeps
<1>3. DebtTells(r.status, r.saleType, d, Total(r.lines), NetPaid(ps))
  <2>1. DebtTells(r.status, r.saleType, r.debt, Total(r.lines), NetPaid(ps))
    BY <1>1 DEF Paying
  <2>2. PICK debt \in Debt : debt = r.debt
    BY RowFields
  <2>3. /\ d \in Debt /\ debt.status # "None" /\ d.status # "None" /\ d.original = debt.original
        /\ IsOpen(d) => IsOpen(debt) /\ d.outstanding = debt.outstanding
        /\ ~IsOpen(d) => \/ d.status = "WrittenOff" /\ d.outstanding = 0
                         \/ d.status = debt.status /\ d.outstanding = debt.outstanding
        /\ debt.status \in {"WrittenOff", "Cancelled", "Settled"} => d.status = debt.status
    BY <1>1, <2>2 DEF OnlyDebt
  <2> QED BY <2>1, <2>2, <2>3, DebtAloneTells
<1>4. Paying(q, ps)
  <2>1. q.debt.original = r.debt.original
    BY <1>1, <1>2 DEF OnlyDebt
  <2> QED BY <1>1, <1>2, <1>3, <2>1, OtherDebtPays
<1>5. Holdings(funds) \in Int /\ NetPaid(ps) \in Nat /\ r.earned \in Nat
  BY TypedOrders, FundsAreAccounts, HoldingsNumber, PaidNumbers, RowFields DEF IInv
<1>6. Holdings(funds') = Holdings(funds) + (NetPaid(ps) - NetPaid(ps)) - (q.earned - r.earned)
  BY <1>2, <1>5
<1> QED BY <1>1, <1>2, <1>4, <1>6 DEF Pays

LEMMA MarkOverduePays ==
  ASSUME IInv, MInv, MarkOverdue PROVE MInv'
<1>1. (\A x \in Order : Marked(order[x], order'[x])) /\ payments' = payments /\ funds' = funds
  BY MarkOverdueDoes
<1>2. ASSUME NEW x \in Order PROVE Paying(order'[x], payments'[x]) /\ order'[x].earned = order[x].earned
  <2>1. PICK r, ps, q : r \in OrderRow /\ r = order[x] /\ ps = payments[x] /\ q = order'[x] /\ Paying(r, ps)
    BY DEF IInv, Sound, MInv
  <2>2. Marked(r, q)
    BY <1>1, <2>1
  <2>3. DebtTells(r.status, r.saleType, q.debt, Total(r.lines), NetPaid(ps))
    <3>1. DebtTells(r.status, r.saleType, r.debt, Total(r.lines), NetPaid(ps))
      BY <2>1 DEF Paying
    <3>2. CASE q.debt = r.debt
      BY <3>1, <3>2
    <3>3. CASE q.debt # r.debt
      <4>1. /\ IsOpen(r.debt) /\ IsOpen(q.debt)
            /\ q.debt.original = r.debt.original /\ q.debt.outstanding = r.debt.outstanding
        BY <2>2, <3>3 DEF Marked
      <4> QED BY <3>1, <4>1 DEF DebtTells, IsOpen
    <3> QED BY <3>2, <3>3
  <2>4. /\ q.status = r.status /\ q.saleType = r.saleType /\ q.customer = r.customer /\ q.lines = r.lines
        /\ q.payStatus = r.payStatus /\ q.earned = r.earned
    BY <2>2 DEF Marked
  <2>5. Paying(q, ps)
    <3>1. q.debt.original = r.debt.original
      BY <2>2 DEF Marked
    <3> QED BY <2>1, <2>3, <2>4, <3>1, OtherDebtPays
  <2> QED BY <1>1, <2>1, <2>4, <2>5
<1>3. Booked(order', payments') = Booked(order, payments)
  <2>1. [x \in Order |-> NetPaid(payments'[x]) - order'[x].earned]
          = [x \in Order |-> NetPaid(payments[x]) - order[x].earned]
    BY <1>1, <1>2
  <2> QED BY <2>1 DEF Booked
<1> QED BY <1>1, <1>2, <1>3 DEF MInv

LEMMA MoneyStep ==
  ASSUME "pay" \notin DraftRequests, IInv, MInv, [Next]_vars PROVE MInv'
<1>0. \A o \in Order : payments[o] \in Payments
  BY DEF IInv, Sound
<1>1. CASE order' = order /\ payments' = payments /\ funds' = funds
  BY <1>1 DEF MInv, Booked
<1>2. ASSUME NEW o \in Order, NEW saleType \in {"cash_sale", "credit_sale"}, NEW c \in Customer \cup {NoCustomer},
             NEW basket \in Baskets, Create(o, saleType, c, basket) \/ Update(o, saleType, c, basket)
      PROVE  MInv'
  <2>1. PICK q : q = Drafted(order[o], saleType, c, basket)
    OBVIOUS
  <2>2. saleType \in SaleTypes
    BY DEF SaleTypes
  <2>3. Writes(o, q, payments[o], rows[o]) /\ Keeps(o, q, payments[o], rows[o])
    BY <1>2, <2>1, <2>2, DraftStep
  <2>4. Pays(o, q, payments[o])
    BY <1>2, <2>1, <2>2, DraftPays
  <2>5. q \in OrderRow /\ payments[o] \in Payments
    BY <1>0, <2>3 DEF Keeps, Sound
  <2> QED BY <2>3, <2>4, <2>5, OneOrderPays
<1>3. ASSUME NEW o \in Order, NEW method \in Methods, NEW deposit \in Deposits \cup {0}, Confirm(o, method, deposit)
      PROVE  MInv'
  <2>1. PICK t, owed, q, ps, w : Confirmed(o, method, t, owed, q, ps, w)
    BY <1>3, ConfirmDoes
  <2>2. method \in PaymentMethods
    BY OrdersAssumption
  <2>3. Pays(o, q, ps) /\ q \in OrderRow /\ ps \in Payments
    BY <2>1, <2>2, ConfirmPays
  <2>4. Writes(o, q, ps, w)
    BY <2>1 DEF Confirmed
  <2> QED BY <2>3, <2>4, OneOrderPays
<1>4. ASSUME NEW o \in Order, NEW handed \in Handable(order[o].lines), Deliver(o, handed)
      PROVE  MInv'
  <2>1. PICK r, w : r \in OrderRow /\ DeliveredRow(o, handed, r, w)
    BY <1>4, DeliverDoes
  <2>2. Pays(o, Saved(r), payments[o])
    BY <2>1, DeliverPays
  <2>3. Writes(o, Saved(r), payments[o], w)
    BY <2>1 DEF DeliveredRow
  <2>4. Saved(r) \in OrderRow /\ payments[o] \in Payments
    BY <1>0, <2>1, SavedFacts
  <2> QED BY <2>2, <2>3, <2>4, OneOrderPays
<1>5. ASSUME NEW o \in Order, FulfillRead(o) \/ FulfillRefused(o) PROVE MInv'
  BY <1>1, <1>5 DEF FulfillRead, FulfillRefused
<1>6. ASSUME NEW o \in Order, FulfillCommit(o) PROVE MInv'
  <2>1. Pays(o, Saved(CompletedRow(o)), payments[o])
    BY <1>6, FulfillCommitPays
  <2>2. Writes(o, Saved(CompletedRow(o)), payments[o], rows[o]) /\ Keeps(o, Saved(CompletedRow(o)), payments[o], rows[o])
    BY <1>6, FulfillCommitKeeps
  <2>3. Saved(CompletedRow(o)) \in OrderRow /\ payments[o] \in Payments
    BY <1>0, <2>2 DEF Keeps, Sound
  <2> QED BY <2>1, <2>2, <2>3, OneOrderPays
<1>7. ASSUME NEW o \in Order, NEW refundTo, Cancel(o, refundTo) PROVE MInv'
  <2>1. PICK net, d, q, ps, w : CancelledRow(o, refundTo, net, d, q, ps, w)
    BY <1>7, CancelDoes
  <2>2. Pays(o, q, ps) /\ q \in OrderRow /\ ps \in Payments
    BY <2>1, CancelPays
  <2>3. Writes(o, q, ps, w)
    BY <2>1 DEF CancelledRow
  <2> QED BY <2>2, <2>3, OneOrderPays
<1>8. ASSUME NEW o \in Order, DeleteOrder(o) PROVE MInv'
  <2>1. Writes(o, DeletedRow, <<>>, NoRows)
    BY <1>8, DeleteKeeps
  <2>2. Pays(o, DeletedRow, <<>>)
    BY <1>8, DeletePays
  <2>3. DeletedRow \in OrderRow /\ <<>> \in Payments
    BY AbsentFacts, NothingPaid
  <2> QED BY <2>1, <2>2, <2>3, OneOrderPays
<1>9. ASSUME NEW o \in Order, NEW method \in Methods, NEW amount \in Amounts, CreatePayment(o, method, amount)
      PROVE  MInv'
  <2>1. PICK owed, s, d, ps, r : PaidRow(o, method, amount, owed, s, d, ps, r)
    BY <1>9, PayDoes
  <2>2. method \in PaymentMethods /\ amount \in Nat \ {0}
    BY OrdersAssumption
  <2>3. Pays(o, Saved(r), ps)
    BY <2>1, <2>2, PayPays
  <2>4. Writes(o, Saved(r), ps, rows[o]) /\ r \in OrderRow /\ ps \in Payments
    BY <2>1, <2>2, PaidRowTyped
  <2>5. Saved(r) \in OrderRow
    BY <2>4, SavedFacts
  <2> QED BY <2>3, <2>4, <2>5, OneOrderPays
<1>10. ASSUME NEW o \in Order, NEW i \in DOMAIN payments[o], NEW amount \in Amounts, Refund(o, i, amount)
       PROVE  MInv'
  <2>1. PICK owed, s, d, ps, q : RefundedRow(o, i, amount, owed, s, d, ps, q)
    BY <1>10, RefundDoes
  <2>2. amount \in Nat \ {0}
    BY OrdersAssumption
  <2>3. Pays(o, q, ps)
    BY <2>1, <2>2, RefundPays
  <2>4. Writes(o, q, ps, rows[o]) /\ q \in OrderRow /\ ps \in Payments
    BY <2>1, <2>2, RefundedRowTyped
  <2> QED BY <2>3, <2>4, OneOrderPays
<1>11. ASSUME NEW o \in Order,
              WriteOff(o) \/ (\E pastDue \in BOOLEAN : ChangeDueDate(o, pastDue)) \/ DueDatePasses(o)
       PROVE  MInv'
  <2>1. PICK d : OnlyDebt(o, d)
    BY <1>11, DebtSteps
  <2>2. PICK q : q = WithDebt(order[o], d)
    OBVIOUS
  <2>3. Writes(o, q, payments[o], rows[o])
    BY <2>1, <2>2, OnlyDebtKeeps
  <2>4. Pays(o, q, payments[o]) /\ q \in OrderRow /\ payments[o] \in Payments
    BY <2>1, <2>2, OnlyDebtPays
  <2> QED BY <2>3, <2>4, OneOrderPays
<1>12. ASSUME MarkOverdue PROVE MInv'
  BY <1>12, MarkOverduePays
<1>13. CASE UNCHANGED vars
  BY <1>1, <1>13 DEF vars
<1> QED BY <1>2, <1>3, <1>4, <1>5, <1>6, <1>7, <1>8, <1>9, <1>10, <1>11, <1>12, <1>13 DEF Next

LEMMA InitPays == Init => MInv
<1> SUFFICES ASSUME Init PROVE MInv
  OBVIOUS
<1>1. /\ order = [x \in Order |-> Absent] /\ payments = [x \in Order |-> <<>>]
      /\ funds = [drawer |-> 0, credit |-> [c \in Customer |-> InitialCredit],
                  points |-> [c \in Customer |-> InitialPoints]]
  BY DEF Init
<1>2. \A x \in Order : Paying(order[x], payments[x])
  BY <1>1, EmptyPays
<1>3. Holdings(funds) = 0
  <2> DEFINE s == [c \in Customer |-> InitialCredit - funds.credit[c] + InitialPoints - funds.points[c]]
  <2>1. InitialCredit \in Int /\ InitialPoints \in Int /\ IsFiniteSet(Customer)
    BY OrdersAssumption
  <2>2. \A c \in Customer : s[c] = 0
    <3>1. ASSUME NEW c \in Customer PROVE s[c] = InitialCredit - InitialCredit + InitialPoints - InitialPoints
      BY <1>1
    <3> HIDE DEF s
    <3> QED BY <2>1, <3>1
  <2> HIDE DEF s
  <2>3. SumFunctionOnSet(s, Customer) = 0
    BY <2>1, <2>2, SumZero
  <2>4. funds.drawer = 0
    BY <1>1
  <2> QED BY <2>3, <2>4 DEF Holdings, s
<1>4. Booked(order, payments) = 0
  <2> DEFINE s == [x \in Order |-> NetPaid(payments[x]) - order[x].earned]
  <2>1. IsFiniteSet(Order)
    BY OrdersAssumption
  <2>2. \A x \in Order : s[x] = 0
    <3>1. ASSUME NEW x \in Order PROVE NetPaid(payments[x]) = 0 /\ order[x].earned = 0
      BY <1>1, NothingPaid, AbsentFacts
    <3>2. 0 - 0 = 0
      OBVIOUS
    <3> QED BY <3>1, <3>2
  <2> HIDE DEF s
  <2>3. SumFunctionOnSet(s, Order) = 0
    BY <2>1, <2>2, SumZero
  <2> QED BY <2>3 DEF Booked, s
<1> QED BY <1>2, <1>3, <1>4 DEF MInv

LEMMA MoneyIsSound ==
  ASSUME "pay" \notin DraftRequests PROVE Spec => [](IInv /\ MInv)
<1>1. Init => IInv /\ MInv
  BY InitSound, InitPays
<1>2. (IInv /\ MInv) /\ [Next]_vars => (IInv /\ MInv)'
  BY StepTells, MoneyStep DEF StepFacts
<1> QED BY <1>1, <1>2, PTL DEF Spec

\* The drawer and the customers' accounts hold what the orders' payments less their refunds
\* say came in, and the points earned, whatever mix of deposits, payments, refunds,
\* deliveries and cancellations.  No screen offers to pay a draft (DraftRequests): one that
\* was paid keeps its payment when its lines are replaced.
THEOREM MoneyAlwaysAddsUp ==
  ASSUME "pay" \notin DraftRequests
  PROVE  Spec => []MoneyAddsUp
<1>1. MInv => MoneyAddsUp
  BY DEF MInv, Holdings, Booked, MoneyAddsUp, SumFunction
<1> QED BY MoneyIsSound, <1>1, PTL

LEMMA PayingAgrees ==
  ASSUME IInv, MInv PROVE PaymentsAgree
<1>1. NeverOverpaid
  BY DEF MInv, Paying, NeverOverpaid
<1>2. PaymentStatusAgrees
  <2>1. SUFFICES ASSUME NEW o \in Stored
        PROVE  LET net == NetPaid(payments[o])
                   refundedCash == order[o].saleType = "cash_sale" /\ payments[o] # <<>> /\ net = 0
               IN /\ order[o].payStatus = "refunded" <=> refundedCash
                  /\ order[o].payStatus = "paid" <=> net >= Total(order[o].lines)
                  /\ order[o].payStatus = "unpaid" <=> net = 0 /\ ~refundedCash
    BY DEF PaymentStatusAgrees
  <2>2. StatusAgrees(order[o].saleType, order[o].payStatus, Total(order[o].lines), payments[o])
    BY <2>1 DEF Stored, MInv, Paying
  <2> QED BY <2>2 DEF StatusAgrees
<1>3. CancelledHoldsNothing
  BY DEF MInv, Paying, DebtTells, CancelledHoldsNothing
<1>4. EarnedOnce
  BY DEF MInv, Paying, EarnedRight, EarnedOnce
<1> QED BY <1>1, <1>2, <1>3, <1>4 DEF IInv, PaymentsAgree

\* An order keeps no more than it costs, its stored payment status tells what it was paid,
\* one that is cancelled gave everything back, and its points are earned exactly once, in
\* whatever order its deposits, payments, refunds and deliveries come.
THEOREM PaymentsAlwaysAgree ==
  ASSUME "pay" \notin DraftRequests
  PROVE  Spec => []PaymentsAgree
<1>1. IInv /\ MInv => PaymentsAgree
  BY PayingAgrees
<1> QED BY MoneyIsSound, <1>1, PTL

LEMMA PayingOwes ==
  ASSUME IInv, MInv PROVE DebtAgrees
<1>1. OpenMeansOwed
  BY DEF MInv, Paying, DebtTells, OpenMeansOwed
<1>2. ReceivableIsWhatIsOwed
  <2>1. SUFFICES ASSUME NEW o \in Stored, order[o].status \notin {"DRAFT", "CANCELLED"},
                        order[o].saleType = "credit_sale"
        PROVE  LET total == Total(order[o].lines)
                   owed == Outstanding(total, payments[o])
                   debt == order[o].debt
               IN /\ \/ debt.original = total
                     \/ payments[o] # <<>> /\ debt.original + payments[o][1].amount = total
                  /\ \/ debt.status \in {"None", "WrittenOff"}
                     \/ debt.outstanding = owed
                     \/ StandsAtOriginal(debt, owed)
    BY DEF ReceivableIsWhatIsOwed
  <2>2. PICK r \in OrderRow, ps \in Payments : r = order[o] /\ ps = payments[o] /\ Paying(r, ps)
    BY DEF Stored, IInv, Sound, MInv
  <2>3. PICK total \in Nat : total = Total(r.lines)
    BY RowFields, TotalNumber
  <2>4. r.status \in {"CONFIRMED", "PART_DELIVERED", "COMPLETED"}
    <3>1. r.status \in Statuses
      BY RowFields
    <3>2. r.status \notin {"NONE", "DELETED"}
      BY <2>2 DEF Stored
    <3> QED BY <2>1, <2>2, <3>1, <3>2 DEF Statuses
  <2>5. PICK owed : owed = Outstanding(total, ps)
    OBVIOUS
  <2>6. owed = IF NetPaid(ps) <= total THEN total - NetPaid(ps) ELSE 0
    BY <2>5, OutstandingIs
  <2>7. DebtTells(r.status, r.saleType, r.debt, total, NetPaid(ps))
    BY <2>2, <2>3 DEF Paying
  <2>8. \/ r.debt.status \in {"None", "WrittenOff"}
        \/ r.debt.outstanding = owed
        \/ StandsAtOriginal(r.debt, owed)
    BY <2>1, <2>2, <2>4, <2>6, <2>7 DEF DebtTells, StandsAtOriginal
  <2>9. r.debt.original = total \/ (ps # <<>> /\ r.debt.original + ps[1].amount = total)
    BY <2>1, <2>2, <2>3, <2>4 DEF Paying, OpenedFor
  <2> QED BY <2>2, <2>3, <2>5, <2>8, <2>9
<1> QED BY <1>1, <1>2 DEF DebtAgrees

\* The receivable of a credit sale is opened for what the deposit leaves, so only one paid
\* in full as it is confirmed has none.  Until it is written off it says what the order's
\* payments leave to pay, or its original amount where a refund leaves more, and is open
\* just as long as it says something, though confirmations, payments, refunds,
\* cancellations, due dates and the overdue job each write it from figures of their own.
THEOREM DebtAlwaysAgrees ==
  ASSUME "pay" \notin DraftRequests
  PROVE  Spec => []DebtAgrees
<1>1. IInv /\ MInv => DebtAgrees
  BY PayingOwes
<1> QED BY MoneyIsSound, <1>1, PTL
===============================================================================
