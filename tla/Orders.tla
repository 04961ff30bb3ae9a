-------------------------------- MODULE Orders --------------------------------
(***************************************************************************)
(* A customer order from draft to delivery, with its stock and its money:  *)
(* modules/orders, modules/payments and the parts of modules/receivables,  *)
(* modules/inventory and modules/customer they call in one transaction.    *)
(*                                                                         *)
(* Every use case starts by locking the order's row (a write-off or a new  *)
(* due date locks the receivable, which a payment locks too) and commits   *)
(* once: it is one action, enabled when it is not refused.  fulfill() is   *)
(* the exception: it chooses its path from an order it read before its     *)
(* transaction, so it is two actions.                                      *)
(*                                                                         *)
(* Money is in whole units (the code's 0.01 tolerances tell nothing apart) *)
(* and "cash" stands for the methods that go to no account of a customer.  *)
(* Left out: special-order lines, services on a line, returns and          *)
(* cancelRest, bank accounts, several stock locations.                     *)
(***************************************************************************)
EXTENDS Integers, Sequences, FiniteSetsExt

CONSTANTS
  Order,           \* order numbers
  Book,
  Price,           \* [Book -> Nat \ {0}]
  Customer,
  NoCustomer,      \* a walk-in
  Baskets,         \* what a request may order: sequences of [book, quantity]
  Methods,         \* of paying: a subset of PaymentMethods
  Deposits,        \* amounts a confirmation may take on a credit sale
  Amounts,         \* amounts a payment or a refund may name
  MaxPayments,     \* bound: payments on one order
  InitialStock,    \* copies of a book on the shelf at the start
  InitialCredit, InitialPoints,
  PointsRate,      \* loyalty points per unit of money
  NegativeAllowed, \* the branch's allow_negative_stock
  DraftRequests    \* which of the requests "pay" and "fulfill" may name a draft: no screen
                   \* offers them (computeOrderAllowedActions, listUnpaid)

PaymentMethods == {"cash", "store_credit", "loyalty_points"}

ASSUME OrdersAssumption ==
  /\ IsFiniteSet(Order) /\ IsFiniteSet(Customer)
  /\ Price \in [Book -> Nat \ {0}]
  /\ NoCustomer \notin Customer
  /\ \A basket \in Baskets :
       basket \in Seq([book : Book, quantity : Nat \ {0}]) /\ basket # <<>>
  /\ Methods \subseteq PaymentMethods
  /\ Deposits \subseteq Nat \ {0}
  /\ Amounts \subseteq Nat \ {0}
  /\ {MaxPayments, InitialCredit, InitialPoints, PointsRate} \subseteq Nat
  /\ InitialStock \subseteq Nat
  /\ NegativeAllowed \in BOOLEAN /\ DraftRequests \subseteq {"pay", "fulfill"}

VARIABLES
  order,      \* [Order -> the order with its lines and its receivable]
  payments,   \* [Order -> sequence of payments, each with what it gave back]
  rows,       \* [Order -> [Book -> copies of its reservation rows by status]]
  stock,      \* [Book -> copies on the shelf]
  funds,      \* the counter's drawer, and the customers' accounts
  fulfilling  \* orders fulfill() has read with nothing reserved, and not yet locked

vars == <<order, payments, rows, stock, funds, fulfilling>>

Rules == INSTANCE StockRules WITH Cent <- 1

-----------------------------------------------------------------------------
(* Lines, payments and what follows from them.                             *)

\* The copies of a book in what the lines say of themselves: quantity, waiting or delivered
Copies(lines, b, field) ==
  SumFunction([i \in DOMAIN lines |-> IF lines[i].book = b THEN lines[i][field] ELSE 0])

\* No line waits any more.
NoneWaiting(lines) == [i \in DOMAIN lines |-> [lines[i] EXCEPT !.waiting = 0]]

\* orderTotals, priced without discounts
Total(lines) == SumFunction([i \in DOMAIN lines |-> lines[i].quantity * Price[lines[i].book]])

SomethingWaits(lines) == \E i \in DOMAIN lines : lines[i].waiting > 0

Paid(ps) == SumFunction([i \in DOMAIN ps |-> ps[i].amount])
Refunded(ps) == SumFunction([i \in DOMAIN ps |-> ps[i].refunded])
NetPaid(ps) == Paid(ps) - Refunded(ps)

\* outstanding: what the customer still owes on the order
Outstanding(total, ps) == Max({0, total - NetPaid(ps)})

\* orderPaymentStatus: a refunded credit sale is owed again.
PaymentStatus(saleType, total, ps) ==
  CASE saleType # "credit_sale" /\ Paid(ps) > 0 /\ Refunded(ps) >= Paid(ps) -> "refunded"
    [] OTHER -> IF NetPaid(ps) >= total THEN "paid"
                ELSE IF NetPaid(ps) > 0 THEN "partial" ELSE "unpaid"

\* Mutant: an order earns again each time it is paid.
MutantEarnsAgain(r) ==
  IF r.status = "COMPLETED" /\ r.payStatus = "paid" /\ r.customer # NoCustomer
  THEN PointsRate * Total(r.lines) ELSE 0

\* orderPointsToEarn, for a customer with a loyalty account
PointsToEarn(r) ==
  IF r.status = "COMPLETED" /\ r.payStatus = "paid" /\ r.customer # NoCustomer /\ r.earned = 0
  THEN PointsRate * Total(r.lines) ELSE 0

-----------------------------------------------------------------------------
(* The receivable of a credit sale.                                        *)

NoDebt == [status |-> "None", original |-> 0, outstanding |-> 0, pastDue |-> FALSE]

IsOpen(debt) == debt.status \in {"Pending", "PartiallyPaid", "Overdue"}

\* statusForDueDate
DueStatus(debt) ==
  IF debt.pastDue THEN "Overdue"
  ELSE IF debt.outstanding < debt.original THEN "PartiallyPaid" ELSE "Pending"

\* updateReceivableOnPayment
DebtAfterPayment(debt, owed, settled) ==
  IF ~IsOpen(debt) THEN debt
  ELSE IF settled \/ owed = 0 THEN [debt EXCEPT !.outstanding = 0, !.status = "Settled"]
  ELSE [debt EXCEPT !.outstanding = owed,
                    !.status = IF debt.pastDue THEN "Overdue" ELSE "PartiallyPaid"]

\* Mutant: a settled debt does not reopen when its payment is refunded.
MutantStaysSettled(debt, owed) ==
  IF IsOpen(debt) THEN [debt EXCEPT !.outstanding = owed] ELSE debt

\* reopenOnRefund
DebtAfterRefund(debt, owed) ==
  LET again == [debt EXCEPT !.outstanding = Min({debt.original, owed})]
  IN IF debt.status \in {"None", "WrittenOff", "Cancelled"} \/ again.outstanding = 0 THEN debt
     ELSE [again EXCEPT !.status = DueStatus(again)]

\* cancelReceivable, as cancel calls it
DebtAfterCancel(debt, moneyReturned) ==
  IF IsOpen(debt) \/ (moneyReturned /\ debt.status = "Settled")
  THEN [debt EXCEPT !.outstanding = 0, !.status = "Cancelled"] ELSE debt

-----------------------------------------------------------------------------
(* The money.                                                              *)

\* amount comes in by method for customer (goes back, when below zero).
MoneyIn(f, method, customer, amount) ==
  IF method = "cash" THEN [f EXCEPT !.drawer = @ + amount]
  ELSE IF customer = NoCustomer THEN f
  ELSE IF method = "store_credit" THEN [f EXCEPT !.credit[customer] = @ - amount]
  ELSE [f EXCEPT !.points[customer] = @ - amount]

\* checkStoreCredit, spendPoints
Covers(method, customer, amount) ==
  \/ method = "cash"
  \/ /\ customer # NoCustomer
     /\ \/ method = "store_credit" /\ funds.credit[customer] >= amount
        \/ method = "loyalty_points" /\ funds.points[customer] >= amount

\* Mutant: store credit given for a cash payment also comes out of the drawer.
MutantPaidBackTwice(f, customer, ps, refundTo) ==
  [f EXCEPT !.drawer = @ - NetPaid(ps),
            !.credit = IF refundTo = "store_credit" THEN [@ EXCEPT ![customer] = @ + NetPaid(ps)] ELSE @]

\* refundOrderPayments, the whole amount
MoneyReturned(f, customer, ps, refundTo) ==
  LET By(method) == IF refundTo = "store_credit" THEN "store_credit" ELSE method
      Open(method) == SumFunction([i \in DOMAIN ps |->
                        IF By(ps[i].method) = method THEN ps[i].amount - ps[i].refunded ELSE 0])
  IN MoneyIn(MoneyIn(MoneyIn(f, "cash", customer, -Open("cash")),
                     "store_credit", customer, -Open("store_credit")),
             "loyalty_points", customer, -Open("loyalty_points"))

\* earnIfDone: the order is written, and earns its points if it is done and paid.
SaveAndEarn(o, r, f) ==
  LET earned == PointsToEarn(r)
  IN /\ order' = [order EXCEPT ![o] = [r EXCEPT !.earned = @ + earned]]
     /\ funds' = IF r.customer = NoCustomer THEN f
                 ELSE [f EXCEPT !.points[r.customer] = @ + earned]

-----------------------------------------------------------------------------
(* States.                                                                 *)

Absent == [status |-> "NONE", saleType |-> "cash_sale", customer |-> NoCustomer,
           lines |-> <<>>, payStatus |-> "unpaid", debt |-> NoDebt, earned |-> 0]

\* The orders in the table; a number is never given twice.
Stored == {o \in Order : order[o].status \notin {"NONE", "DELETED"}}

NoRows == [b \in Book |-> [reserved |-> 0, deducted |-> 0, released |-> 0]]

Line == [book : Book, quantity : Nat \ {0}, waiting : Nat, delivered : Nat]
Debt == [status : {"None", "Pending", "PartiallyPaid", "Overdue", "Settled", "WrittenOff", "Cancelled"},
         original : Nat, outstanding : Nat, pastDue : BOOLEAN]
OrderRow == [status : {"NONE", "DRAFT", "CONFIRMED", "PART_DELIVERED", "COMPLETED", "CANCELLED", "DELETED"},
             saleType : {"cash_sale", "credit_sale"}, customer : Customer \cup {NoCustomer},
             lines : Seq(Line), payStatus : {"unpaid", "partial", "paid", "refunded"},
             debt : Debt, earned : Nat]
Payment == [method : PaymentMethods, amount : Nat \ {0}, refunded : Nat]
Reservation == [reserved : Nat, deducted : Nat, released : Nat]

TypeOK ==
  /\ order \in [Order -> OrderRow]
  /\ payments \in [Order -> Seq(Payment)]
  /\ \A o \in Order : \A i \in DOMAIN payments[o] : payments[o][i].refunded <= payments[o][i].amount
  /\ rows \in [Order -> [Book -> Reservation]]
  /\ stock \in [Book -> Int]
  /\ funds \in [drawer : Int, credit : [Customer -> Nat], points : [Customer -> Nat]]
  /\ fulfilling \subseteq Order

Init ==
  /\ order = [o \in Order |-> Absent]
  /\ payments = [o \in Order |-> <<>>]
  /\ rows = [o \in Order |-> NoRows]
  /\ stock \in [Book -> InitialStock]
  /\ funds = [drawer |-> 0, credit |-> [c \in Customer |-> InitialCredit],
              points |-> [c \in Customer |-> InitialPoints]]
  /\ fulfilling = {}

-----------------------------------------------------------------------------
(* The order's use cases (orders.service.ts).                              *)

\* A draft with the contents of a request.  checkNewOrder: a credit sale has a
\* customer.  priceOrder's look at the stock holds for nothing later: no guard.
Drafted(r, saleType, customer, basket) ==
  [r EXCEPT !.status = "DRAFT", !.saleType = saleType, !.customer = customer,
            !.lines = [i \in DOMAIN basket |->
                         [book |-> basket[i].book, quantity |-> basket[i].quantity,
                          waiting |-> 0, delivered |-> 0]]]

Create(o, saleType, customer, basket) ==
  /\ order[o].status = "NONE"
  /\ saleType = "credit_sale" => customer # NoCustomer
  /\ order' = [order EXCEPT ![o] = Drafted(@, saleType, customer, basket)]
  /\ UNCHANGED <<payments, rows, stock, funds, fulfilling>>

Update(o, saleType, customer, basket) ==
  /\ order[o].status = "DRAFT"
  /\ saleType = "credit_sale" => customer # NoCustomer
  /\ order' = [order EXCEPT ![o] = Drafted(@, saleType, customer, basket)]
  /\ UNCHANGED <<payments, rows, stock, funds, fulfilling>>

\* Mutant: each line is checked alone against the stock.
MutantLinesCheckedAlone(lines) ==
  NegativeAllowed \/ \A i \in DOMAIN lines : Rules!Available(stock[lines[i].book]) >= lines[i].quantity

\* The lines are checked and issued in turn: each book has what all of them take.
EnoughStock(lines) ==
  NegativeAllowed \/ \A b \in Book :
    Copies(lines, b, "quantity") > 0 => Rules!Available(stock[b]) >= Copies(lines, b, "quantity")

AllWaiting(lines) == [i \in DOMAIN lines |-> [lines[i] EXCEPT !.waiting = lines[i].quantity]]

InsertReservation(row, n) == [row EXCEPT !.reserved = @ + n]

Confirm(o, method, deposit) ==
  LET r == order[o]
      total == Total(r.lines)
      taken == IF r.saleType = "cash_sale" THEN total ELSE deposit
      ps == IF taken = 0 THEN payments[o]
            ELSE Append(payments[o], [method |-> method, amount |-> taken, refunded |-> 0])
      owed == total - NetPaid(ps)
  IN /\ r.status = "DRAFT"
     /\ r.saleType = "cash_sale" => deposit = 0
     /\ deposit <= total
     /\ EnoughStock(r.lines)
     /\ taken > 0 => method # "loyalty_points" /\ Covers(method, r.customer, taken)
     /\ Len(ps) <= MaxPayments
     /\ order' = [order EXCEPT ![o] =
          [r EXCEPT !.status = "CONFIRMED",
                    !.lines = AllWaiting(@),
                    !.payStatus = IF taken = 0 THEN @ ELSE IF taken < total THEN "partial" ELSE "paid",
                    !.debt = IF r.saleType = "credit_sale" /\ owed > 0
                             THEN [status |-> "Pending", original |-> owed,
                                   outstanding |-> owed, pastDue |-> FALSE]
                             ELSE @]]
     /\ payments' = [payments EXCEPT ![o] = ps]
     /\ rows' = [rows EXCEPT ![o] =
                  [b \in Book |-> InsertReservation(@[b], Copies(r.lines, b, "quantity"))]]
     /\ stock' = [b \in Book |-> stock[b] - Copies(r.lines, b, "quantity")]
     /\ funds' = IF taken = 0 THEN funds ELSE MoneyIn(funds, method, r.customer, taken)
     /\ UNCHANGED fulfilling

\* deductReserved: oldest rows first, one given up in part being split.
DeductReserved(row, n) ==
  LET take == Min({n, row.reserved})
  IN [row EXCEPT !.reserved = @ - take, !.deducted = @ + take]

\* deliverLine for each line, and the status that follows (FULFILLED is passed through)
HandedOver(r, handed) ==
  LET lines == [i \in DOMAIN r.lines |->
                  [r.lines[i] EXCEPT !.waiting = @ - handed[i], !.delivered = @ + handed[i]]]
  IN [r EXCEPT !.lines = lines,
               !.status = IF SomethingWaits(lines) THEN "PART_DELIVERED" ELSE "COMPLETED"]

\* handed: the copies of each line that go, none of a line the request does not name.
Deliver(o, handed) ==
  LET r == order[o]
      HandedOf(b) == SumFunction([i \in DOMAIN r.lines |-> IF r.lines[i].book = b THEN handed[i] ELSE 0])
  IN /\ r.status \in {"CONFIRMED", "PART_DELIVERED"}
     /\ \A i \in DOMAIN r.lines : handed[i] <= r.lines[i].waiting
     /\ \E i \in DOMAIN r.lines : handed[i] > 0
     /\ SaveAndEarn(o, HandedOver(r, handed), funds)
     /\ rows' = [rows EXCEPT ![o] = [b \in Book |-> DeductReserved(@[b], HandedOf(b))]]
     /\ UNCHANGED <<payments, stock, fulfilling>>

\* fulfill: an order with something waiting is delivered in full by the same
\* transaction as a delivery (Deliver).  One with nothing waiting is completed
\* below, whatever happens to it between this read and that lock.
FulfillRead(o) ==
  /\ o \in Stored
  /\ order[o].status = "DRAFT" => "fulfill" \in DraftRequests
  /\ ~SomethingWaits(order[o].lines)
  /\ fulfilling' = fulfilling \cup {o}
  /\ UNCHANGED <<order, payments, rows, stock, funds>>

FulfillCommit(o) ==
  /\ o \in fulfilling
  /\ fulfilling' = fulfilling \ {o}
  /\ order[o].status = "CONFIRMED"
  /\ SaveAndEarn(o, [order[o] EXCEPT !.status = "COMPLETED"], funds)
  /\ UNCHANGED <<payments, rows, stock>>

FulfillRefused(o) ==
  /\ o \in fulfilling
  /\ order[o].status # "CONFIRMED"
  /\ fulfilling' = fulfilling \ {o}
  /\ UNCHANGED <<order, payments, rows, stock, funds>>

\* releaseReservations
ReleaseReservations(row) == [row EXCEPT !.released = @ + row.reserved, !.reserved = 0]

\* Mutant: a cancelled draft puts back the copies it never took.
MutantDraftPutsBack(lines, b) == Copies(lines, b, "quantity")

\* The copies a cancellation puts back on the shelf
PutBack(lines, b) == Copies(lines, b, "waiting")

\* Money taken goes back, by its own method or as store credit.  A written-off
\* debt cannot go with an order that gives money back.
Cancel(o, refundTo) ==
  LET r == order[o]
      paid == NetPaid(payments[o]) > 0
      ps == [i \in DOMAIN payments[o] |-> [payments[o][i] EXCEPT !.refunded = payments[o][i].amount]]
      total == Total(r.lines)
      closed == DebtAfterCancel(r.debt, paid)
  IN /\ r.status \in {"DRAFT", "CONFIRMED"}
     /\ paid /\ refundTo = "store_credit" => r.customer # NoCustomer
     /\ ~(paid /\ r.debt.status = "WrittenOff")
     /\ order' = [order EXCEPT ![o] =
          [r EXCEPT !.status = "CANCELLED",
                    !.lines = NoneWaiting(@),
                    !.payStatus = IF paid THEN PaymentStatus(r.saleType, total, ps) ELSE @,
                    !.debt = IF paid /\ r.saleType = "credit_sale"
                             THEN DebtAfterRefund(closed, Outstanding(total, ps)) ELSE closed]]
     /\ payments' = IF paid THEN [payments EXCEPT ![o] = ps] ELSE payments
     /\ rows' = [rows EXCEPT ![o] = [b \in Book |-> ReleaseReservations(@[b])]]
     /\ stock' = [b \in Book |-> stock[b] + PutBack(r.lines, b)]
     /\ funds' = IF paid THEN MoneyReturned(funds, r.customer, payments[o], refundTo) ELSE funds
     /\ UNCHANGED fulfilling

\* deleteBlockers: payments, a receivable, stock movements
DeleteOrder(o) ==
  /\ order[o].status \in {"DRAFT", "CANCELLED"}
  /\ payments[o] = <<>> /\ order[o].debt = NoDebt /\ rows[o] = NoRows
  /\ order' = [order EXCEPT ![o] = [Absent EXCEPT !.status = "DELETED"]]
  /\ UNCHANGED <<payments, rows, stock, funds, fulfilling>>

-----------------------------------------------------------------------------
(* Payments and refunds (payments.service.ts).                             *)

\* checkCanPay: no more than is still owed
CanPay(o, amount) == amount <= Outstanding(Total(order[o].lines), payments[o])

CreatePayment(o, method, amount) ==
  LET r == order[o]
      ps == Append(payments[o], [method |-> method, amount |-> amount, refunded |-> 0])
      payStatus == PaymentStatus(r.saleType, Total(r.lines), ps)
      owed == Outstanding(Total(r.lines), ps)
  IN /\ r.status \notin {"NONE", "CANCELLED"}
     /\ r.status = "DRAFT" => "pay" \in DraftRequests
     /\ r.saleType = "credit_sale"
     /\ CanPay(o, amount)
     /\ r.debt.status # "WrittenOff"
     /\ Covers(method, r.customer, amount)
     /\ Len(ps) <= MaxPayments
     /\ payments' = [payments EXCEPT ![o] = ps]
     /\ SaveAndEarn(o, [r EXCEPT !.payStatus = payStatus,
                                 !.debt = DebtAfterPayment(@, owed, payStatus = "paid")],
                    MoneyIn(funds, method, r.customer, amount))
     /\ UNCHANGED <<rows, stock, fulfilling>>

\* checkCanRefund
CanRefund(payment, amount) == payment.refunded + amount <= payment.amount

Refund(o, i, amount) ==
  LET r == order[o]
      payment == payments[o][i]
      ps == [payments[o] EXCEPT ![i].refunded = @ + amount]
      total == Total(r.lines)
  IN /\ CanRefund(payment, amount)
     /\ r.debt.status # "WrittenOff"
     /\ payments' = [payments EXCEPT ![o] = ps]
     /\ order' = [order EXCEPT ![o] =
          [r EXCEPT !.payStatus = PaymentStatus(r.saleType, total, ps),
                    !.debt = IF r.saleType = "credit_sale"
                             THEN DebtAfterRefund(@, Outstanding(total, ps)) ELSE @]]
     /\ funds' = MoneyIn(funds, payment.method, r.customer, -amount)
     /\ UNCHANGED <<rows, stock, fulfilling>>

-----------------------------------------------------------------------------
(* The receivable on its own (receivables.service.ts).                     *)

SaveDebt(o, debt) ==
  /\ order' = [order EXCEPT ![o].debt = debt]
  /\ UNCHANGED <<payments, rows, stock, funds, fulfilling>>

WriteOff(o) ==
  /\ IsOpen(order[o].debt) /\ order[o].debt.outstanding > 0
  /\ SaveDebt(o, [order[o].debt EXCEPT !.status = "WrittenOff", !.outstanding = 0])

ChangeDueDate(o, pastDue) ==
  LET debt == [order[o].debt EXCEPT !.pastDue = pastDue]
  IN /\ IsOpen(debt)
     /\ SaveDebt(o, [debt EXCEPT !.status = DueStatus(debt)])

\* The due date passes: the database's calendar moves on.
DueDatePasses(o) ==
  /\ order[o].debt.status # "None"
  /\ SaveDebt(o, [order[o].debt EXCEPT !.pastDue = TRUE])

\* Mutant: any receivable past its date is overdue, a closed one too.
MutantClosedDebtsFallDue(debt) == debt.pastDue /\ debt.status # "Overdue"

FallsDue(debt) == debt.pastDue /\ debt.status \in {"Pending", "PartiallyPaid"}

\* markOverdue: one UPDATE over all receivables
MarkOverdue ==
  LET due == {o \in Order : FallsDue(order[o].debt)}
  IN /\ due # {}
     /\ order' = [o \in Order |-> IF o \in due THEN [order[o] EXCEPT !.debt.status = "Overdue"]
                                  ELSE order[o]]
     /\ UNCHANGED <<payments, rows, stock, funds, fulfilling>>

-----------------------------------------------------------------------------
\* What a delivery request may hand over of the lines: numbers of copies, by line.
Handable(lines) ==
  LET most == Max({0} \cup {lines[i].waiting : i \in DOMAIN lines})
  IN [DOMAIN lines -> 0..most]

Next ==
  \/ \E o \in Order :
       \/ \E saleType \in {"cash_sale", "credit_sale"}, c \in Customer \cup {NoCustomer}, basket \in Baskets :
            Create(o, saleType, c, basket) \/ Update(o, saleType, c, basket)
       \/ \E method \in Methods, deposit \in Deposits \cup {0} : Confirm(o, method, deposit)
       \/ \E handed \in Handable(order[o].lines) : Deliver(o, handed)
       \/ FulfillRead(o) \/ FulfillCommit(o) \/ FulfillRefused(o)
       \/ \E refundTo \in {"original", "store_credit"} : Cancel(o, refundTo)
       \/ DeleteOrder(o)
       \/ \E method \in Methods, amount \in Amounts : CreatePayment(o, method, amount)
       \/ \E i \in DOMAIN payments[o], amount \in Amounts : Refund(o, i, amount)
       \/ WriteOff(o)
       \/ \E pastDue \in BOOLEAN : ChangeDueDate(o, pastDue)
       \/ DueDatePasses(o)
  \/ MarkOverdue

Spec == Init /\ [][Next]_vars

-----------------------------------------------------------------------------
(* Properties.                                                             *)

\* The reservation rows of an order (inventory_reservations) and its lines, which
\* confirm, deliver and cancel write separately, tell the same story: what is
\* reserved still waits, and what is deducted was handed over.
ReservationsMatchLines ==
  \A o \in Order, b \in Book :
    /\ rows[o][b].reserved = Copies(order[o].lines, b, "waiting")
    /\ rows[o][b].deducted = Copies(order[o].lines, b, "delivered")

\* No copy appears or disappears: a copy is on the shelf, waits on an order, or was
\* handed over, whatever drafts, confirmations, deliveries and cancellations do.
CopiesConserved ==
  [][\A b \in Book :
       LET Held(o) == Copies(order[o].lines, b, "waiting") + Copies(order[o].lines, b, "delivered")
       IN stock'[b] + SumFunction([o \in Order |-> Held(o)'])
            = stock[b] + SumFunction([o \in Order |-> Held(o)])]_vars

\* Where the branch sells no more than it has, confirming orders at once never
\* takes the same copy twice.
NeverOversold == ~NegativeAllowed => \A b \in Book : stock[b] >= 0

\* db/checks/rules.ts 'stock.reservations-open-orders': reserved stock belongs to an
\* open order.
ReservedOnlyWhileOpen ==
  \A o \in Order :
    order[o].status \notin {"CONFIRMED", "PART_DELIVERED"} =>
      /\ ~SomethingWaits(order[o].lines)
      /\ \A b \in Book : rows[o][b].reserved = 0

\* The status says how far the delivery is: CONFIRMED when nothing went yet,
\* PART_DELIVERED when some went and some waits, COMPLETED when all of it went.
StatusTellsDelivery ==
  \A o \in Stored :
    LET lines == order[o].lines
        someWent == \E i \in DOMAIN lines : lines[i].delivered > 0
        allWent == \A i \in DOMAIN lines : lines[i].delivered = lines[i].quantity
    IN CASE order[o].status = "PART_DELIVERED" -> someWent /\ SomethingWaits(lines)
         [] order[o].status = "COMPLETED" -> allWent
         [] OTHER -> ~someWent

\* However orders compete for the copies, the shelf, the reservations, the lines and the
\* status of every order agree on where each copy is.
CopiesAgree ==
  /\ NeverOversold
  /\ ReservationsMatchLines
  /\ ReservedOnlyWhileOpen
  /\ StatusTellsDelivery

\* The drawer and the customers' accounts hold exactly what the orders' payments
\* less their refunds say came in, and the points earned: money changes hands once,
\* by whatever mix of payments, refunds and cancellations.
MoneyAddsUp ==
  LET Spent(c) == InitialCredit - funds.credit[c] + InitialPoints - funds.points[c]
  IN funds.drawer + SumFunction([c \in Customer |-> Spent(c)])
       = SumFunction([o \in Order |-> NetPaid(payments[o]) - order[o].earned])

\* README, slice 14: the payments of an order, less refunds, are at most its total.
NeverOverpaid == \A o \in Order : NetPaid(payments[o]) <= Total(order[o].lines)

\* rules.ts 'orders.payment-status': the stored status agrees with the payments,
\* whichever use case wrote it last.
PaymentStatusAgrees ==
  \A o \in Stored :
    LET net == NetPaid(payments[o])
        refundedCash == order[o].saleType = "cash_sale" /\ payments[o] # <<>> /\ net = 0
    IN /\ order[o].payStatus = "refunded" <=> refundedCash
       /\ order[o].payStatus = "paid" <=> net >= Total(order[o].lines)
       /\ order[o].payStatus = "unpaid" <=> net = 0 /\ ~refundedCash

\* rules.ts 'orders.cancelled-money-returned': a cancelled order holds no money, and
\* nothing is owed on it.
CancelledHoldsNothing ==
  \A o \in Order : order[o].status = "CANCELLED" =>
    NetPaid(payments[o]) = 0 /\ ~IsOpen(order[o].debt)

\* rules.ts 'receivables.status-matches-balance': an open receivable owes something,
\* a closed one nothing.
OpenMeansOwed ==
  \A o \in Order : IsOpen(order[o].debt) <=> order[o].debt.outstanding > 0

\* rules.ts 'receivables.within-original': a balance is no larger than the amount
\* first owed.
WithinOriginal == \A o \in Order : order[o].debt.outstanding <= order[o].debt.original

\* A refund can leave more to pay than was ever owed on the receivable: it then stands
\* at its original amount (reopenOnRefund).
StandsAtOriginal(debt, owed) == debt.outstanding = debt.original /\ debt.original < owed

\* What a credit sale's receivable says is owed is what its payments leave to pay, or its
\* original amount where a refund leaves more, until the debt is written off or goes with
\* the order; and it was opened for what the deposit left: the only credit sale without a
\* receivable is the one paid in full as it was confirmed.  Confirm, payments, refunds and
\* the overdue job all write it, each from its own figures.
ReceivableIsWhatIsOwed ==
  \A o \in Stored :
    LET total == Total(order[o].lines)
        owed == Outstanding(total, payments[o])
        debt == order[o].debt
    IN (order[o].saleType = "credit_sale" /\ order[o].status \notin {"DRAFT", "CANCELLED"}) =>
         /\ \/ debt.original = total
            \/ payments[o] # <<>> /\ debt.original + payments[o][1].amount = total
         /\ \/ debt.status \in {"None", "WrittenOff"}
            \/ debt.outstanding = owed
            \/ StandsAtOriginal(debt, owed)

\* Not so (no run checks it): what is owed again after a payment was refunded is
\* recorded, as reopenOnRefund says (receivables.service.ts:104).  A credit sale whose
\* deposit paid all of it has no receivable to reopen when that deposit is refunded.
RefundedDebtIsOnRecord ==
  \A o \in Stored :
    (/\ order[o].saleType = "credit_sale" /\ order[o].status \notin {"DRAFT", "CANCELLED"}
     /\ Outstanding(Total(order[o].lines), payments[o]) > 0) => order[o].debt.status # "None"

\* An order earns its points exactly once: as soon as it is delivered and paid in
\* full, in either order, and not again when a refunded payment is paid again.
EarnedOnce ==
  \A o \in Order :
    LET points == PointsRate * Total(order[o].lines)
    IN /\ order[o].earned \in {0, points}
       /\ order[o].earned > 0 => order[o].status = "COMPLETED"
       /\ (order[o].status = "COMPLETED" /\ order[o].payStatus = "paid"
             /\ order[o].customer # NoCustomer) => order[o].earned = points

\* In any order of deposits, payments, refunds, deliveries and cancellations an order keeps
\* no more than it costs, its status tells what it was paid, a cancelled one gave everything
\* back, and no account of its customer is drawn below zero.
PaymentsAgree ==
  /\ TypeOK
  /\ NeverOverpaid
  /\ PaymentStatusAgrees
  /\ CancelledHoldsNothing
  /\ EarnedOnce

\* A receivable is opened for what the deposit leaves, and is open just while the payments
\* leave something to pay, for that much of its original amount.
DebtAgrees == OpenMeansOwed /\ ReceivableIsWhatIsOwed

\* A closed debt stays closed (written off, cancelled), and one that was paid
\* reopens only when a payment is given back.
ClosedDebtsStayClosed ==
  [][\A o \in Order :
       /\ order[o].debt.status \in {"WrittenOff", "Cancelled"} => order'[o].debt.status = order[o].debt.status
       /\ (order[o].debt.status = "Settled" /\ IsOpen(order'[o].debt))
            => NetPaid(payments'[o]) < NetPaid(payments[o])]_vars
===============================================================================
