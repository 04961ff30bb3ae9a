------------------------------ MODULE SupplierLedger ------------------------------
(***************************************************************************)
(* What one purchase order owes its supplier: what arrived on it, what was *)
(* paid, reversed, credited and refunded, and the returns that send copies *)
(* back (modules/procurement/procurement.service.ts,                       *)
(* supplierPayables.service.ts, modules/supplierReturns).                  *)
(*                                                                         *)
(* Every use case locks the purchase order, and a return's locks the       *)
(* return first; each is one step, with one exception.  recordRefund takes *)
(* the figures of the refund due from the statement that locks the order   *)
(* (findOrder): its sums were taken when the statement began, before it    *)
(* waited for the lock, while settlement() reads them again once it is     *)
(* held.  So a refund is two steps, and others may commit in between.      *)
(*                                                                         *)
(* The order has one line.  Amounts are multiples of the price of a copy.  *)
(***************************************************************************)
EXTENDS ProcurementRules

CONSTANTS
  Payment,     \* payments that can be recorded
  Return,      \* returns that can be drafted
  Clerk,       \* requests for a refund that can be under way at once
  MaxOrdered,  \* the most copies the order may be for
  OtherStock,  \* copies of the book the shop has from elsewhere
  ApprovalAbove, \* total above which it needs approval
  MaxCredited, \* bound: amount of the credit notes recorded by hand
  MaxRefunded  \* bound: amount refunded

ASSUME SupplierLedgerAssumption ==
  /\ IsFiniteSet(Payment) /\ IsFiniteSet(Return)
  /\ MaxOrdered \in Nat \ {0}
  /\ {OtherStock, ApprovalAbove, MaxCredited, MaxRefunded} \subseteq Nat

VARIABLES
  purchase, \* its status, terms, copies ordered and received
  fin,      \* its financial status
  valued,   \* what had arrived when that was last set (history)
  payment,  \* [Payment -> status, amount, source]
  credited, \* credit notes recorded by hand
  returned, \* credit notes of returns
  refunded, \* what the supplier paid back
  return,   \* [Return -> status, copies]
  onHand,   \* copies of the book in the shop
  refunding, \* [Clerk -> the refund it waits to record, with the figures it read]
  stale     \* a refund was recorded over figures that were no longer true

ledgerVars == <<purchase, fin, valued, payment, credited, returned, refunded, return, onHand, refunding, stale>>
moneyVars == <<payment, credited, returned, refunded>>
goodsVars == <<return, onHand>>
askVars == <<refunding, stale>>

Amount == 1..MaxOrdered
AnySource == {"manual", "auto_on_receipt"}
NotAsked == [amount |-> 0, settled |-> 0, value |-> 0]

LedgerTypeOK ==
  /\ purchase \in [status : PoStatus, terms : {"cash", "credit"}, quantity : Amount, received : Nat]
  /\ purchase.received <= purchase.quantity
  /\ fin \in {"unpaid", "partial", "paid"} /\ valued \in 0..purchase.received
  /\ payment \in [Payment -> [status : {"none", "standing", "reversed"}, amount : Nat, source : AnySource]]
  /\ {credited, returned, refunded, onHand} \subseteq Nat
  /\ return \in [Return -> [status : {"none", "draft", "sent", "cancelled"}, quantity : Nat]]
  /\ refunding \in [Clerk -> [amount : Nat, settled : Int, value : Nat]]
  /\ stale \in BOOLEAN

LedgerInit ==
  /\ purchase \in [status : {"draft"}, terms : {"cash", "credit"}, quantity : Amount, received : {0}]
  /\ fin = "unpaid" /\ valued = 0
  /\ payment = [p \in Payment |-> [status |-> "none", amount |-> 0, source |-> "manual"]]
  /\ credited = 0 /\ returned = 0 /\ refunded = 0
  /\ return = [r \in Return |-> [status |-> "none", quantity |-> 0]]
  /\ onHand = OtherStock
  /\ refunding = [w \in Clerk |-> NotAsked]
  /\ stale = FALSE

-----------------------------------------------------------------------------
(* The figures.                                                            *)

Total == purchase.quantity
Value == purchase.received

Paid(source) ==
  SumFunction([p \in Payment |->
    IF payment[p].status = "standing" /\ payment[p].source \in source THEN payment[p].amount ELSE 0])

\* settlement: paid and credited, less refunded
Settled == Paid(AnySource) + credited + returned - refunded

\* sentQuantities
Sent == SumFunction([r \in Return |-> IF return[r].status = "sent" THEN return[r].quantity ELSE 0])

\* Mutant: it is set from what was recorded before.
MutantStatusOfBefore == fin' = FinancialStatus(Value, Settled) /\ valued' = Value'

\* refreshFinancialStatus
RefreshFinancialStatus == fin' = FinancialStatus(Value', Settled') /\ valued' = Value'

-----------------------------------------------------------------------------
(* The order.                                                              *)

\* submitForApproval, approve, markAsOrdered
ProceedOrder ==
  /\ \E next \in PoStatus :
       /\ \/ purchase.status = "draft" /\ next = StatusAfterSubmit(Total, ApprovalAbove)
          \/ purchase.status = "pending_approval" /\ next = "approved"
          \/ purchase.status = "approved" /\ next = "ordered"
       /\ purchase' = [purchase EXCEPT !.status = next]
  /\ UNCHANGED <<fin, valued, moneyVars, goodsVars, askVars>>

\* cancel and close
EndOrder ==
  /\ \E next \in PoStatus :
       /\ \/ CanCancelPo(purchase.status, purchase.received > 0) /\ next = "cancelled"
          \/ CanClosePo(purchase.status) /\ next = "closed"
       /\ purchase' = [purchase EXCEPT !.status = next]
  /\ UNCHANGED <<fin, valued, moneyVars, goodsVars, askVars>>

\* insertSupplierPayment
Inserted(p, amount, source) == [payment EXCEPT ![p] = [status |-> "standing", amount |-> amount, source |-> source]]

\* receive: on cash terms what arrived is paid for at once, without a look at what was paid
\* before, and only then is the financial status set.
Receive(n) ==
  /\ CanReceivePo(purchase.status, purchase.quantity, purchase.received, n)
  /\ purchase' = [purchase EXCEPT !.received = @ + n,
                                  !.status = StatusAfterReceipt(purchase.quantity, purchase.received + n)]
  /\ onHand' = onHand + n
  /\ IF purchase.terms = "cash"
     THEN /\ \E p \in Payment : payment[p].status = "none" /\ payment' = Inserted(p, n, "auto_on_receipt")
          /\ UNCHANGED <<credited, returned, refunded>>
          /\ RefreshFinancialStatus
     ELSE UNCHANGED <<fin, valued, moneyVars>>
  /\ UNCHANGED <<return, askVars>>

\* issueStock: copies are sold or moved away, never more than there are.
Sell(n) ==
  /\ n <= onHand
  /\ onHand' = onHand - n
  /\ UNCHANGED <<purchase, fin, valued, moneyVars, return, askVars>>

-----------------------------------------------------------------------------
(* Money.                                                                  *)

\* recordPayment
Pay(p, amount) ==
  /\ payment[p].status = "none"
  /\ IsCommitment(purchase.status) /\ WithinOrderTotal(Total, Settled, amount)
  /\ payment' = Inserted(p, amount, "manual")
  /\ UNCHANGED <<purchase, credited, returned, refunded, goodsVars, askVars>>
  /\ RefreshFinancialStatus

\* reversePayment: once, whatever was refunded since.
Reverse(p) ==
  /\ payment[p].status = "standing"
  /\ payment' = [payment EXCEPT ![p].status = "reversed"]
  /\ UNCHANGED <<purchase, credited, returned, refunded, goodsVars, askVars>>
  /\ RefreshFinancialStatus

\* recordCreditNote
CreditNote(amount) ==
  /\ credited + amount <= MaxCredited
  /\ IsCommitment(purchase.status) /\ WithinOrderTotal(Total, Settled, amount)
  /\ credited' = credited + amount
  /\ UNCHANGED <<purchase, payment, returned, refunded, goodsVars, askVars>>
  /\ RefreshFinancialStatus

\* recordRefund: the statement that locks the order has begun.  An amount that the figures read
\* allow in no status is refused whatever happens next.
AskRefund(w, amount) ==
  /\ refunding[w] = NotAsked
  /\ amount <= Settled - Value
  /\ refunding' = [refunding EXCEPT ![w] = [amount |-> amount, settled |-> Settled, value |-> Value]]
  /\ UNCHANGED <<purchase, fin, valued, moneyVars, goodsVars, stale>>

\* Mutant: before it is complete, an order owes only what arrived.
MutantDueOnArrival(status, total, value, settled, amount) == amount <= settled - value

\* checkWithinRefundDue
MayRefund(status, total, value, settled, amount) == amount <= RefundDue(status, total, value, settled)

\* The lock is held: the order's own columns are read again, the sums are not.
Refund(w) ==
  LET a == refunding[w]
  IN /\ a # NotAsked
     /\ MayRefund(purchase.status, Total, a.value, a.settled, a.amount)
     /\ refunded + a.amount <= MaxRefunded
     /\ refunded' = refunded + a.amount
     /\ refunding' = [refunding EXCEPT ![w] = NotAsked]
     /\ stale' = (stale \/ a.settled # Settled \/ a.value # Value)
     /\ UNCHANGED <<purchase, payment, credited, returned, goodsVars>>
     /\ RefreshFinancialStatus

RefuseRefund(w) ==
  /\ refunding[w] # NotAsked
  /\ refunding' = [refunding EXCEPT ![w] = NotAsked]
  /\ UNCHANGED <<purchase, fin, valued, moneyVars, goodsVars, stale>>

-----------------------------------------------------------------------------
(* Returns to the supplier.                                                *)

\* checkLines: what arrived less what went back, and what is still there
CheckLines(status, n) == WithinReceived(n, purchase.received, Sent) /\ n <= onHand

\* create and update
DraftReturn(r, n) ==
  /\ return[r].status \in {"none", "draft"}
  /\ CheckLines(return[r].status, n)
  /\ return' = [return EXCEPT ![r] = [status |-> "draft", quantity |-> n]]
  /\ UNCHANGED <<purchase, fin, valued, moneyVars, onHand, askVars>>

\* checkStatus
MaySend(status) == status = "draft"

\* send: the copies leave, and what they cost is credited, beyond the order's total if need be.
SendReturn(r) ==
  /\ MaySend(return[r].status)
  /\ CheckLines(return[r].status, return[r].quantity)
  /\ onHand' = onHand - return[r].quantity
  /\ returned' = returned + return[r].quantity
  /\ return' = [return EXCEPT ![r].status = "sent"]
  /\ UNCHANGED <<purchase, payment, credited, refunded, askVars>>
  /\ RefreshFinancialStatus

CancelReturn(r) ==
  /\ return[r].status = "draft"
  /\ return' = [return EXCEPT ![r].status = "cancelled"]
  /\ UNCHANGED <<purchase, fin, valued, moneyVars, onHand, askVars>>

-----------------------------------------------------------------------------

LedgerNext ==
  \/ ProceedOrder
  \/ EndOrder
  \/ \E n \in Amount : Receive(n) \/ Sell(n) \/ CreditNote(n)
  \/ \E p \in Payment : Reverse(p) \/ \E n \in Amount : Pay(p, n)
  \/ \E w \in Clerk :
       \/ \E n \in Amount : AskRefund(w, n)
       \/ Refund(w)
       \/ RefuseRefund(w)
  \/ \E r \in Return :
       \/ \E n \in Amount : DraftReturn(r, n)
       \/ SendReturn(r)
       \/ CancelReturn(r)

LedgerSpec == LedgerInit /\ [][LedgerNext]_ledgerVars

-----------------------------------------------------------------------------
(* Properties.                                                             *)

\* "Copies sent back are at most what arrived" (rules.ts:288), over every return of the order,
\* however many were drafted for the same copies.
SentWithinReceived == Sent <= purchase.received

\* What left with returns is credited once, and is no longer in the shop: "What a sent return
\* took from stock is in the stock history, and its credit note matches it" (rules.ts:270).
ReturnsCredited == returned = Sent /\ onHand + Sent <= OtherStock + purchase.received

\* Goods sent back arrived first, and are credited once.
ReturnsAddUp == SentWithinReceived /\ ReturnsCredited

\* "Payments and credit notes together are at most the ordered total" (rules.ts:215), every
\* standing payment counted and returns apart, as that check counts them: on credit terms
\* always, on cash terms but for what the order paid for itself as goods arrived, which is
\* never more than arrived.  receive does not look at what was paid in advance.
SettledWithinOrder ==
  LET automatic == Paid({"auto_on_receipt"})
  IN /\ Paid(AnySource) + credited - refunded <= Total + automatic
     /\ automatic <= IF purchase.terms = "cash" THEN Value ELSE 0

\* Not so (no run checks it): the check procurement.paid-within-total itself.  A cash order
\* paid in advance is paid again as its goods arrive.
PaidWithinTotal == Paid(AnySource) + credited - refunded <= Total

\* The financial status follows from the money there is and from what had arrived when it was
\* last set.  On cash terms that is what has arrived, always; on credit terms a delivery does
\* not set it, and the next movement of money does.
FinancialStatusAgrees ==
  /\ fin = FinancialStatus(valued, Settled)
  /\ purchase.terms = "cash" => valued = Value

\* Not so (no run checks it): the status follows from "what was received, paid and credited"
\* (procurement.service.ts:59).  An order on credit terms that was paid in advance still says
\* that it is unpaid when its goods have arrived.
StatusFollowsDeliveries == fin = FinancialStatus(Value, Settled)

\* What is paid, credited and refunded on an order stays within it, and its status tells so.
PaymentsWithinOrder == LedgerTypeOK /\ SettledWithinOrder /\ FinancialStatusAgrees

\* "A supplier paid back at most what the order was paid and credited beyond its value"
\* (rules.ts:232): more arrives, more is ordered to be sent back or the order is closed short,
\* before or after the refund.
RefundsWithinDue ==
  refunded <= Max({0, Settled + refunded - RefundCeiling(purchase.status, Total, Value)})

\* It is so unless a refund was recorded over figures that were no longer true, or a payment
\* was reversed, which no refund stands in the way of.
RefundsWithinDueUnlessUndone ==
  ~stale /\ (\A p \in Payment : payment[p].status # "reversed") => RefundsWithinDue
===============================================================================
