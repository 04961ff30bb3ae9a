-------------------------------- MODULE Counter --------------------------------
(***************************************************************************)
(* One sale at the counter, or one exchange, and everything that can       *)
(* happen to it afterwards: modules/pos, modules/exchanges,                *)
(* modules/returns, modules/services (the binding job of its line) and the *)
(* receivable of what was left on credit.                                  *)
(*                                                                         *)
(* A void and a return lock the sale and then the job, a cancelled binding *)
(* the job and then its sale; what they read before the last of these      *)
(* locks is a step of its own.  A void learns whether anything came back   *)
(* in the statement that locks the sale, that is, before it has the lock.  *)
(* Every other use case is one action.                                     *)
(*                                                                         *)
(* The sale has one line, of which some copies may be bound, and a named   *)
(* customer; "cash" stands for the methods that go to no account.  Who may *)
(* approve what, and points as a means of payment, are left out.           *)
(***************************************************************************)
EXTENDS CounterRules, Sequences

CONSTANTS
  Worker,      \* requests that can be under way at once
  Offers,      \* what is sold: [kind, copies, price (of the line), bound, fee, tradeIn]
  Payments,    \* what is paid: sequences of [method, amount]
  Amounts,     \* amounts collected later
  MaxPayments, \* bound: payments on the sale
  Earned,      \* points the worker accrues for a sale
  InitialCredit

Method == {"cash", "store_credit"}

ASSUME CounterAssumption ==
  /\ \A o \in Offers : /\ o.kind \in {"sale", "exchange"} /\ o.copies \in Nat \ {0}
                       /\ o.bound \in 0..o.copies /\ {o.price, o.fee, o.tradeIn} \subseteq Nat
                       /\ o.kind = "sale" => o.tradeIn = 0
                       /\ o.bound = 0 => o.fee = 0
  /\ \A p \in Payments : p \in Seq([method : Method, amount : Nat \ {0}])
  /\ Amounts \subseteq Nat \ {0} /\ {MaxPayments, Earned, InitialCredit} \subseteq Nat

VARIABLES
  sale,     \* [offer, status, due: amount_due of a sale]
  tenders,  \* its payments, in the order they were made; what an exchange gave is a negative one
  debt,     \* its receivable, with what was collected on it directly
  back,     \* what its returns took back: copies, bound copies, their value, fees, credit
            \* notes and refunds by method
  job,      \* the status of its binding job
  shelf,    \* copies in the shop, sellable and damaged, less those there before the sale
  drawer,   \* cash taken for the sale less cash handed back
  customer, \* store credit and points, and the store credit spent on other sales
  accrual,  \* the points of the sale: asked for, earned, taken back
  phase,    \* the day of the sale, the return window after it, or later
  tx,       \* [Worker -> its transaction]
  raced     \* did a return commit between what a void read and its lock?

vars == <<sale, tenders, debt, back, job, shelf, drawer, customer, accrual, phase, tx, raced>>
moneyVars == <<tenders, drawer, customer, accrual>>

Idle == [op |-> "none", at |-> "idle", sawReturns |-> FALSE]
NoOffer == [kind |-> "none", copies |-> 0, price |-> 0, bound |-> 0, fee |-> 0, tradeIn |-> 0]
NothingBack == [copies |-> 0, bound |-> 0, value |-> 0, fee |-> 0, credited |-> 0,
                refunded |-> [m \in Method |-> 0], returns |-> FALSE]

TypeOK ==
  /\ sale.offer \in Offers \cup {NoOffer} /\ sale.status \in {"none", "completed", "voided"} /\ sale.due \in Nat
  /\ tenders \in Seq([method : Method, amount : Int])
  /\ debt \in [status : {"None", "Open", "Settled", "WrittenOff", "Cancelled"}, outstanding : Nat,
               collected : Nat, writtenOff : Nat]
  /\ back \in [copies : Nat, bound : Nat, value : Nat, fee : Nat, credited : Nat,
               refunded : [Method -> Nat], returns : BOOLEAN]
  /\ job \in {"none", "REQUESTED", "AT_BINDER", "READY", "COLLECTED", "RETURNED", "CANCELLED"}
  /\ shelf \in [sellable : Int, damaged : Nat, tradeIn : {0, 1}] /\ drawer \in Int
  /\ customer \in [credit : Nat, points : Nat, spent : Nat]
  /\ accrual \in [asked : BOOLEAN, earned : {0, Earned}, reversed : 0..Earned]
  /\ phase \in {"today", "window", "later"}
  /\ tx \in [Worker -> [op : {"none", "void", "return", "cancel_binding"},
                        at : {"idle", "asked", "locked"}, sawReturns : BOOLEAN]]
  /\ raced \in BOOLEAN

Init ==
  /\ sale = [offer |-> NoOffer, status |-> "none", due |-> 0]
  /\ tenders = <<>>
  /\ debt = [status |-> "None", outstanding |-> 0, collected |-> 0, writtenOff |-> 0]
  /\ back = NothingBack
  /\ job = "none"
  /\ shelf = [sellable |-> 0, damaged |-> 0, tradeIn |-> 0]
  /\ drawer = 0
  /\ customer = [credit |-> InitialCredit, points |-> 0, spent |-> 0]
  /\ accrual = [asked |-> FALSE, earned |-> 0, reversed |-> 0]
  /\ phase = "today"
  /\ tx = [w \in Worker |-> Idle]
  /\ raced = FALSE

-----------------------------------------------------------------------------
(* Amounts.                                                                *)

PaidBy(ps, m) == SumFunction([i \in DOMAIN ps |-> IF ps[i].method = m THEN ps[i].amount ELSE 0])
PaidIn(ps) == SumFunction([i \in DOMAIN ps |-> ps[i].amount])
RefundedSoFar == SumFunction(back.refunded)

IsSale == sale.offer.kind = "sale"
\* grandTotal of a sale, netBalance of an exchange
TotalOf(o) == o.price + o.fee - o.tradeIn
Total == TotalOf(sale.offer)
HasReturns == back.returns

\* What the returns so far gave back by a method
GivenBack(m) == back.refunded[m]

\* tenders: what each method of the sale can still give back
Available == [m \in Method |-> Max({0, PaidBy(tenders, m) - GivenBack(m)})]
LastPaid(m) == Max({0} \cup {i \in DOMAIN tenders : tenders[i].method = m})
NewerThan == [m \in Method |-> {n \in Method : LastPaid(n) > LastPaid(m)}]

\* spendFromAccounts: no more store credit than the customer has
CanSpend(ps) == PaidBy(ps, "store_credit") <= customer.credit

\* insertPayments, with the drawer and the customer's account
TakePayments(ps) ==
  /\ CanSpend(ps)
  /\ tenders' = tenders \o ps
  /\ drawer' = drawer + PaidBy(ps, "cash")
  /\ customer' = [customer EXCEPT !.credit = @ - PaidBy(ps, "store_credit")]

-----------------------------------------------------------------------------
(* Selling and exchanging.                                                 *)

NewDebt(owed) ==
  [status |-> IF owed > 0 THEN "Open" ELSE "None", outstanding |-> Max({0, owed}), collected |-> 0, writtenOff |-> 0]

\* createTransaction
Sell(o, ps, onCredit) ==
  /\ sale.status = "none" /\ o.kind = "sale"
  /\ SalePaymentsAllowed(TotalOf(o), PaidIn(ps), onCredit)
  /\ LET due == AmountDue(TotalOf(o), PaidIn(ps))
     IN /\ sale' = [offer |-> o, status |-> "completed", due |-> due]
        /\ debt' = NewDebt(due)
        /\ accrual' = [accrual EXCEPT !.asked = ps # <<>>]
  /\ TakePayments(ps)
  /\ job' = IF o.bound > 0 THEN "REQUESTED" ELSE "none"
  /\ shelf' = [shelf EXCEPT !.sellable = -o.copies]
  /\ UNCHANGED <<back, phase, tx, raced>>

\* createExchange: one book comes in, the copies of the line go out, and the difference is
\* settled at once, left on credit, or given back.
Exchange(o, ps, onCredit, refundMethod) ==
  LET net == TotalOf(o)
      type == SettlementType(net)
      toStore == type = "Store_Refunds"
  IN /\ sale.status = "none" /\ o.kind = "exchange"
     /\ SettlementAllowed(net, PaidIn(ps), onCredit)
     /\ CanSpend(ps)
     /\ sale' = [offer |-> o, status |-> "completed", due |-> 0]
     /\ debt' = NewDebt(IF type = "Customer_Pays" THEN net - PaidIn(ps) ELSE 0)
     /\ tenders' = ps \o IF toStore THEN <<[method |-> refundMethod, amount |-> net]>> ELSE <<>>
     /\ drawer' = PaidBy(tenders', "cash")
     /\ customer' = [customer EXCEPT !.credit = @ - PaidBy(tenders', "store_credit")]
     /\ job' = IF o.bound > 0 THEN "REQUESTED" ELSE "none"
     /\ shelf' = [shelf EXCEPT !.sellable = -o.copies, !.tradeIn = 1]
     /\ UNCHANGED <<back, accrual, phase, tx, raced>>

-----------------------------------------------------------------------------
(* Collecting, and what happens elsewhere.                                 *)

Free(lock) == \A w \in Worker :
  ~ \/ lock = "sale" /\ tx[w].at = "locked" /\ tx[w].op \in {"void", "return"}
    \/ lock = "job" /\ tx[w].at = "locked" /\ tx[w].op = "cancel_binding"

\* updateReceivableOnPayment: a closed debt stays as it is.
DebtAfterPayment(owed) ==
  IF debt.status # "Open" THEN debt
  ELSE [debt EXCEPT !.outstanding = owed, !.status = IF owed = 0 THEN "Settled" ELSE "Open"]

\* recordPayment, refused by checkNotWrittenOff once the debt is written off
Collect(method, amount) ==
  /\ IsSale /\ Free("sale") /\ Len(tenders) < MaxPayments
  /\ CanCollect(sale.status, sale.due, amount)
  /\ debt.status # "WrittenOff"
  /\ TakePayments(<<[method |-> method, amount |-> amount]>>)
  /\ LET due == DueAfterCollect(sale.due, amount)
     IN /\ sale' = [sale EXCEPT !.due = due]
        /\ debt' = DebtAfterPayment(due)
        /\ accrual' = [accrual EXCEPT !.asked = @ \/ due = 0]
  /\ UNCHANGED <<back, job, shelf, phase, tx, raced>>

\* collectPayment of an exchange's difference: it locks the receivable, and is no payment of
\* the exchange.
CollectDebt(method, amount) ==
  /\ sale.offer.kind = "exchange" /\ debt.status = "Open" /\ amount <= debt.outstanding
  /\ method = "store_credit" => customer.credit >= amount
  /\ debt' = [DebtAfterPayment(debt.outstanding - amount) EXCEPT !.collected = @ + amount]
  /\ drawer' = IF method = "cash" THEN drawer + amount ELSE drawer
  /\ customer' = IF method = "store_credit" THEN [customer EXCEPT !.credit = @ - amount] ELSE customer
  /\ UNCHANGED <<sale, tenders, back, job, shelf, accrual, phase, tx, raced>>

\* writeOff of the receivable
WriteOff ==
  /\ debt.status = "Open"
  /\ debt' = [debt EXCEPT !.status = "WrittenOff", !.outstanding = 0, !.writtenOff = debt.outstanding]
  /\ UNCHANGED <<sale, moneyVars, back, job, shelf, phase, tx, raced>>

\* The loyalty worker handles the request for the sale's points, once (Outbox).
Accrue ==
  /\ accrual.asked /\ accrual.earned = 0
  /\ accrual' = [accrual EXCEPT !.earned = Earned]
  /\ customer' = [customer EXCEPT !.points = @ + Earned]
  /\ UNCHANGED <<sale, tenders, debt, back, job, shelf, drawer, phase, tx, raced>>

\* The customer spends everything they have on another sale.
SpendElsewhere ==
  /\ customer.credit + customer.points > 0
  /\ customer' = [credit |-> 0, points |-> 0, spent |-> customer.spent + customer.credit]
  /\ UNCHANGED <<sale, tenders, debt, back, job, shelf, drawer, accrual, phase, tx, raced>>

\* stepJob: one step at a time; it locks the job alone.
StepJob ==
  /\ job \in DOMAIN JobSteps /\ Free("job")
  /\ job' = JobSteps[job]
  /\ UNCHANGED <<sale, moneyVars, debt, back, shelf, phase, tx, raced>>

TimePasses ==
  /\ sale.status # "none" /\ phase # "later"
  /\ phase' = IF phase = "today" THEN "window" ELSE "later"
  /\ UNCHANGED <<sale, moneyVars, debt, back, job, shelf, tx, raced>>

-----------------------------------------------------------------------------
(* Voiding.                                                                *)

\* findTransaction or findExchange FOR UPDATE: what the statement reads of the returns is as
\* of its start, however long it waits for the row; the day is the transaction's.
AskVoid(w) ==
  /\ tx[w].at = "idle" /\ sale.status = "completed" /\ phase = "today"
  /\ tx' = [tx EXCEPT ![w] = [op |-> "void", at |-> "asked", sawReturns |-> HasReturns]]
  /\ UNCHANGED <<sale, moneyVars, debt, back, job, shelf, phase, raced>>

\* Mutant: the sale is not read again once it is locked.
MutantStatusOfBefore == "completed"

\* The row as it is when the lock is granted
StatusUnderLock == sale.status

LockForVoid(w) ==
  /\ tx[w].op = "void" /\ tx[w].at = "asked" /\ Free("sale")
  /\ tx' = [tx EXCEPT ![w] = IF CanVoid(StatusUnderLock, TRUE, tx[w].sawReturns)
                             THEN [@ EXCEPT !.at = "locked"] ELSE Idle]
  /\ UNCHANGED <<sale, moneyVars, debt, back, job, shelf, phase, raced>>

\* cancelReceivable with paymentsReturned
DebtAfterVoid(d) == IF d.status = "None" THEN d ELSE [d EXCEPT !.status = "Cancelled", !.outstanding = 0]

\* Points a void takes back, as far as the balance allows
VoidedPoints == Min({accrual.earned, customer.points})

\* Every payment goes back the way it was made.  What an exchange gave comes back with it.
HandedBack(ps) == [m \in Method |-> PaidBy(ps, m)]

\* checkStoreCreditUnspent: the store credit an exchange gave is still there.
CreditUnspent == customer.credit + HandedBack(tenders)["store_credit"] >= 0

\* voidTransaction and voidExchange from cancelJobs on.  A written-off debt refuses them.
Void(w) ==
  LET gone == VoidedPoints
  IN /\ tx[w].op = "void" /\ tx[w].at = "locked" /\ Free("job")
     /\ tx' = [tx EXCEPT ![w] = Idle]
     /\ IF JobCancellable(job) /\ debt.status # "WrittenOff" /\ CreditUnspent
        THEN /\ sale' = [sale EXCEPT !.status = "voided"]
             /\ job' = IF job = "REQUESTED" THEN "CANCELLED" ELSE job
             /\ debt' = DebtAfterVoid(debt)
             /\ shelf' = [shelf EXCEPT !.sellable = @ + sale.offer.copies, !.tradeIn = 0]
             /\ drawer' = drawer - HandedBack(tenders)["cash"]
             /\ customer' = [customer EXCEPT !.credit = @ + HandedBack(tenders)["store_credit"], !.points = @ - gone]
        ELSE UNCHANGED <<sale, job, debt, shelf, drawer, customer>>
     /\ UNCHANGED <<tenders, back, accrual, phase, raced>>

-----------------------------------------------------------------------------
(* Returns.                                                                *)

\* creditReturn: what a return takes off the open debt, and the debt after it
Credited(value) == IF debt.status = "Open" /\ (IsSale => sale.due > 0) THEN Min({value, debt.outstanding}) ELSE 0
DebtAfterCredit(credit) ==
  IF credit = 0 THEN debt
  ELSE [debt EXCEPT !.outstanding = @ - credit, !.status = IF debt.outstanding = credit THEN "Settled" ELSE "Open"]

\* paidLeft
PaidLeft == PaidIn(tenders) - RefundedSoFar

\* What is refunded by each method: a sale's the way it was paid, or as store credit; an
\* exchange's as store credit (settleExchange).
Refunds(amount, storeCreditOnly) ==
  IF storeCreditOnly \/ ~IsSale THEN [m \in Method |-> IF m = "store_credit" THEN amount ELSE 0]
  ELSE RefundBy(amount, Available, NewerThan)

\* settleSale and settleExchange of `copies`, `bound` of them bound, worth `value`, and of
\* `fee`: credit note, refunds, points, and the return on record.  allocateRefund refuses
\* more than what is left of the payments.
Settle(copies, bound, value, fee, storeCreditOnly) ==
  LET credit == Credited(value + fee)
      rest == value + fee - credit
      parts == Refunds(rest, storeCreditOnly)
      points == PointsToTakeBack(accrual.earned, accrual.reversed, back.value + back.fee + value + fee, Total)
      takeBack == IF IsSale THEN Min({points, customer.points}) ELSE 0
  IN /\ IsSale => rest <= Max({0, PaidLeft})
     /\ debt' = DebtAfterCredit(credit)
     /\ sale' = IF IsSale /\ credit > 0 THEN [sale EXCEPT !.due = DueAfterCredit(sale.due, credit)] ELSE sale
     /\ back' = [copies |-> back.copies + copies, bound |-> back.bound + bound, value |-> back.value + value,
                 fee |-> back.fee + fee, credited |-> back.credited + credit,
                 refunded |-> [m \in Method |-> back.refunded[m] + parts[m]], returns |-> TRUE]
     /\ drawer' = drawer - parts["cash"]
     /\ accrual' = [accrual EXCEPT !.reversed = @ + takeBack]
     /\ customer' = [customer EXCEPT !.credit = @ + parts["store_credit"], !.points = @ - takeBack]
     /\ raced' = (raced \/ \E v \in Worker : tx[v].op = "void" /\ tx[v].at = "asked")

\* The setting of the branch after the return window: any method, or store credit
AfterWindow == {"any", "store_credit_only"}

\* lockSale or lockExchange, and checkSale
LockForReturn(w) ==
  /\ tx[w].at = "idle" /\ sale.status # "none" /\ Free("sale")
  /\ StatusUnderLock = "completed"
  /\ tx' = [tx EXCEPT ![w] = [Idle EXCEPT !.op = "return", !.at = "locked"]]
  /\ UNCHANGED <<sale, moneyVars, debt, back, job, shelf, phase, raced>>

\* A cancelled binding left ordinary copies.
Bound == IF job = "CANCELLED" THEN 0 ELSE sale.offer.bound

\* returnSale and returnExchange of some plain copies, damaged or not, and of some bound
\* ones as defective, which are kept apart with their share of the fee.  Of an exchange only
\* bound copies come back here.
Return(w, plain, defective, damaged, afterWindow) ==
  LET o == sale.offer
      plainValue == LineValue(o.price, o.copies, back.copies, back.value, plain)
      boundValue == LineValue(o.price, o.copies, back.copies + plain, back.value + plainValue, defective)
      fee == IF defective > 0 THEN FeeShare(o.fee, o.bound, back.bound, back.fee, defective) ELSE 0
  IN /\ tx[w].op = "return" /\ tx[w].at = "locked" /\ Free("job")
     /\ plain + defective \in 1..(o.copies - back.copies)
     /\ BoundReturnAllowed(o.copies, Bound, back.copies, back.bound, plain, defective, job)
     /\ ~IsSale => plain = 0
     /\ Settle(plain + defective, defective, plainValue + boundValue, fee, StoreCreditOnly(phase # "later", afterWindow))
     /\ job' = IF defective > 0 THEN JobAfterFeeReturn(job, "DEFECT", back'.bound, o.bound) ELSE job
     /\ shelf' = [shelf EXCEPT !.sellable = @ + (IF damaged THEN 0 ELSE plain),
                               !.damaged = @ + defective + (IF damaged THEN plain ELSE 0)]
     /\ tx' = [tx EXCEPT ![w] = Idle]
     /\ UNCHANGED <<tenders, phase>>

\* jobForCancel: the job is locked first, and read.
LockForCancel(w) ==
  /\ tx[w].at = "idle" /\ sale.status # "none" /\ Free("job")
  /\ job = "REQUESTED"
  /\ tx' = [tx EXCEPT ![w] = [Idle EXCEPT !.op = "cancel_binding", !.at = "locked"]]
  /\ UNCHANGED <<sale, moneyVars, debt, back, job, shelf, phase, raced>>

\* cancelBinding once it has the sale as well: the fee goes back, the copies stay sold.
CancelBinding(w, afterWindow) ==
  /\ tx[w].op = "cancel_binding" /\ tx[w].at = "locked" /\ Free("sale")
  /\ StatusUnderLock = "completed"
  /\ Settle(0, 0, 0, sale.offer.fee - back.fee, StoreCreditOnly(phase # "later", afterWindow))
  /\ job' = JobAfterFeeReturn(job, "CANCELLED", 0, sale.offer.bound)
  /\ tx' = [tx EXCEPT ![w] = Idle]
  /\ UNCHANGED <<tenders, shelf, phase>>

\* A request that is refused, fails, or is the victim of a deadlock leaves nothing.
Rollback(w) ==
  /\ tx[w].at # "idle"
  /\ tx' = [tx EXCEPT ![w] = Idle]
  /\ UNCHANGED <<sale, moneyVars, debt, back, job, shelf, phase, raced>>

-----------------------------------------------------------------------------
Next ==
  \/ \E o \in Offers, ps \in Payments, onCredit \in BOOLEAN :
       Sell(o, ps, onCredit) \/ \E m \in Method : Exchange(o, ps, onCredit, m)
  \/ \E m \in Method, amount \in Amounts : Collect(m, amount) \/ CollectDebt(m, amount)
  \/ WriteOff \/ Accrue \/ SpendElsewhere \/ StepJob \/ TimePasses
  \/ \E w \in Worker :
       \/ AskVoid(w) \/ LockForVoid(w) \/ Void(w)
       \/ LockForReturn(w) \/ LockForCancel(w) \/ Rollback(w)
       \/ \E afterWindow \in AfterWindow :
            \/ CancelBinding(w, afterWindow)
            \/ \E plain, defective \in 0..sale.offer.copies, damaged \in BOOLEAN :
                 Return(w, plain, defective, damaged, afterWindow)

Spec == Init /\ [][Next]_vars

-----------------------------------------------------------------------------
(* Properties.                                                             *)

Standing == sale.status = "completed"

\* What the customer still owes, or was let off.
Owed == IF IsSale THEN sale.due ELSE debt.outstanding + debt.writtenOff

\* At every moment the customer has paid, net of refunds, or owes, exactly what the kept
\* copies and their binding cost, up to the cent a sale may be paid short or over: whatever
\* order payments, credit notes, refunds of returns and write-offs come in (settleSale: "what
\* it takes back is first set against what the customer still owes on the sale ... the rest
\* goes back the way the sale was paid").
PaysForWhatIsKept ==
  Standing => Abs((PaidIn(tenders) + debt.collected - RefundedSoFar) + Owed
                  - (Total - back.value - back.fee)) <= Tolerance

\* A void leaves nothing of the sale: every payment is back where it came from, the copies
\* are in the shop, no debt is open and no job is waiting (voidTransaction: "The books go
\* back ..., every payment goes back the way it was paid ... and a credit sale's receivable
\* is cancelled").  Money collected on an exchange's debt stays, see VoidReturnsWhatWasPaid.
VoidLeavesNothing ==
  sale.status = "voided" /\ ~raced =>
    /\ drawer + (InitialCredit - customer.credit - customer.spent) = debt.collected
    /\ shelf = [sellable |-> 0, damaged |-> 0, tradeIn |-> 0]
    /\ debt.outstanding = 0 /\ job \in {"none", "CANCELLED"}

\* Several returns of one line, plain and bound copies in any order, never take back more
\* copies, value or fee than were sold, and the last copy back makes the sum exact, whatever
\* was rounded on the way (lineValue: "The last units of a line take what is left of it"): as
\* long as the copies cost so much more than a cent that rounding up does not add up to one.
NoMoreBackThanSold ==
  LET o == sale.offer
  IN /\ back.copies <= o.copies /\ back.bound <= o.bound /\ back.value <= o.price /\ back.fee <= o.fee
     /\ back.copies = o.copies => back.value = o.price
     /\ back.bound = o.bound /\ o.bound > 0 => back.fee = o.fee

\* Bound copies come back only after they were handed over, all of them make the job
\* Returned, and a binding is cancelled on a standing sale only with its whole fee given back
\* (recordFeeReturn; checkBoundReturn), though jobs move without the sale's lock.
BoundCopiesFollowTheirJob ==
  /\ back.bound > 0 => job = IF back.bound = sale.offer.bound THEN "RETURNED" ELSE "COLLECTED"
  /\ job = "RETURNED" => back.bound = sale.offer.bound
  /\ Standing /\ job = "CANCELLED" => back.fee = sale.offer.fee

\* The sale and its receivable, kept by different modules, say the same of what is owed:
\* after any mix of collections, credit notes, write-offs and voids.
DebtIsTheSalesDue ==
  IsSale =>
    /\ debt.status = "Open" => debt.outstanding = sale.due /\ sale.due > 0
    /\ Standing /\ sale.due > 0 => debt.status \in {"Open", "WrittenOff"}

\* Returns take back the share of the points that the returned part earned, beyond it only what
\* rounding to a part in PointScale makes of it, and never the same points twice, though the
\* points are earned by a worker at any time and may be spent (pointsToTakeBack: "all returns
\* on the sale together, less what earlier returns took back").
PointsFollowTheGoods ==
  IsSale =>
    2 * PointScale * (accrual.reversed * Total - accrual.earned * Min({back.value + back.fee, Total})) <= Total

\* pointsToTakeBack: "Points the sale earned go back in proportion to what was returned of it",
\* in whole points.
PointsInProportion ==
  accrual.reversed * Total <= accrual.earned * Min({back.value + back.fee, Total})

\* Cash goes back only up to the cash that was paid, over all returns of a sale (allocateRefund:
\* "each up to what it has not given back yet").
CashBackOnlyForCash ==
  IsSale => back.refunded["cash"] <= PaidBy(tenders, "cash")

\* A void and a return of the same sale can both happen only when the return commits after the
\* void's statement began and before it had the lock.
VoidedOverReturnOnlyIfRaced == sale.status = "voided" /\ HasReturns => raced

\* A void leaves nothing behind, and happens only to a sale of which nothing came back,
\* unless it raced a return.
VoidsAreWhole == VoidLeavesNothing /\ VoidedOverReturnOnlyIfRaced

\* Returns stay within their sale: its copies and their price, its cash, its points.
ReturnsWithinTheSale == NoMoreBackThanSold /\ CashBackOnlyForCash /\ PointsFollowTheGoods

\* The sale, its debt and the customer's accounts stay within their ranges and agree.
AccountsAgree == TypeOK /\ DebtIsTheSalesDue

\* Nothing is collected on, refunded for, or moved for a voided sale any more.
NothingAfterVoid ==
  [][sale.status = "voided" => UNCHANGED <<sale, tenders, debt, back, shelf, drawer, job>>]_vars

\* voidTransaction: "Cancels a sale on the day it was made, while nothing on it was returned".
VoidOnlyUnreturned == sale.status = "voided" => ~HasReturns

\* voidExchange: "store credit and points the customer paid with go back to the account, money
\* paid otherwise is handed back".
VoidReturnsWhatWasPaid ==
  sale.status = "voided" /\ ~raced =>
    drawer + (InitialCredit - customer.credit - customer.spent) = 0
===============================================================================
