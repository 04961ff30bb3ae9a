----------------------------- MODULE CounterProofs -----------------------------
(***************************************************************************)
(* What holds of a sale or an exchange for any offers, payments, workers   *)
(* and amounts, along three inductive invariants.                          *)
(*                                                                         *)
(* IInv is what the locks of a sale and of its binding job are good for:   *)
(* a voided sale stays as it is, a void that meets a return raced it, and  *)
(* bound copies come back as their job says.  No amount matters there but  *)
(* the binding fee.                                                        *)
(*                                                                         *)
(* NothingBackYet is what the drawer and the customer's account hold of a  *)
(* sale of which nothing came back, so that a void leaves nothing.         *)
(*                                                                         *)
(* MInv is the amounts: what was paid, refunded, owed and taken back, by   *)
(* method, in value, in fees and in points.                                *)
(***************************************************************************)
EXTENDS Counter, SumTheorems, TLAPS

\* The records the steps change field by field
Shape ==
  /\ sale = [offer |-> sale.offer, status |-> sale.status, due |-> sale.due]
  /\ sale.offer \in Offers \cup {NoOffer} /\ sale.status \in {"none", "completed", "voided"}
  /\ debt = [status |-> debt.status, outstanding |-> debt.outstanding, collected |-> debt.collected,
             writtenOff |-> debt.writtenOff]
  /\ tx \in [Worker -> [op : {"none", "void", "return", "cancel_binding"},
                        at : {"idle", "asked", "locked"}, sawReturns : BOOLEAN]]
  /\ raced \in BOOLEAN /\ back.returns \in BOOLEAN

HoldsSale(w) == tx[w].at = "locked" /\ tx[w].op \in {"void", "return"}
HoldsJob(w) == tx[w].at = "locked" /\ tx[w].op = "cancel_binding"

\* A lock has one holder, and what its holder has read under it is still so.
LocksHold ==
  /\ \A v, w \in Worker : HoldsSale(v) /\ HoldsSale(w) => v = w
  /\ \A v, w \in Worker : HoldsJob(v) /\ HoldsJob(w) => v = w
  /\ \A w \in Worker : HoldsSale(w) => sale.status = "completed"
  /\ \A w \in Worker : HoldsJob(w) => job = "REQUESTED"

\* What a voided sale leaves can neither be collected nor moved on.
VoidedIsOver == sale.status = "voided" => debt.status \in {"None", "Cancelled"} /\ job \in {"none", "CANCELLED"}

\* A return that a void under way does not know of has raced it.
UnseenReturnsRaced ==
  /\ VoidedOverReturnOnlyIfRaced
  /\ \A w \in Worker : tx[w].op = "void" /\ tx[w].at = "asked" /\ ~tx[w].sawReturns => (back.returns => raced)
  /\ \A w \in Worker : tx[w].op = "void" /\ tx[w].at = "locked" => (back.returns => raced)

\* The binding fee stays with the shop until a bound copy comes back or the job is cancelled.
FeeFollowsTheJob ==
  /\ back.bound \in Nat /\ back.bound <= sale.offer.bound
  /\ back.bound = 0 /\ job # "CANCELLED" => back.fee = 0
  /\ sale.status = "none" => back.bound = 0 /\ ~back.returns /\ job = "none"

IInv ==
  /\ Shape
  /\ LocksHold
  /\ VoidedIsOver
  /\ UnseenReturnsRaced
  /\ FeeFollowsTheJob
  /\ BoundCopiesFollowTheirJob

-----------------------------------------------------------------------------
LEMMA OfferFacts ==
  \A o \in Offers \cup {NoOffer} : o.copies \in Nat /\ o.bound \in Nat /\ o.fee \in Nat
  BY CounterAssumption DEF NoOffer

LEMMA FreeLocks ==
  /\ Free("sale") => \A w \in Worker : ~HoldsSale(w)
  /\ Free("job") => \A w \in Worker : ~HoldsJob(w)
  BY DEF Free, HoldsSale, HoldsJob

LEMMA InitIInv == Init => IInv
<1> SUFFICES ASSUME Init PROVE IInv
  OBVIOUS
<1> USE DEF Init
<1>1. Shape /\ LocksHold /\ VoidedIsOver
  BY DEF Shape, LocksHold, VoidedIsOver, HoldsSale, HoldsJob, Idle, NothingBack
<1>2. UnseenReturnsRaced
  BY DEF UnseenReturnsRaced, VoidedOverReturnOnlyIfRaced, Idle
<1>3. FeeFollowsTheJob /\ BoundCopiesFollowTheirJob
  BY DEF FeeFollowsTheJob, BoundCopiesFollowTheirJob, Standing, NothingBack, NoOffer
<1> QED BY <1>1, <1>2, <1>3 DEF IInv

\* Steps that take and give up no lock, leave the job and the returns alone, and do not void.
LEMMA MoneyMoves ==
  ASSUME IInv, UNCHANGED <<back, job, tx, raced>>,
         sale' = [offer |-> sale.offer, status |-> sale.status, due |-> sale'.due],
         debt' = [status |-> debt'.status, outstanding |-> debt'.outstanding, collected |-> debt'.collected,
                  writtenOff |-> debt'.writtenOff],
         sale.status = "voided" => debt' = debt
  PROVE  IInv'
<1>1. sale'.offer = sale.offer /\ sale'.status = sale.status
  OBVIOUS
<1>2. Shape' /\ LocksHold' /\ VoidedIsOver'
  BY <1>1 DEF IInv, Shape, LocksHold, VoidedIsOver, HoldsSale, HoldsJob
<1>3. UnseenReturnsRaced'
  BY <1>1 DEF IInv, UnseenReturnsRaced, VoidedOverReturnOnlyIfRaced, HasReturns
<1>4. FeeFollowsTheJob' /\ BoundCopiesFollowTheirJob'
  BY <1>1 DEF IInv, FeeFollowsTheJob, BoundCopiesFollowTheirJob, Standing
<1> QED BY <1>2, <1>3, <1>4 DEF IInv

-----------------------------------------------------------------------------
(* Selling and what happens elsewhere.                                     *)

\* A sale or an exchange is made.
LEMMA Sold ==
  ASSUME IInv, NEW o \in Offers, sale.status = "none", NEW owed, UNCHANGED <<back, tx, raced>>,
         sale' = [offer |-> o, status |-> "completed", due |-> sale'.due], debt' = NewDebt(owed),
         job' = IF o.bound > 0 THEN "REQUESTED" ELSE "none"
  PROVE  IInv'
<1>1. sale'.offer = o /\ sale'.status = "completed" /\ job' \in {"none", "REQUESTED"} /\ o.bound \in Nat
  BY OfferFacts
<1>2. \A w \in Worker : ~HoldsSale(w) /\ ~HoldsJob(w)
  BY DEF IInv, LocksHold, FeeFollowsTheJob
<1>3. Shape' /\ LocksHold' /\ VoidedIsOver'
  BY <1>1, <1>2 DEF IInv, Shape, LocksHold, VoidedIsOver, HoldsSale, HoldsJob, NewDebt
<1>4. UnseenReturnsRaced'
  BY <1>1 DEF IInv, UnseenReturnsRaced, VoidedOverReturnOnlyIfRaced, HasReturns
<1>5. FeeFollowsTheJob' /\ BoundCopiesFollowTheirJob'
  BY <1>1 DEF IInv, FeeFollowsTheJob, BoundCopiesFollowTheirJob, Standing
<1> QED BY <1>3, <1>4, <1>5 DEF IInv

LEMMA SellKeeps ==
  ASSUME IInv, NEW o \in Offers, NEW ps \in Payments, NEW onCredit \in BOOLEAN, Sell(o, ps, onCredit)
  PROVE  IInv'
<1>1. sale' = [offer |-> o, status |-> "completed", due |-> sale'.due]
  BY DEF Sell
<1>2. debt' = NewDebt(AmountDue(TotalOf(o), PaidIn(ps)))
  BY DEF Sell
<1> QED BY <1>1, <1>2, Sold DEF Sell

LEMMA ExchangeKeeps ==
  ASSUME IInv, NEW o \in Offers, NEW ps \in Payments, NEW onCredit \in BOOLEAN, NEW m \in Method,
         Exchange(o, ps, onCredit, m)
  PROVE  IInv'
<1>1. sale' = [offer |-> o, status |-> "completed", due |-> sale'.due]
  BY DEF Exchange
<1>2. \E owed : debt' = NewDebt(owed)
  BY DEF Exchange
<1> QED BY <1>1, <1>2, Sold DEF Exchange

LEMMA CollectKeeps ==
  ASSUME IInv, NEW m \in Method, NEW amount \in Amounts, Collect(m, amount) PROVE IInv'
<1>1. sale.status = "completed"
  BY DEF Collect, CanCollect
<1>2. /\ sale' = [sale EXCEPT !.due = DueAfterCollect(sale.due, amount)]
      /\ debt' = DebtAfterPayment(DueAfterCollect(sale.due, amount))
      /\ UNCHANGED <<back, job, shelf, phase, tx, raced>>
  BY DEF Collect
<1>3. sale' = [offer |-> sale.offer, status |-> sale.status, due |-> sale'.due]
  BY <1>2 DEF IInv, Shape
<1>4. debt' = [status |-> debt'.status, outstanding |-> debt'.outstanding, collected |-> debt'.collected,
               writtenOff |-> debt'.writtenOff]
  BY <1>2 DEF IInv, Shape, DebtAfterPayment
<1> QED BY <1>1, <1>2, <1>3, <1>4, MoneyMoves

LEMMA CollectDebtKeeps ==
  ASSUME IInv, NEW m \in Method, NEW amount \in Amounts, CollectDebt(m, amount) PROVE IInv'
<1>1. sale.status # "voided"
  BY DEF CollectDebt, IInv, VoidedIsOver
<1>2. sale' = [offer |-> sale.offer, status |-> sale.status, due |-> sale'.due]
  BY DEF CollectDebt, IInv, Shape
<1>3. debt' = [DebtAfterPayment(debt.outstanding - amount) EXCEPT !.collected = @ + amount]
  BY DEF CollectDebt
<1>4. debt' = [status |-> debt'.status, outstanding |-> debt'.outstanding, collected |-> debt'.collected,
               writtenOff |-> debt'.writtenOff]
  BY <1>3 DEF IInv, Shape, DebtAfterPayment
<1> QED BY <1>1, <1>2, <1>4, MoneyMoves DEF CollectDebt

LEMMA WriteOffKeeps == ASSUME IInv, WriteOff PROVE IInv'
<1>1. sale.status # "voided" /\ sale' = [offer |-> sale.offer, status |-> sale.status, due |-> sale'.due]
  BY DEF WriteOff, IInv, VoidedIsOver, Shape
<1>2. debt' = [status |-> debt'.status, outstanding |-> debt'.outstanding, collected |-> debt'.collected,
               writtenOff |-> debt'.writtenOff]
  BY DEF WriteOff, IInv, Shape
<1> QED BY <1>1, <1>2, MoneyMoves DEF WriteOff

LEMMA ElsewhereKeeps == ASSUME IInv, Accrue \/ SpendElsewhere \/ TimePasses PROVE IInv'
<1>1. UNCHANGED <<sale, debt, back, job, tx, raced>>
  BY DEF Accrue, SpendElsewhere, TimePasses
<1> QED BY <1>1, MoneyMoves DEF IInv, Shape

LEMMA StepJobKeeps == ASSUME IInv, StepJob PROVE IInv'
<1>1. /\ job \in {"REQUESTED", "AT_BINDER", "READY"} /\ job' \in {"AT_BINDER", "READY", "COLLECTED"}
      /\ UNCHANGED <<sale, debt, back, tx, raced>>
  BY DEF StepJob, JobSteps
<1>2. \A w \in Worker : ~HoldsJob(w)
  BY FreeLocks DEF StepJob
<1>3. Shape' /\ LocksHold' /\ VoidedIsOver'
  BY <1>1, <1>2 DEF IInv, Shape, LocksHold, VoidedIsOver, HoldsSale, HoldsJob
<1>4. UnseenReturnsRaced'
  BY <1>1 DEF IInv, UnseenReturnsRaced, VoidedOverReturnOnlyIfRaced, HasReturns
<1>5. FeeFollowsTheJob' /\ BoundCopiesFollowTheirJob'
  BY <1>1 DEF IInv, FeeFollowsTheJob, BoundCopiesFollowTheirJob, Standing
<1> QED BY <1>3, <1>4, <1>5 DEF IInv
-----------------------------------------------------------------------------
(* Transactions.                                                           *)

\* Steps of a transaction of one worker that change nothing but it: they keep what is said of
\* it if what it then holds is right.
LEMMA OneTransaction ==
  ASSUME IInv, NEW w \in Worker, UNCHANGED <<sale, debt, back, job, raced>>,
         NEW t \in [op : {"none", "void", "return", "cancel_binding"},
                    at : {"idle", "asked", "locked"}, sawReturns : BOOLEAN],
         tx' = [tx EXCEPT ![w] = t],
         t.at = "locked" /\ t.op \in {"void", "return"} =>
           sale.status = "completed" /\ \A v \in Worker \ {w} : ~HoldsSale(v),
         t.at = "locked" /\ t.op = "cancel_binding" =>
           job = "REQUESTED" /\ \A v \in Worker \ {w} : ~HoldsJob(v),
         t.op = "void" /\ t.at = "asked" /\ ~t.sawReturns => (back.returns => raced),
         t.op = "void" /\ t.at = "locked" => (back.returns => raced)
  PROVE  IInv'
<1>1. Shape'
  BY DEF IInv, Shape
<1>2. tx'[w] = t /\ \A v \in Worker \ {w} : tx'[v] = tx[v]
  BY DEF IInv, Shape
<1>3. LocksHold' /\ VoidedIsOver'
  BY <1>2 DEF IInv, LocksHold, VoidedIsOver, HoldsSale, HoldsJob
<1>4. UnseenReturnsRaced'
  BY <1>2 DEF IInv, UnseenReturnsRaced, VoidedOverReturnOnlyIfRaced, HasReturns
<1>5. FeeFollowsTheJob' /\ BoundCopiesFollowTheirJob'
  BY DEF IInv, FeeFollowsTheJob, BoundCopiesFollowTheirJob, Standing
<1> QED BY <1>1, <1>3, <1>4, <1>5 DEF IInv

LEMMA AskVoidKeeps == ASSUME IInv, NEW w \in Worker, AskVoid(w) PROVE IInv'
<1> DEFINE t == [op |-> "void", at |-> "asked", sawReturns |-> back.returns]
<1>1. tx' = [tx EXCEPT ![w] = t] /\ UNCHANGED <<sale, debt, back, job, raced>>
  BY DEF AskVoid, HasReturns
<1>2. t \in [op : {"none", "void", "return", "cancel_binding"}, at : {"idle", "asked", "locked"}, sawReturns : BOOLEAN]
  BY DEF IInv, Shape
<1>3. t.op = "void" /\ t.at = "asked" /\ t.sawReturns = back.returns
  OBVIOUS
<1> HIDE DEF t
<1> QED BY <1>1, <1>2, <1>3, OneTransaction

\* The transaction is over.
LEMMA EndKeeps ==
  ASSUME IInv, NEW w \in Worker, UNCHANGED <<sale, debt, back, job, raced>>, tx' = [tx EXCEPT ![w] = Idle]
  PROVE  IInv'
<1>1. /\ Idle \in [op : {"none", "void", "return", "cancel_binding"}, at : {"idle", "asked", "locked"}, sawReturns : BOOLEAN]
      /\ Idle.at = "idle" /\ Idle.op = "none"
  BY DEF Idle
<1> QED BY <1>1, OneTransaction

LEMMA LockForVoidKeeps == ASSUME IInv, NEW w \in Worker, LockForVoid(w) PROVE IInv'
<1>1. /\ tx[w].op = "void" /\ tx[w].at = "asked" /\ \A v \in Worker : ~HoldsSale(v)
      /\ UNCHANGED <<sale, debt, back, job, raced>>
  BY FreeLocks DEF LockForVoid
<1>2. CASE sale.status = "completed" /\ ~tx[w].sawReturns
  <2> DEFINE t == [tx[w] EXCEPT !.at = "locked"]
  <2>1. tx' = [tx EXCEPT ![w] = t]
    BY <1>2 DEF LockForVoid, CanVoid, StatusUnderLock
  <2>2. /\ t \in [op : {"none", "void", "return", "cancel_binding"}, at : {"idle", "asked", "locked"}, sawReturns : BOOLEAN]
        /\ t.at = "locked" /\ t.op = "void"
    BY <1>1 DEF IInv, Shape
  <2>3. back.returns => raced
    BY <1>1, <1>2 DEF IInv, UnseenReturnsRaced
  <2> HIDE DEF t
  <2> QED BY <1>1, <1>2, <2>1, <2>2, <2>3, OneTransaction
<1>3. CASE ~(sale.status = "completed" /\ ~tx[w].sawReturns)
  <2>1. tx' = [tx EXCEPT ![w] = Idle]
    BY <1>3 DEF LockForVoid, CanVoid, StatusUnderLock
  <2> QED BY <1>1, <2>1, EndKeeps
<1> QED BY <1>2, <1>3

LEMMA LockForReturnKeeps == ASSUME IInv, NEW w \in Worker, LockForReturn(w) PROVE IInv'
<1> DEFINE t == [Idle EXCEPT !.op = "return", !.at = "locked"]
<1>1. /\ tx' = [tx EXCEPT ![w] = t] /\ sale.status = "completed" /\ \A v \in Worker : ~HoldsSale(v)
      /\ UNCHANGED <<sale, debt, back, job, raced>>
  BY FreeLocks DEF LockForReturn, StatusUnderLock
<1>2. /\ t \in [op : {"none", "void", "return", "cancel_binding"}, at : {"idle", "asked", "locked"}, sawReturns : BOOLEAN]
      /\ t.at = "locked" /\ t.op = "return"
  BY DEF Idle
<1> HIDE DEF t
<1> QED BY <1>1, <1>2, OneTransaction

LEMMA LockForCancelKeeps == ASSUME IInv, NEW w \in Worker, LockForCancel(w) PROVE IInv'
<1> DEFINE t == [Idle EXCEPT !.op = "cancel_binding", !.at = "locked"]
<1>1. /\ tx' = [tx EXCEPT ![w] = t] /\ job = "REQUESTED" /\ \A v \in Worker : ~HoldsJob(v)
      /\ UNCHANGED <<sale, debt, back, job, raced>>
  BY FreeLocks DEF LockForCancel
<1>2. /\ t \in [op : {"none", "void", "return", "cancel_binding"}, at : {"idle", "asked", "locked"}, sawReturns : BOOLEAN]
      /\ t.at = "locked" /\ t.op = "cancel_binding"
  BY DEF Idle
<1> HIDE DEF t
<1> QED BY <1>1, <1>2, OneTransaction

LEMMA VoidKeeps == ASSUME IInv, NEW w \in Worker, Void(w) PROVE IInv'
<1>1. /\ tx[w].op = "void" /\ tx[w].at = "locked" /\ tx' = [tx EXCEPT ![w] = Idle]
      /\ (\A v \in Worker : ~HoldsJob(v)) /\ UNCHANGED <<back, raced>>
  BY FreeLocks DEF Void
<1>2. CASE JobCancellable(job) /\ debt.status # "WrittenOff" /\ CreditUnspent
  <2>1. /\ sale' = [sale EXCEPT !.status = "voided"]
        /\ job' = IF job = "REQUESTED" THEN "CANCELLED" ELSE job
        /\ debt' = DebtAfterVoid(debt) /\ job \in {"none", "REQUESTED", "CANCELLED"}
    BY <1>2 DEF Void, JobCancellable
  <2>2. sale'.status = "voided" /\ sale'.offer = sale.offer
        /\ sale' = [offer |-> sale'.offer, status |-> sale'.status, due |-> sale'.due]
    BY <2>1 DEF IInv, Shape
  <2>3. /\ debt' = [status |-> debt'.status, outstanding |-> debt'.outstanding, collected |-> debt'.collected,
                    writtenOff |-> debt'.writtenOff]
        /\ debt'.status \in {"None", "Cancelled"}
    BY <2>1 DEF IInv, Shape, DebtAfterVoid
  <2>4. Shape'
    BY <1>1, <2>2, <2>3 DEF IInv, Shape, Idle
  <2>5. tx'[w] = Idle /\ \A v \in Worker \ {w} : tx'[v] = tx[v] /\ ~HoldsSale(v)
    BY <1>1 DEF IInv, Shape, LocksHold, HoldsSale
  <2>6. LocksHold' /\ VoidedIsOver'
    BY <1>1, <2>1, <2>3, <2>5 DEF LocksHold, VoidedIsOver, HoldsSale, HoldsJob, Idle
  <2>7. UnseenReturnsRaced'
    BY <1>1, <2>5 DEF IInv, UnseenReturnsRaced, VoidedOverReturnOnlyIfRaced, HasReturns, Idle
  <2>8. FeeFollowsTheJob' /\ BoundCopiesFollowTheirJob'
    BY <1>1, <2>1, <2>2 DEF IInv, FeeFollowsTheJob, BoundCopiesFollowTheirJob, Standing
  <2> QED BY <2>4, <2>6, <2>7, <2>8 DEF IInv
<1>3. CASE ~(JobCancellable(job) /\ debt.status # "WrittenOff" /\ CreditUnspent)
  <2>1. UNCHANGED <<sale, job, debt>>
    BY <1>3 DEF Void
  <2> QED BY <1>1, <2>1, EndKeeps
<1> QED BY <1>2, <1>3

\* What a settlement leaves of the sale and its debt, and what it tells voids under way
LEMMA Settled ==
  ASSUME IInv, NEW copies, NEW bound, NEW value, NEW fee, NEW only, Settle(copies, bound, value, fee, only)
  PROVE  /\ sale' = [offer |-> sale.offer, status |-> sale.status, due |-> sale'.due]
         /\ debt' = [status |-> debt'.status, outstanding |-> debt'.outstanding, collected |-> debt'.collected,
                     writtenOff |-> debt'.writtenOff]
         /\ back'.bound = back.bound + bound /\ back'.fee = back.fee + fee /\ back'.returns = TRUE
         /\ raced' \in BOOLEAN
         /\ raced \/ (\E v \in Worker : tx[v].op = "void" /\ tx[v].at = "asked") => raced'
<1>1. sale' = [offer |-> sale.offer, status |-> sale.status, due |-> sale'.due]
  <2>1. sale' = sale \/ \E d : sale' = [sale EXCEPT !.due = d]
    BY DEF Settle
  <2> QED BY <2>1 DEF IInv, Shape
<1>2. debt' = [status |-> debt'.status, outstanding |-> debt'.outstanding, collected |-> debt'.collected,
               writtenOff |-> debt'.writtenOff]
  <2>1. \E credit : debt' = DebtAfterCredit(credit)
    BY DEF Settle
  <2> QED BY <2>1 DEF IInv, Shape, DebtAfterCredit
<1>3. back'.bound = back.bound + bound /\ back'.fee = back.fee + fee /\ back'.returns = TRUE
  BY DEF Settle
<1>4. raced' = (raced \/ \E v \in Worker : tx[v].op = "void" /\ tx[v].at = "asked")
  BY DEF Settle
<1> QED BY <1>1, <1>2, <1>3, <1>4 DEF IInv, Shape

\* A settlement under the lock of the sale, by whoever holds it or found it free, keeps all that
\* is not about the job.
LEMMA SettledUnderLock ==
  ASSUME IInv, NEW w \in Worker, NEW copies, NEW bound, NEW value, NEW fee, NEW only,
         Settle(copies, bound, value, fee, only), tx' = [tx EXCEPT ![w] = Idle],
         sale.status = "completed", \A v \in Worker \ {w} : ~HoldsSale(v),
         job' = job \/ \A v \in Worker \ {w} : ~HoldsJob(v)
  PROVE  Shape' /\ LocksHold' /\ VoidedIsOver' /\ UnseenReturnsRaced'
<1>1. tx'[w] = Idle /\ \A v \in Worker \ {w} : tx'[v] = tx[v]
  BY DEF IInv, Shape
<1>2. /\ sale' = [offer |-> sale.offer, status |-> sale.status, due |-> sale'.due]
      /\ debt' = [status |-> debt'.status, outstanding |-> debt'.outstanding, collected |-> debt'.collected,
                  writtenOff |-> debt'.writtenOff]
      /\ back'.returns = TRUE /\ raced' \in BOOLEAN
      /\ raced \/ (\E v \in Worker : tx[v].op = "void" /\ tx[v].at = "asked") => raced'
  BY Settled
<1>3. sale'.status = "completed" /\ sale'.offer = sale.offer
  BY <1>2
<1>4. Shape'
  BY <1>2, <1>3 DEF IInv, Shape, Idle
<1>5. LocksHold' /\ VoidedIsOver'
  BY <1>1, <1>3 DEF IInv, LocksHold, VoidedIsOver, HoldsSale, HoldsJob, Idle
<1>6. UnseenReturnsRaced'
  BY <1>1, <1>2, <1>3 DEF IInv, UnseenReturnsRaced, VoidedOverReturnOnlyIfRaced, HoldsSale, Idle
<1> QED BY <1>4, <1>5, <1>6

LEMMA ReturnKeeps ==
  ASSUME IInv, NEW w \in Worker, NEW plain \in 0..sale.offer.copies, NEW defective \in 0..sale.offer.copies,
         NEW damaged \in BOOLEAN, NEW afterWindow \in AfterWindow, Return(w, plain, defective, damaged, afterWindow)
  PROVE  IInv'
<1> DEFINE fee == IF defective > 0 THEN FeeShare(sale.offer.fee, sale.offer.bound, back.bound, back.fee, defective) ELSE 0
<1>1. PICK copies, value, only : Settle(copies, defective, value, fee, only)
  BY DEF Return
<1>2. /\ HoldsSale(w) /\ (\A v \in Worker : ~HoldsJob(v)) /\ tx' = [tx EXCEPT ![w] = Idle]
      /\ BoundReturnAllowed(sale.offer.copies, Bound, back.copies, back.bound, plain, defective, job)
      /\ job' = IF defective > 0 THEN JobAfterFeeReturn(job, "DEFECT", back'.bound, sale.offer.bound) ELSE job
  BY FreeLocks DEF Return, HoldsSale
<1>3. /\ defective \in Nat /\ back.bound \in Nat /\ sale.offer.bound \in Nat /\ sale.offer.fee \in Nat
      /\ sale.offer \in Offers \cup {NoOffer}
  BY OfferFacts DEF IInv, Shape, FeeFollowsTheJob
<1> HIDE DEF fee
<1>4. /\ back'.bound = back.bound + defective /\ back'.fee = back.fee + fee
      /\ sale.status = "completed" /\ sale'.offer = sale.offer /\ sale'.status = sale.status
  <2>1. /\ sale' = [offer |-> sale.offer, status |-> sale.status, due |-> sale'.due]
        /\ back'.bound = back.bound + defective /\ back'.fee = back.fee + fee
    BY <1>1, Settled
  <2>2. sale.status = "completed"
    BY <1>2 DEF IInv, LocksHold
  <2> QED BY <2>1, <2>2
<1>5. Shape' /\ LocksHold' /\ VoidedIsOver' /\ UnseenReturnsRaced'
  <2>1. sale.status = "completed" /\ \A v \in Worker \ {w} : ~HoldsSale(v)
    BY <1>2 DEF IInv, LocksHold
  <2> QED BY <1>1, <1>2, <2>1, SettledUnderLock
<1>6. CASE defective = 0
  <2>1. fee = 0 /\ job' = job
    BY <1>2, <1>6 DEF fee
  <2>2. back'.bound = back.bound /\ (back.fee \in Int => back'.fee = back.fee)
    BY <1>3, <1>4, <1>6, <2>1
  <2>3. FeeFollowsTheJob'
    BY <1>4, <2>1, <2>2 DEF IInv, FeeFollowsTheJob
  <2>4. BoundCopiesFollowTheirJob'
    BY <1>3, <1>4, <2>1, <2>2 DEF IInv, BoundCopiesFollowTheirJob, Standing
  <2> QED BY <1>5, <2>3, <2>4 DEF IInv
<1>7. CASE defective # 0
  <2>1. defective > 0 /\ job \in {"COLLECTED", "RETURNED"} /\ defective <= sale.offer.bound - back.bound
    BY <1>2, <1>3, <1>7 DEF BoundReturnAllowed, BoundLeft, Bound
  <2>2. job = "COLLECTED"
    BY <1>3, <2>1 DEF IInv, BoundCopiesFollowTheirJob
  <2>3. /\ back'.bound \in Nat /\ back'.bound > 0 /\ back'.bound <= sale.offer.bound
        /\ job' = IF back'.bound = sale.offer.bound THEN "RETURNED" ELSE "COLLECTED"
    BY <1>2, <1>3, <1>4, <2>1, <2>2 DEF JobAfterFeeReturn
  <2>4. FeeFollowsTheJob' /\ BoundCopiesFollowTheirJob'
    BY <1>3, <1>4, <2>3 DEF FeeFollowsTheJob, BoundCopiesFollowTheirJob, Standing
  <2> QED BY <1>5, <2>4 DEF IInv
<1> QED BY <1>6, <1>7

LEMMA CancelBindingKeeps ==
  ASSUME IInv, NEW w \in Worker, NEW afterWindow \in AfterWindow, CancelBinding(w, afterWindow) PROVE IInv'
<1>1. PICK only : Settle(0, 0, 0, sale.offer.fee - back.fee, only)
  BY DEF CancelBinding
<1>2. /\ HoldsJob(w) /\ (\A v \in Worker : ~HoldsSale(v)) /\ sale.status = "completed"
      /\ tx' = [tx EXCEPT ![w] = Idle] /\ job' = "CANCELLED"
  BY FreeLocks DEF CancelBinding, HoldsJob, StatusUnderLock, JobAfterFeeReturn
<1>3. /\ job = "REQUESTED" /\ \A v \in Worker \ {w} : ~HoldsJob(v)
  BY <1>2 DEF IInv, LocksHold
<1>4. /\ back.bound \in Nat /\ sale.offer.bound \in Nat /\ sale.offer.fee \in Nat
      /\ sale.offer \in Offers \cup {NoOffer}
  BY OfferFacts DEF IInv, Shape, FeeFollowsTheJob
<1>5. back.bound = 0 /\ back.fee = 0
  BY <1>3, <1>4 DEF IInv, FeeFollowsTheJob, BoundCopiesFollowTheirJob
<1>6. /\ back'.bound = 0 /\ back'.fee = sale.offer.fee
      /\ sale'.offer = sale.offer /\ sale'.status = "completed"
  <2>1. /\ sale' = [offer |-> sale.offer, status |-> sale.status, due |-> sale'.due]
        /\ back'.bound = back.bound + 0 /\ back'.fee = back.fee + (sale.offer.fee - back.fee)
    BY <1>1, Settled
  <2> QED BY <1>2, <1>4, <1>5, <2>1
<1>7. Shape' /\ LocksHold' /\ VoidedIsOver' /\ UnseenReturnsRaced'
  BY <1>1, <1>2, <1>3, SettledUnderLock
<1>8. FeeFollowsTheJob' /\ BoundCopiesFollowTheirJob'
  BY <1>2, <1>4, <1>6 DEF FeeFollowsTheJob, BoundCopiesFollowTheirJob, Standing
<1> QED BY <1>7, <1>8 DEF IInv

-----------------------------------------------------------------------------
LEMMA NextKeeps == ASSUME IInv, Next PROVE IInv'
<1>1. ASSUME NEW o \in Offers, NEW ps \in Payments, NEW onCredit \in BOOLEAN,
             Sell(o, ps, onCredit) \/ \E m \in Method : Exchange(o, ps, onCredit, m)
      PROVE  IInv'
  BY <1>1, SellKeeps, ExchangeKeeps
<1>2. ASSUME NEW m \in Method, NEW amount \in Amounts, Collect(m, amount) \/ CollectDebt(m, amount) PROVE IInv'
  BY <1>2, CollectKeeps, CollectDebtKeeps
<1>3. CASE WriteOff \/ Accrue \/ SpendElsewhere \/ StepJob \/ TimePasses
  BY <1>3, WriteOffKeeps, ElsewhereKeeps, StepJobKeeps
<1>4. ASSUME NEW w \in Worker, AskVoid(w) \/ LockForVoid(w) \/ Void(w) \/ LockForReturn(w) \/ LockForCancel(w)
      PROVE  IInv'
  BY <1>4, AskVoidKeeps, LockForVoidKeeps, VoidKeeps, LockForReturnKeeps, LockForCancelKeeps
<1>5. ASSUME NEW w \in Worker, Rollback(w) PROVE IInv'
  BY <1>5, EndKeeps DEF Rollback
<1>6. ASSUME NEW w \in Worker, NEW afterWindow \in AfterWindow,
             CancelBinding(w, afterWindow) \/ \E plain, defective \in 0..sale.offer.copies, damaged \in BOOLEAN :
                                                 Return(w, plain, defective, damaged, afterWindow)
      PROVE  IInv'
  BY <1>6, CancelBindingKeeps, ReturnKeeps
<1> QED BY <1>1, <1>2, <1>3, <1>4, <1>5, <1>6 DEF Next

LEMMA Inductive == Spec => []IInv
<1>1. ASSUME IInv, UNCHANGED vars PROVE IInv'
  BY <1>1, MoneyMoves DEF vars, IInv, Shape
<1>2. IInv /\ [Next]_vars => IInv'
  BY <1>1, NextKeeps
<1> QED BY <1>2, InitIInv, PTL DEF Spec

\* Bound copies come back only after they were handed over, the last of them makes the job
\* Returned, and a binding cancelled on a standing sale gave its whole fee back, though jobs
\* move without the lock of the sale (boundCopies, cancelBinding, stepJob).
THEOREM BoundCopiesAlwaysFollowTheirJob == Spec => []BoundCopiesFollowTheirJob
<1>1. IInv => BoundCopiesFollowTheirJob
  BY DEF IInv
<1> QED BY <1>1, Inductive, PTL

\* A sale is voided over a return only if the return committed between the start of the void's
\* statement and its lock (findTransaction FOR UPDATE, isVoidable).
THEOREM VoidsOverReturnsRaced == Spec => []VoidedOverReturnOnlyIfRaced
<1>1. IInv => VoidedOverReturnOnlyIfRaced
  BY DEF IInv, UnseenReturnsRaced
<1> QED BY <1>1, Inductive, PTL

\* A voided sale stays as the void left it: no payment, collection, return, job or write-off
\* that was under way still changes it, its debt, its job, the shelf or the drawer.
THEOREM VoidedSalesStay == Spec => NothingAfterVoid
<1> DEFINE Stays == sale.status = "voided" => UNCHANGED <<sale, tenders, debt, back, shelf, drawer, job>>
<1>1. IInv /\ [Next]_vars => [Stays]_vars
  <2> SUFFICES ASSUME IInv, Next, sale.status = "voided"
               PROVE  UNCHANGED <<sale, tenders, debt, back, shelf, drawer, job>>
    OBVIOUS
  <2>1. /\ debt.status \in {"None", "Cancelled"} /\ job \in {"none", "CANCELLED"}
        /\ \A w \in Worker : ~HoldsSale(w)
    BY DEF IInv, VoidedIsOver, LocksHold
  <2>2. ASSUME NEW o \in Offers, NEW ps \in Payments, NEW onCredit \in BOOLEAN,
               Sell(o, ps, onCredit) \/ \E m \in Method : Exchange(o, ps, onCredit, m)
        PROVE  FALSE
    BY <2>2 DEF Sell, Exchange
  <2>3. ASSUME NEW m \in Method, NEW amount \in Amounts, Collect(m, amount) \/ CollectDebt(m, amount) PROVE FALSE
    BY <2>1, <2>3 DEF Collect, CanCollect, CollectDebt
  <2>4. ~WriteOff /\ ~StepJob
    BY <2>1 DEF WriteOff, StepJob, JobSteps
  <2>5. CASE Accrue \/ SpendElsewhere \/ TimePasses
    BY <2>5 DEF Accrue, SpendElsewhere, TimePasses, moneyVars
  <2>6. ASSUME NEW w \in Worker, AskVoid(w) \/ LockForVoid(w) \/ LockForReturn(w) \/ LockForCancel(w) \/ Rollback(w)
        PROVE  UNCHANGED <<sale, tenders, debt, back, shelf, drawer, job>>
    BY <2>6 DEF AskVoid, LockForVoid, LockForReturn, LockForCancel, Rollback, moneyVars
  <2>7. ASSUME NEW w \in Worker, Void(w) PROVE FALSE
    BY <2>1, <2>7 DEF Void, HoldsSale
  <2>8. ASSUME NEW w \in Worker, NEW afterWindow \in AfterWindow,
               CancelBinding(w, afterWindow) \/ \E plain, defective \in 0..sale.offer.copies, damaged \in BOOLEAN :
                                                   Return(w, plain, defective, damaged, afterWindow)
        PROVE  FALSE
    BY <2>1, <2>8 DEF CancelBinding, Return, StatusUnderLock, HoldsSale
  <2> QED BY <2>2, <2>3, <2>4, <2>5, <2>6, <2>7, <2>8 DEF Next
<1> QED BY <1>1, Inductive, PTL DEF Spec, NothingAfterVoid


-----------------------------------------------------------------------------
(* What was paid, added up.                                                *)

Tender == [method : Method, amount : Int]

AmountsBy(ps, m) == [i \in DOMAIN ps |-> IF ps[i].method = m THEN ps[i].amount ELSE 0]
AmountsOf(ps) == [i \in DOMAIN ps |-> ps[i].amount]

LEMMA PaidUnfolds ==
  ASSUME NEW ps
  PROVE  /\ \A m : PaidBy(ps, m) = SumFunctionOnSet(AmountsBy(ps, m), DOMAIN ps)
         /\ PaidIn(ps) = SumFunctionOnSet(AmountsOf(ps), DOMAIN ps)
  BY DEF PaidBy, PaidIn, SumFunction, AmountsBy, AmountsOf

LEMMA TenderFields ==
  ASSUME NEW ps \in Seq(Tender)
  PROVE  \A i \in DOMAIN ps : ps[i].method \in Method /\ ps[i].amount \in Int
<1>1. \A i \in DOMAIN ps : ps[i] \in Tender
  BY PositionsFinite
<1> QED BY <1>1 DEF Tender

LEMMA PaidTypes ==
  ASSUME NEW ps \in Seq(Tender), NEW m
  PROVE  PaidBy(ps, m) \in Int /\ PaidIn(ps) \in Int
<1>1. IsFiniteSet(DOMAIN ps)
  BY PositionsFinite
<1>2. \A i \in DOMAIN ps : AmountsBy(ps, m)[i] \in Int /\ AmountsOf(ps)[i] \in Int
  BY TenderFields DEF AmountsBy, AmountsOf
<1> QED BY <1>1, <1>2, PaidUnfolds, SumInteger

\* Every payment is by one of the two methods.
LEMMA PaidByMethods ==
  ASSUME NEW ps \in Seq(Tender)
  PROVE  PaidIn(ps) = PaidBy(ps, "cash") + PaidBy(ps, "store_credit")
<1>1. IsFiniteSet(DOMAIN ps)
  BY PositionsFinite
<1>2. PICK f : f = AmountsBy(ps, "cash")
  OBVIOUS
<1>3. PICK g : g = AmountsBy(ps, "store_credit")
  OBVIOUS
<1>4. PICK h : h = AmountsOf(ps)
  OBVIOUS
<1>5. \A i \in DOMAIN ps : f[i] \in Int /\ g[i] \in Int /\ h[i] = f[i] + g[i]
  BY <1>2, <1>3, <1>4, TenderFields DEF AmountsBy, AmountsOf, Method
<1>6. SumFunctionOnSet(h, DOMAIN ps) = SumFunctionOnSet(f, DOMAIN ps) + SumFunctionOnSet(g, DOMAIN ps)
  BY <1>1, <1>5, SumPlus
<1> QED BY <1>2, <1>3, <1>4, <1>6, PaidUnfolds

LEMMA PaidNothing == ASSUME NEW m PROVE PaidBy(<<>>, m) = 0 /\ PaidIn(<<>>) = 0
<1>1. DOMAIN <<>> = {}
  OBVIOUS
<1> QED BY <1>1, PaidUnfolds, SumEmpty

\* A sum over one position more
LEMMA SumOneMore ==
  ASSUME NEW n \in Nat, NEW f, NEW g, \A i \in 1..(n+1) : f[i] \in Int, \A i \in 1..n : g[i] = f[i]
  PROVE  SumFunctionOnSet(f, 1..(n+1)) = SumFunctionOnSet(g, 1..n) + f[n+1]
<1>1. IsFiniteSet(1..(n+1)) /\ IsFiniteSet(1..n)
  BY FS_Interval
<1>2. (1..(n+1)) \ {n+1} = 1..n /\ n+1 \in 1..(n+1)
  OBVIOUS
<1>3. SumFunctionOnSet(f, 1..(n+1)) = f[n+1] + SumFunctionOnSet(f, (1..(n+1)) \ {n+1})
  BY <1>1, <1>2, SumTakeOut
<1>4. SumFunctionOnSet(f, 1..n) = SumFunctionOnSet(g, 1..n)
  BY <1>1, SumEqual
<1>5. SumFunctionOnSet(f, 1..n) \in Int
  BY <1>1, SumInteger
<1>6. PICK a \in Int : a = f[n+1]
  BY <1>2
<1>7. PICK b \in Int : b = SumFunctionOnSet(f, 1..n)
  BY <1>5
<1>8. SumFunctionOnSet(f, 1..(n+1)) = a + b
  BY <1>2, <1>3, <1>6, <1>7
<1> QED BY <1>4, <1>6, <1>7, <1>8

\* One payment more
With(ps, t) == ps \o <<t>>

LEMMA PaidOneMore ==
  ASSUME NEW ps \in Seq(Tender), NEW t \in Tender, NEW qs, qs = With(ps, t)
  PROVE  /\ qs \in Seq(Tender)
         /\ PaidIn(qs) = PaidIn(ps) + t.amount
         /\ \A m : PaidBy(qs, m) = PaidBy(ps, m) + (IF t.method = m THEN t.amount ELSE 0)
<1>1. PICK n \in Nat : n = Len(ps)
  OBVIOUS
<1>2. DOMAIN ps = 1..n
  BY <1>1
<1>3. /\ qs \in Seq(Tender) /\ DOMAIN qs = 1..(n+1)
      /\ qs[n+1] = t /\ \A i \in 1..n : qs[i] = ps[i]
  BY <1>1 DEF With
<1>4. t.amount \in Int /\ t.method \in Method
  BY DEF Tender
<1>5. \A i \in 1..(n+1) : qs[i].amount \in Int
  BY <1>3, TenderFields
<1>6. PaidIn(qs) = PaidIn(ps) + t.amount
  <2>1. PICK f : f = AmountsOf(qs)
    OBVIOUS
  <2>2. PICK g : g = AmountsOf(ps)
    OBVIOUS
  <2>3. \A i \in 1..(n+1) : f[i] \in Int
    BY <1>3, <1>5, <2>1 DEF AmountsOf
  <2>4. \A i \in 1..n : g[i] = f[i]
    <3> SUFFICES ASSUME NEW i \in 1..n PROVE g[i] = f[i]
      OBVIOUS
    <3>1. i \in 1..(n+1) /\ i \in DOMAIN ps /\ qs[i] = ps[i]
      BY <1>2, <1>3
    <3> QED BY <1>3, <2>1, <2>2, <3>1 DEF AmountsOf
  <2>5. f[n+1] = t.amount
    BY <1>3, <2>1 DEF AmountsOf
  <2>6. SumFunctionOnSet(f, 1..(n+1)) = SumFunctionOnSet(g, 1..n) + f[n+1]
    BY <2>3, <2>4, SumOneMore
  <2> QED BY <1>2, <1>3, <2>1, <2>2, <2>5, <2>6, PaidUnfolds
<1>7. ASSUME NEW m PROVE PaidBy(qs, m) = PaidBy(ps, m) + (IF t.method = m THEN t.amount ELSE 0)
  <2>1. PICK f : f = AmountsBy(qs, m)
    OBVIOUS
  <2>2. PICK g : g = AmountsBy(ps, m)
    OBVIOUS
  <2>3. \A i \in 1..(n+1) : f[i] \in Int
    BY <1>3, <1>5, <2>1 DEF AmountsBy
  <2>4. \A i \in 1..n : g[i] = f[i]
    <3> SUFFICES ASSUME NEW i \in 1..n PROVE g[i] = f[i]
      OBVIOUS
    <3>1. i \in 1..(n+1) /\ i \in DOMAIN ps /\ qs[i] = ps[i]
      BY <1>2, <1>3
    <3> QED BY <1>3, <2>1, <2>2, <3>1 DEF AmountsBy
  <2>5. f[n+1] = IF t.method = m THEN t.amount ELSE 0
    BY <1>3, <2>1 DEF AmountsBy
  <2>6. SumFunctionOnSet(f, 1..(n+1)) = SumFunctionOnSet(g, 1..n) + f[n+1]
    BY <2>3, <2>4, SumOneMore
  <2> QED BY <1>2, <1>3, <2>1, <2>2, <2>5, <2>6, PaidUnfolds
<1> QED BY <1>3, <1>6, <1>7

LEMMA PaymentsAreTenders == \A ps \in Payments : ps \in Seq(Tender) /\ ps \o <<>> = ps /\ <<>> \o ps = ps
<1> SUFFICES ASSUME NEW ps \in Payments PROVE ps \in Seq(Tender) /\ ps \o <<>> = ps /\ <<>> \o ps = ps
  OBVIOUS
<1>1. PICK T : T = [method : Method, amount : Nat \ {0}]
  OBVIOUS
<1>2. ps \in Seq(T)
  BY <1>1, CounterAssumption
<1>3. \A t \in T : t \in Tender
  BY <1>1 DEF Tender
<1>4. ps \in [1..Len(ps) -> T] /\ Len(ps) \in Nat
  BY <1>2
<1>5. ps \in [1..Len(ps) -> Tender]
  BY <1>3, <1>4
<1>6. ps \in Seq(Tender)
  BY <1>4, <1>5
<1> QED BY <1>6

-----------------------------------------------------------------------------
(* A sale of which nothing came back: the drawer and the customer's store  *)
(* credit are as its payments say, so that a void, which hands the         *)
(* payments back, leaves nothing.                                          *)

\* What the shop has of the customer for the sale, in the drawer and as store credit
Gathered == drawer + (InitialCredit - customer.credit - customer.spent)

Untouched ==
  /\ tenders \in Seq(Tender) /\ drawer \in Int /\ debt.collected \in Int
  /\ customer = [credit |-> customer.credit, points |-> customer.points, spent |-> customer.spent]
  /\ customer.credit \in Int /\ customer.spent \in Int
  /\ shelf = [sellable |-> shelf.sellable, damaged |-> 0, tradeIn |-> shelf.tradeIn]
  /\ debt.status = "None" => debt.outstanding = 0
  /\ sale.status = "none" => tenders = <<>> /\ drawer = 0 /\ debt.status = "None" /\ debt.collected = 0 /\ Gathered = 0
  /\ sale.status # "voided" => Gathered = PaidIn(tenders) + debt.collected
  /\ sale.status = "completed" => shelf.sellable = -sale.offer.copies
  /\ sale.status = "voided" =>
       Gathered = debt.collected /\ debt.outstanding = 0
       /\ shelf = [sellable |-> 0, damaged |-> 0, tradeIn |-> 0]

NothingBackYet == ~back.returns => Untouched

LEMMA InitNothingBack == Init => NothingBackYet
<1> SUFFICES ASSUME Init PROVE Untouched
  BY DEF NothingBackYet
<1>1. PaidIn(<<>>) = 0 /\ InitialCredit \in Int
  BY PaidNothing, CounterAssumption
<1>2. tenders = <<>> /\ tenders \in Seq(Tender)
  BY DEF Init
<1> QED BY <1>1, <1>2 DEF Init, Untouched, Gathered

\* Steps that leave the money and the shelf where they are.
LEMMA NothingMoves ==
  ASSUME NothingBackYet, UNCHANGED <<sale, tenders, drawer, customer, shelf, back>>,
         debt'.collected = debt.collected, debt'.status = "None" <=> debt.status = "None",
         debt'.outstanding = debt.outstanding \/ debt'.outstanding = 0
  PROVE  NothingBackYet'
  BY DEF NothingBackYet, Untouched, Gathered

LEMMA NewDebtFacts ==
  ASSUME NEW owed \in Int
  PROVE  /\ NewDebt(owed).status = IF owed > 0 THEN "Open" ELSE "None"
         /\ NewDebt(owed).outstanding = IF owed > 0 THEN owed ELSE 0
         /\ NewDebt(owed).collected = 0 /\ NewDebt(owed).writtenOff = 0
<1>1. Max({0, owed}) = IF owed > 0 THEN owed ELSE 0
  BY LargerOf
<1> QED BY <1>1 DEF NewDebt

LEMMA PriceFacts ==
  ASSUME NEW o \in Offers \cup {NoOffer}
  PROVE  /\ o.copies \in Nat /\ o.bound \in Nat /\ o.bound <= o.copies
         /\ o.price \in Nat /\ o.fee \in Nat /\ o.tradeIn \in Nat
         /\ o.bound = 0 => o.fee = 0
         /\ o.kind = "sale" => o.tradeIn = 0
  BY CounterAssumption DEF NoOffer

LEMMA TotalInt == ASSUME NEW o \in Offers \cup {NoOffer} PROVE TotalOf(o) \in Int
  BY PriceFacts DEF TotalOf

\* Payments are taken.
LEMMA PaymentsTaken ==
  ASSUME Untouched, NEW ps \in Seq(Tender), customer' = [customer EXCEPT !.credit = @ - PaidBy(ps, "store_credit")],
         drawer' = drawer + PaidBy(ps, "cash")
  PROVE  /\ drawer' \in Int /\ customer'.credit \in Int /\ customer'.spent \in Int
         /\ customer' = [credit |-> customer'.credit, points |-> customer'.points, spent |-> customer'.spent]
         /\ Gathered' = Gathered + PaidIn(ps)
<1>1. /\ drawer \in Int /\ customer.credit \in Int /\ customer.spent \in Int
      /\ customer = [credit |-> customer.credit, points |-> customer.points, spent |-> customer.spent]
  BY DEF Untouched
<1>2. PICK c \in Int : c = PaidBy(ps, "cash")
  BY PaidTypes
<1>3. PICK s \in Int : s = PaidBy(ps, "store_credit")
  BY PaidTypes
<1>4. PaidIn(ps) = c + s
  BY <1>2, <1>3, PaidByMethods
<1>5. /\ customer'.credit = customer.credit - s /\ customer'.spent = customer.spent
      /\ customer' = [credit |-> customer'.credit, points |-> customer'.points, spent |-> customer'.spent]
  BY <1>1, <1>3
<1>6. drawer' = drawer + c
  BY <1>2
<1>7. InitialCredit \in Int
  BY CounterAssumption
<1>8. Gathered' = Gathered + PaidIn(ps)
  BY <1>1, <1>4, <1>5, <1>6, <1>7 DEF Gathered
<1>9. drawer' \in Int /\ customer'.credit \in Int /\ customer'.spent \in Int
  BY <1>1, <1>5, <1>6
<1> QED BY <1>5, <1>8, <1>9

LEMMA SellNothingBack ==
  ASSUME IInv, NothingBackYet, NEW o \in Offers, NEW ps \in Payments, NEW onCredit \in BOOLEAN, Sell(o, ps, onCredit)
  PROVE  NothingBackYet'
<1>1. sale.status = "none" /\ ~back.returns /\ back' = back
  BY DEF Sell, IInv, FeeFollowsTheJob
<1>2. Untouched /\ tenders = <<>> /\ Gathered = 0
  BY <1>1 DEF NothingBackYet, Untouched
<1>3. ps \in Seq(Tender) /\ tenders' = ps
  BY <1>2, PaymentsAreTenders DEF Sell, TakePayments
<1>4. /\ drawer' \in Int /\ customer'.credit \in Int /\ customer'.spent \in Int
      /\ customer' = [credit |-> customer'.credit, points |-> customer'.points, spent |-> customer'.spent]
      /\ Gathered' = Gathered + PaidIn(ps)
  <2>1. customer' = [customer EXCEPT !.credit = @ - PaidBy(ps, "store_credit")] /\ drawer' = drawer + PaidBy(ps, "cash")
    BY DEF Sell, TakePayments
  <2> QED BY <1>2, <1>3, <2>1, PaymentsTaken
<1>5. PICK due \in Int : sale' = [offer |-> o, status |-> "completed", due |-> due] /\ debt' = NewDebt(due)
  <2>1. AmountDue(TotalOf(o), PaidIn(ps)) \in Int
    BY <1>3, TotalInt, PaidTypes DEF AmountDue
  <2> QED BY <2>1 DEF Sell
<1>6. debt'.collected = 0 /\ (debt'.status = "None" => debt'.outstanding = 0)
  BY <1>5, NewDebtFacts
<1>7. sale'.status = "completed" /\ sale'.offer = o
  BY <1>5
<1>8. shelf' = [shelf EXCEPT !.sellable = -o.copies]
  BY DEF Sell
<1>9. /\ shelf' = [sellable |-> shelf'.sellable, damaged |-> 0, tradeIn |-> shelf'.tradeIn]
      /\ shelf'.sellable = -o.copies
  BY <1>2, <1>8 DEF Untouched
<1>10. Gathered' = PaidIn(tenders') + debt'.collected
  <2>1. PICK x \in Int : x = PaidIn(ps)
    BY <1>3, PaidTypes
  <2> QED BY <1>2, <1>3, <1>4, <1>6, <2>1
<1>11. (PaidIn(tenders))' = PaidIn(tenders')
  BY DEF PaidIn, SumFunction
<1> QED BY <1>3, <1>4, <1>6, <1>7, <1>9, <1>10, <1>11 DEF NothingBackYet, Untouched

\* What an exchange pays and is paid
LEMMA ExchangeTenders ==
  ASSUME NEW o \in Offers, NEW ps \in Payments, NEW onCredit \in BOOLEAN, NEW m \in Method, Exchange(o, ps, onCredit, m)
  PROVE  /\ tenders' \in Seq(Tender)
         /\ SettlementType(TotalOf(o)) = "Store_Refunds" => PaidIn(tenders') = PaidIn(ps) + TotalOf(o)
         /\ SettlementType(TotalOf(o)) # "Store_Refunds" => tenders' = ps
<1>1. ps \in Seq(Tender) /\ ps \o <<>> = ps
  BY PaymentsAreTenders
<1>2. PICK n \in Int : n = TotalOf(o)
  BY TotalInt
<1>3. PICK t : t = [method |-> m, amount |-> n]
  OBVIOUS
<1>4. t \in Tender /\ t.amount = n
  BY <1>3 DEF Tender
<1>5. PICK qs : qs = tenders'
  OBVIOUS
<1>6. CASE SettlementType(n) = "Store_Refunds"
  <2>1. qs = With(ps, t)
    BY <1>2, <1>3, <1>5, <1>6 DEF Exchange, With
  <2>2. qs \in Seq(Tender) /\ PaidIn(qs) = PaidIn(ps) + n
    BY <1>1, <1>4, <2>1, PaidOneMore
  <2> QED BY <1>2, <1>5, <1>6, <2>2
<1>7. CASE SettlementType(n) # "Store_Refunds"
  <2>1. qs = ps
    BY <1>1, <1>2, <1>5, <1>7 DEF Exchange
  <2> QED BY <1>1, <1>2, <1>5, <1>7, <2>1
<1> QED BY <1>6, <1>7

LEMMA ExchangeNothingBack ==
  ASSUME IInv, NothingBackYet, NEW o \in Offers, NEW ps \in Payments, NEW onCredit \in BOOLEAN, NEW m \in Method,
         Exchange(o, ps, onCredit, m)
  PROVE  NothingBackYet'
<1>1. sale.status = "none" /\ ~back.returns /\ back' = back
  BY DEF Exchange, IInv, FeeFollowsTheJob
<1>2. Untouched /\ tenders = <<>> /\ Gathered = 0 /\ drawer = 0
  BY <1>1 DEF NothingBackYet, Untouched
<1>3. PICK qs : qs = tenders'
  OBVIOUS
<1>4. qs \in Seq(Tender)
  BY <1>3, ExchangeTenders
<1>5. PICK x \in Int, c \in Int : x = PaidIn(qs) /\ c = PaidBy(qs, "cash")
  BY <1>4, PaidTypes
<1>6. drawer' = drawer + PaidBy(qs, "cash") /\ customer' = [customer EXCEPT !.credit = @ - PaidBy(qs, "store_credit")]
  BY <1>2, <1>3, <1>5 DEF Exchange
<1>7. /\ drawer' \in Int /\ customer'.credit \in Int /\ customer'.spent \in Int
      /\ customer' = [credit |-> customer'.credit, points |-> customer'.points, spent |-> customer'.spent]
      /\ Gathered' = Gathered + PaidIn(qs)
  BY <1>2, <1>4, <1>6, PaymentsTaken
<1>8. PICK owed \in Int : debt' = NewDebt(owed)
  <2>1. TotalOf(o) \in Int /\ PaidIn(ps) \in Int
    BY PaymentsAreTenders, TotalInt, PaidTypes
  <2>2. debt' = NewDebt(IF SettlementType(TotalOf(o)) = "Customer_Pays" THEN TotalOf(o) - PaidIn(ps) ELSE 0)
    BY DEF Exchange
  <2> QED BY <2>1, <2>2
<1>9. debt'.collected = 0 /\ (debt'.status = "None" => debt'.outstanding = 0)
  BY <1>8, NewDebtFacts
<1>10. sale'.status = "completed" /\ sale'.offer = o
  BY DEF Exchange
<1>11. /\ shelf' = [sellable |-> shelf'.sellable, damaged |-> 0, tradeIn |-> shelf'.tradeIn]
       /\ shelf'.sellable = -o.copies
  <2>1. shelf' = [shelf EXCEPT !.sellable = -o.copies, !.tradeIn = 1]
    BY DEF Exchange
  <2>2. PICK one : one = [shelf EXCEPT !.sellable = -o.copies]
    OBVIOUS
  <2>3. one = [sellable |-> one.sellable, damaged |-> 0, tradeIn |-> one.tradeIn] /\ one.sellable = -o.copies
    BY <1>2, <2>2 DEF Untouched
  <2>4. shelf' = [one EXCEPT !.tradeIn = 1]
    BY <2>1, <2>2
  <2> QED BY <2>3, <2>4
<1>12. Gathered' = PaidIn(tenders') + debt'.collected
  BY <1>2, <1>3, <1>5, <1>7, <1>9
<1>13. (PaidIn(tenders))' = PaidIn(tenders')
  BY DEF PaidIn, SumFunction
<1> QED BY <1>3, <1>4, <1>7, <1>9, <1>10, <1>11, <1>12, <1>13 DEF NothingBackYet, Untouched

LEMMA AfterPayment ==
  ASSUME IInv, NEW owed
  PROVE  /\ DebtAfterPayment(owed) = [status |-> DebtAfterPayment(owed).status, outstanding |-> DebtAfterPayment(owed).outstanding,
                                      collected |-> debt.collected, writtenOff |-> debt.writtenOff]
         /\ DebtAfterPayment(owed).status = "None" <=> debt.status = "None"
         /\ debt.status = "None" => DebtAfterPayment(owed).outstanding = debt.outstanding
<1>1. debt = [status |-> debt.status, outstanding |-> debt.outstanding, collected |-> debt.collected,
             writtenOff |-> debt.writtenOff]
  BY DEF IInv, Shape
<1> QED BY <1>1 DEF DebtAfterPayment

LEMMA OneTender ==
  ASSUME NEW m \in Method, NEW amount \in Amounts, NEW t, t = [method |-> m, amount |-> amount]
  PROVE  /\ t \in Tender /\ <<t>> \in Seq(Tender) /\ amount \in Nat /\ amount > 0 /\ t.method = m /\ t.amount = amount
         /\ PaidIn(<<t>>) = amount /\ \A n : PaidBy(<<t>>, n) = IF n = m THEN amount ELSE 0
<1>1. amount \in Nat /\ amount > 0
  BY CounterAssumption
<1>2. t \in Tender /\ t.method = m /\ t.amount = amount
  BY <1>1 DEF Tender
<1>3. PICK none : none = <<>>
  OBVIOUS
<1>4. none \in Seq(Tender)
  BY <1>3
<1>5. PICK qs : qs = <<t>>
  OBVIOUS
<1>6. qs = With(none, t)
  BY <1>3, <1>5 DEF With
<1>7. /\ qs \in Seq(Tender) /\ PaidIn(qs) = PaidIn(none) + t.amount
      /\ \A n : PaidBy(qs, n) = PaidBy(none, n) + (IF t.method = n THEN t.amount ELSE 0)
  BY <1>2, <1>4, <1>6, PaidOneMore
<1> QED BY <1>1, <1>2, <1>3, <1>5, <1>7, PaidNothing

LEMMA CollectNothingBack ==
  ASSUME IInv, NothingBackYet, NEW m \in Method, NEW amount \in Amounts, Collect(m, amount) PROVE NothingBackYet'
<1> SUFFICES ASSUME ~back.returns PROVE Untouched'
  BY DEF NothingBackYet, Collect
<1>1. Untouched /\ sale.status = "completed"
  BY DEF NothingBackYet, Collect, CanCollect
<1>2. PICK t : t = [method |-> m, amount |-> amount]
  OBVIOUS
<1>3. /\ t \in Tender /\ <<t>> \in Seq(Tender) /\ amount \in Nat /\ t.amount = amount /\ PaidIn(<<t>>) = amount
  BY <1>2, OneTender
<1>4. PICK qs : qs = tenders'
  OBVIOUS
<1>5. qs = With(tenders, t) /\ drawer' = drawer + PaidBy(<<t>>, "cash")
      /\ customer' = [customer EXCEPT !.credit = @ - PaidBy(<<t>>, "store_credit")]
  BY <1>2, <1>4 DEF Collect, TakePayments, With
<1>6. /\ drawer' \in Int /\ customer'.credit \in Int /\ customer'.spent \in Int
      /\ customer' = [credit |-> customer'.credit, points |-> customer'.points, spent |-> customer'.spent]
      /\ Gathered' = Gathered + amount
  BY <1>1, <1>3, <1>5, PaymentsTaken
<1>7. qs \in Seq(Tender) /\ PaidIn(qs) = PaidIn(tenders) + amount
  <2>1. tenders \in Seq(Tender)
    BY <1>1 DEF Untouched
  <2> QED BY <1>3, <1>5, <2>1, PaidOneMore
<1>8. PICK due : debt' = DebtAfterPayment(due) /\ sale' = [sale EXCEPT !.due = due]
  BY DEF Collect
<1>9. debt'.collected = debt.collected /\ (debt'.status = "None" => debt.status = "None" /\ debt'.outstanding = debt.outstanding)
  BY <1>8, AfterPayment
<1>10. sale'.status = "completed" /\ sale'.offer = sale.offer /\ shelf' = shelf
  BY <1>1, <1>8 DEF IInv, Shape, Collect
<1>11. Gathered' = PaidIn(tenders') + debt'.collected
  <2>1. Gathered = PaidIn(tenders) + debt.collected /\ debt.collected \in Int
    BY <1>1 DEF Untouched
  <2>2. PICK x \in Int : x = PaidIn(tenders)
    BY <1>1, PaidTypes DEF Untouched
  <2> QED BY <1>3, <1>4, <1>6, <1>7, <1>9, <2>1, <2>2
<1>12. (PaidIn(tenders))' = PaidIn(tenders')
  BY DEF PaidIn, SumFunction
<1> QED BY <1>1, <1>4, <1>6, <1>7, <1>9, <1>10, <1>11, <1>12 DEF Untouched

LEMMA CollectDebtNothingBack ==
  ASSUME IInv, NothingBackYet, NEW m \in Method, NEW amount \in Amounts, CollectDebt(m, amount) PROVE NothingBackYet'
<1> SUFFICES ASSUME ~back.returns PROVE Untouched'
  BY DEF NothingBackYet, CollectDebt
<1>1. Untouched /\ sale.status # "voided" /\ debt.status = "Open"
  BY DEF NothingBackYet, CollectDebt, IInv, VoidedIsOver
<1>2. amount \in Nat /\ debt.collected \in Int /\ InitialCredit \in Int
  BY <1>1, CounterAssumption DEF Untouched
<1>3. PICK d : d = DebtAfterPayment(debt.outstanding - amount)
  OBVIOUS
<1>4. debt' = [d EXCEPT !.collected = @ + amount]
  BY <1>3 DEF CollectDebt
<1>5. /\ d = [status |-> d.status, outstanding |-> d.outstanding, collected |-> debt.collected, writtenOff |-> debt.writtenOff]
      /\ d.status # "None"
  BY <1>1, <1>3, AfterPayment
<1>6. debt'.collected = debt.collected + amount /\ debt'.status # "None"
  BY <1>4, <1>5
<1>7. /\ customer = [credit |-> customer.credit, points |-> customer.points, spent |-> customer.spent]
      /\ customer.credit \in Int /\ customer.spent \in Int /\ drawer \in Int
  BY <1>1 DEF Untouched
<1>8. /\ drawer' \in Int /\ customer'.credit \in Int /\ customer'.spent \in Int
      /\ customer' = [credit |-> customer'.credit, points |-> customer'.points, spent |-> customer'.spent]
      /\ Gathered' = Gathered + amount
  <2>1. CASE m = "cash"
    <3>1. drawer' = drawer + amount /\ customer' = customer
      BY <2>1 DEF CollectDebt
    <3> QED BY <1>2, <1>7, <3>1 DEF Gathered
  <2>2. CASE m = "store_credit"
    <3>1. drawer' = drawer /\ customer' = [customer EXCEPT !.credit = @ - amount]
      BY <2>2 DEF CollectDebt
    <3>2. /\ customer'.credit = customer.credit - amount /\ customer'.spent = customer.spent
          /\ customer' = [credit |-> customer'.credit, points |-> customer'.points, spent |-> customer'.spent]
      BY <1>7, <3>1
    <3>3. Gathered' = Gathered + amount
      BY <1>2, <1>7, <3>1, <3>2 DEF Gathered
    <3> QED BY <1>2, <1>7, <3>1, <3>2, <3>3
  <2> QED BY <2>1, <2>2 DEF Method
<1>9. Gathered' = PaidIn(tenders') + debt'.collected
  <2>1. Gathered = PaidIn(tenders) + debt.collected /\ tenders' = tenders
    BY <1>1 DEF Untouched, CollectDebt
  <2>2. PICK x \in Int : x = PaidIn(tenders)
    BY <1>1, PaidTypes DEF Untouched
  <2> QED BY <1>2, <1>6, <1>8, <2>1, <2>2
<1>10. (PaidIn(tenders))' = PaidIn(tenders')
  BY DEF PaidIn, SumFunction
<1>11. sale' = sale /\ tenders' = tenders /\ shelf' = shelf /\ sale.status # "none"
  BY <1>1 DEF CollectDebt, Untouched
<1> QED BY <1>1, <1>2, <1>6, <1>8, <1>9, <1>10, <1>11 DEF Untouched

LEMMA SpendNothingBack == ASSUME NothingBackYet, SpendElsewhere PROVE NothingBackYet'
<1> SUFFICES ASSUME ~back.returns PROVE Untouched'
  BY DEF NothingBackYet, SpendElsewhere
<1>1. Untouched
  BY DEF NothingBackYet, SpendElsewhere
<1>2. customer' = [credit |-> 0, points |-> 0, spent |-> customer.spent + customer.credit]
  BY DEF SpendElsewhere
<1>3. customer.spent \in Int /\ customer.credit \in Int /\ InitialCredit \in Int /\ drawer \in Int
  BY <1>1, CounterAssumption DEF Untouched
<1>4. customer'.spent \in Int /\ customer'.credit \in Int /\ customer'.points = 0
      /\ customer'.credit = 0 /\ customer'.spent = customer.spent + customer.credit
  BY <1>2, <1>3
<1>5. drawer' = drawer
  BY DEF SpendElsewhere
<1>6. Gathered' = Gathered
  BY <1>3, <1>4, <1>5 DEF Gathered
<1> QED BY <1>1, <1>2, <1>4, <1>6 DEF Untouched, SpendElsewhere

LEMMA AccrueNothingBack == ASSUME NothingBackYet, Accrue PROVE NothingBackYet'
<1> SUFFICES ASSUME ~back.returns PROVE Untouched'
  BY DEF NothingBackYet, Accrue
<1>1. Untouched
  BY DEF NothingBackYet, Accrue
<1>2. customer' = [customer EXCEPT !.points = @ + Earned]
  BY DEF Accrue
<1>3. customer'.credit = customer.credit /\ customer'.spent = customer.spent
      /\ customer' = [credit |-> customer'.credit, points |-> customer'.points, spent |-> customer'.spent]
  BY <1>1, <1>2 DEF Untouched
<1>4. drawer' = drawer
  BY DEF Accrue
<1>5. Gathered' = Gathered
  BY <1>3, <1>4 DEF Gathered
<1> QED BY <1>1, <1>3, <1>5 DEF Untouched, Accrue

LEMMA VoidNothingBack == ASSUME IInv, NothingBackYet, NEW w \in Worker, Void(w) PROVE NothingBackYet'
<1> SUFFICES ASSUME ~back.returns PROVE Untouched'
  BY DEF NothingBackYet, Void
<1>1. Untouched /\ sale.status = "completed" /\ tenders' = tenders /\ back' = back
  BY DEF NothingBackYet, Void, IInv, LocksHold, HoldsSale
<1>2. CASE JobCancellable(job) /\ debt.status # "WrittenOff" /\ CreditUnspent
  <2>1. /\ sale' = [sale EXCEPT !.status = "voided"]
        /\ debt' = DebtAfterVoid(debt)
        /\ shelf' = [shelf EXCEPT !.sellable = @ + sale.offer.copies, !.tradeIn = 0]
        /\ drawer' = drawer - HandedBack(tenders)["cash"]
    BY <1>2 DEF Void
  <2>2. PICK gone : customer' = [customer EXCEPT !.credit = @ + HandedBack(tenders)["store_credit"], !.points = @ - gone]
    BY <1>2 DEF Void
  <2>3. tenders \in Seq(Tender)
    BY <1>1 DEF Untouched
  <2>4. PICK c \in Int, s \in Int : c = PaidBy(tenders, "cash") /\ s = PaidBy(tenders, "store_credit")
    BY <2>3, PaidTypes
  <2>5. PaidIn(tenders) = c + s
    BY <2>3, <2>4, PaidByMethods
  <2>6. HandedBack(tenders)["cash"] = c /\ HandedBack(tenders)["store_credit"] = s
    BY <2>4 DEF HandedBack, Method
  <2>7. /\ customer = [credit |-> customer.credit, points |-> customer.points, spent |-> customer.spent]
        /\ customer.credit \in Int /\ customer.spent \in Int /\ drawer \in Int /\ debt.collected \in Int
        /\ InitialCredit \in Int
    BY <1>1, CounterAssumption DEF Untouched
  <2>8. /\ customer'.credit = customer.credit + s /\ customer'.spent = customer.spent
        /\ customer' = [credit |-> customer'.credit, points |-> customer'.points, spent |-> customer'.spent]
    <3>1. PICK one : one = [customer EXCEPT !.credit = @ + s]
      OBVIOUS
    <3>2. one = [credit |-> customer.credit + s, points |-> customer.points, spent |-> customer.spent]
      BY <2>7, <3>1
    <3>3. customer' = [one EXCEPT !.points = @ - gone]
      BY <2>2, <2>6, <3>1
    <3> QED BY <3>2, <3>3
  <2>9. /\ debt'.collected = debt.collected /\ debt'.outstanding = 0
        /\ debt'.status = "None" => debt'.outstanding = 0
    <3>1. debt = [status |-> debt.status, outstanding |-> debt.outstanding, collected |-> debt.collected,
                 writtenOff |-> debt.writtenOff]
      BY DEF IInv, Shape
    <3>2. debt.status = "None" => debt.outstanding = 0
      BY <1>1 DEF Untouched
    <3>3. CASE debt.status = "None"
      BY <2>1, <3>2, <3>3 DEF DebtAfterVoid
    <3>4. CASE debt.status # "None"
      BY <2>1, <3>1, <3>4 DEF DebtAfterVoid
    <3> QED BY <3>3, <3>4
  <2>10. shelf' = [sellable |-> 0, damaged |-> 0, tradeIn |-> 0]
    <3>1. shelf = [sellable |-> shelf.sellable, damaged |-> 0, tradeIn |-> shelf.tradeIn]
          /\ shelf.sellable = -sale.offer.copies
      BY <1>1 DEF Untouched
    <3>2. PICK n \in Nat : n = sale.offer.copies
      BY PriceFacts DEF IInv, Shape
    <3>3. PICK one : one = [shelf EXCEPT !.sellable = @ + sale.offer.copies]
      OBVIOUS
    <3>4. one = [sellable |-> 0, damaged |-> 0, tradeIn |-> shelf.tradeIn]
      BY <3>1, <3>2, <3>3
    <3>5. shelf' = [one EXCEPT !.tradeIn = 0]
      BY <2>1, <3>3
    <3> QED BY <3>4, <3>5
  <2>11. Gathered' = debt'.collected
    <3>1. drawer' = drawer - c
      BY <2>1, <2>6
    <3>2. Gathered = c + s + debt.collected
      BY <1>1, <2>5 DEF Untouched
    <3> QED BY <2>7, <2>8, <2>9, <3>1, <3>2 DEF Gathered
  <2>12. sale'.status = "voided"
    BY <2>1 DEF IInv, Shape
  <2>13. drawer' \in Int /\ customer'.credit \in Int
    BY <2>1, <2>6, <2>7, <2>8
  <2> QED BY <1>1, <2>3, <2>7, <2>8, <2>9, <2>10, <2>11, <2>12, <2>13 DEF Untouched
<1>3. CASE ~(JobCancellable(job) /\ debt.status # "WrittenOff" /\ CreditUnspent)
  <2>1. UNCHANGED <<sale, job, debt, shelf, drawer, customer>>
    BY <1>3 DEF Void
  <2>2. NothingBackYet'
    BY <1>1, <2>1, NothingMoves
  <2> QED BY <1>1, <2>2 DEF NothingBackYet
<1> QED BY <1>2, <1>3

\* Once something came back, it stays so.
LEMMA SettledNothingBack ==
  ASSUME NEW copies, NEW bound, NEW value, NEW fee, NEW only, Settle(copies, bound, value, fee, only)
  PROVE  NothingBackYet'
<1>1. back'.returns = TRUE
  BY DEF Settle
<1> QED BY <1>1 DEF NothingBackYet

LEMMA NextNothingBack == ASSUME IInv, NothingBackYet, Next PROVE NothingBackYet'
<1>1. ASSUME NEW o \in Offers, NEW ps \in Payments, NEW onCredit \in BOOLEAN,
             Sell(o, ps, onCredit) \/ \E m \in Method : Exchange(o, ps, onCredit, m)
      PROVE  NothingBackYet'
  BY <1>1, SellNothingBack, ExchangeNothingBack
<1>2. ASSUME NEW m \in Method, NEW amount \in Amounts, Collect(m, amount) \/ CollectDebt(m, amount) PROVE NothingBackYet'
  BY <1>2, CollectNothingBack, CollectDebtNothingBack
<1>3. CASE WriteOff
  <2>1. debt' = [debt EXCEPT !.status = "WrittenOff", !.outstanding = 0, !.writtenOff = debt.outstanding]
        /\ UNCHANGED <<sale, tenders, drawer, customer, shelf, back>>
    BY <1>3 DEF WriteOff, moneyVars
  <2>2. debt'.collected = debt.collected /\ debt'.status = "WrittenOff" /\ debt'.outstanding = 0 /\ debt.status = "Open"
    BY <1>3, <2>1 DEF WriteOff, IInv, Shape
  <2> QED BY <2>1, <2>2, NothingMoves
<1>4. CASE Accrue \/ SpendElsewhere
  BY <1>4, AccrueNothingBack, SpendNothingBack
<1>5. CASE StepJob \/ TimePasses
  BY <1>5, NothingMoves DEF StepJob, TimePasses, moneyVars
<1>6. ASSUME NEW w \in Worker, AskVoid(w) \/ LockForVoid(w) \/ LockForReturn(w) \/ LockForCancel(w) \/ Rollback(w)
      PROVE  NothingBackYet'
  BY <1>6, NothingMoves DEF AskVoid, LockForVoid, LockForReturn, LockForCancel, Rollback, moneyVars
<1>7. ASSUME NEW w \in Worker, Void(w) PROVE NothingBackYet'
  BY <1>7, VoidNothingBack
<1>8. ASSUME NEW w \in Worker, NEW afterWindow \in AfterWindow,
             CancelBinding(w, afterWindow) \/ \E plain, defective \in 0..sale.offer.copies, damaged \in BOOLEAN :
                                                 Return(w, plain, defective, damaged, afterWindow)
      PROVE  NothingBackYet'
  BY <1>8, SettledNothingBack DEF CancelBinding, Return
<1> QED BY <1>1, <1>2, <1>3, <1>4, <1>5, <1>6, <1>7, <1>8 DEF Next

\* A void of which no return was raced leaves nothing of the sale: what was paid in cash is out
\* of the drawer and what was paid in store credit back on the account, but for what was
\* collected on an exchange's debt; the copies are in the shop, no debt is open, no job waits
\* (voidTransaction, voidExchange).
THEOREM VoidsAreAlwaysWhole == Spec => []VoidsAreWhole
<1>1. IInv /\ NothingBackYet => VoidsAreWhole
  <2> SUFFICES ASSUME IInv, NothingBackYet PROVE VoidsAreWhole
    OBVIOUS
  <2>1. VoidedOverReturnOnlyIfRaced
    BY DEF IInv, UnseenReturnsRaced
  <2>2. ASSUME sale.status = "voided", ~raced
        PROVE  /\ Gathered = debt.collected /\ shelf = [sellable |-> 0, damaged |-> 0, tradeIn |-> 0]
               /\ debt.outstanding = 0 /\ job \in {"none", "CANCELLED"}
    <3>1. ~back.returns
      BY <2>1, <2>2 DEF VoidedOverReturnOnlyIfRaced, HasReturns
    <3> QED BY <2>2, <3>1 DEF NothingBackYet, Untouched, IInv, VoidedIsOver
  <2> QED BY <2>1, <2>2 DEF VoidsAreWhole, VoidLeavesNothing, Gathered
<1>2. ASSUME NothingBackYet, UNCHANGED vars PROVE NothingBackYet'
  BY <1>2, NothingMoves DEF vars
<1>3. IInv /\ NothingBackYet /\ [Next]_vars => NothingBackYet'
  BY <1>2, NextNothingBack
<1> QED BY <1>1, <1>3, InitNothingBack, Inductive, PTL DEF Spec

-----------------------------------------------------------------------------
(* Shares of a price.  A share is worth at most half a unit and half a     *)
(* cent too much; shares of all copies but the last are within the price   *)
(* if the copies cost so much more than that.                              *)

CostsEnough(whole, all) == whole = 0 \/ 2 * whole >= all * (all - 1) * (Cent + 1)

\* Every line and every binding fee on offer costs so much.
OffersCostEnough == \A o \in Offers : CostsEnough(o.price, o.copies) /\ CostsEnough(o.fee, o.bound)

\* v can be what k of `all` copies were worth
Fits(whole, all, k, v) ==
  /\ v \in Nat /\ k \in 0..all
  /\ k = all => v = whole
  /\ whole = 0 => v = 0
  /\ 2 * (all * v) <= k * (2 * whole + all * (Cent + 1))

LEMMA Rounded ==
  ASSUME NEW a \in Nat, NEW b \in Nat, b > 0
  PROVE  Rounding!DivRound(a, b) \in Nat /\ 2 * (b * Rounding!DivRound(a, b)) <= 2 * a + b
<1>1. PICK d \in Nat : d = 2 * b /\ d > 0
  OBVIOUS
<1>2. PICK x \in Nat : x = 2 * a + b
  OBVIOUS
<1>3. PICK q : q = x \div d
  OBVIOUS
<1>4. q \in Nat /\ d * q <= x
  BY <1>1, <1>3, SMT
<1>5. d * q = 2 * (b * q)
  BY <1>1, <1>4, SMT
<1> QED BY <1>1, <1>2, <1>3, <1>4, <1>5 DEF Rounding!DivRound

LEMMA CentNat == Cent \in Nat /\ Cent > 0
  BY CounterRulesAssumption

\* The parts of a product can be put together in any order.
LEMMA Associate ==
  ASSUME NEW a \in Int, NEW b \in Int, NEW c \in Int
  PROVE  (a * b) * c = a * (b * c) /\ a * (b * c) = b * (a * c) /\ a * b \in Int /\ a * b = b * a
  BY SMT

LEMMA Distribute ==
  ASSUME NEW a \in Int, NEW b \in Int, NEW c \in Int
  PROVE  a * (b + c) = a * b + a * c /\ a * (b - c) = a * b - a * c /\ a * b \in Int
  BY SMT

LEMMA Grows ==
  ASSUME NEW a \in Nat, NEW b \in Int, NEW c \in Int, b <= c
  PROVE  a * b <= a * c /\ a * b \in Int /\ a * c \in Int
  BY SMT

LEMMA ShareAtMost ==
  ASSUME NEW whole \in Nat, NEW some \in Nat, NEW all \in Nat, all > 0
  PROVE  /\ Share(whole, some, all) \in Nat
         /\ 2 * (all * Share(whole, some, all)) <= 2 * (whole * some) + all * (Cent + 1)
         /\ some = 0 \/ whole = 0 => Share(whole, some, all) = 0
<1>1. PICK c \in Nat : c = Cent /\ c > 0
  BY CentNat
<1>2. PICK a \in Nat : a = whole * some
  BY SMT
<1>3. PICK x : x = Rounding!DivRound(a, all)
  OBVIOUS
<1>4. x \in Nat /\ 2 * (all * x) <= 2 * a + all
  BY <1>3, Rounded
<1>5. PICK q : q = Rounding!DivRound(x, c)
  OBVIOUS
<1>6. q \in Nat /\ 2 * (c * q) <= 2 * x + c
  BY <1>1, <1>4, <1>5, Rounded
<1>7. PICK s \in Nat : s = q * c
  BY <1>6, SMT
<1>8. Share(whole, some, all) = s
  BY <1>1, <1>2, <1>3, <1>5, <1>7 DEF Share, Rounding!RoundToCent
<1>9. 2 * s <= 2 * x + c
  BY <1>6, <1>7, Associate
<1>10. all * (2 * s) <= all * (2 * x + c)
  <2>1. PICK y \in Int, z \in Int : y = 2 * s /\ z = 2 * x + c
    BY <1>4
  <2> QED BY <1>9, <2>1, Grows
<1>11. all * (2 * s) = 2 * (all * s)
  BY Associate
<1>12. all * (2 * x + c) = 2 * (all * x) + all * c
  BY <1>4, SMT
<1>13. all * (c + 1) = all * c + all
  BY SMT
<1>14. 2 * (all * s) <= 2 * a + all * (c + 1)
  <2>1. PICK i \in Int : i = all * x
    BY <1>4, Distribute
  <2>2. PICK j \in Int : j = all * c
    BY Distribute
  <2> QED BY <1>4, <1>10, <1>11, <1>12, <1>13, <2>1, <2>2
<1>15. ASSUME some = 0 \/ whole = 0 PROVE s = 0
  <2>1. a = 0
    BY <1>2, <1>15, SMT
  <2>2. x = 0
    BY <1>3, <2>1, SMT DEF Rounding!DivRound
  <2>3. q = 0
    BY <1>1, <1>5, <2>2, SMT DEF Rounding!DivRound
  <2> QED BY <1>7, <2>3
<1> QED BY <1>1, <1>2, <1>8, <1>14, <1>15

\* What some of the copies were worth is within the price, and what is left when they are all
\* back is all of it.
LEMMA FitsWithin ==
  ASSUME NEW whole \in Nat, NEW all \in Nat, NEW k \in Nat, NEW v \in Nat,
         Fits(whole, all, k, v), CostsEnough(whole, all)
  PROVE  v <= whole
<1> SUFFICES ASSUME k # all, whole # 0 PROVE v <= whole
  BY DEF Fits
<1>1. PICK c \in Nat : c = Cent + 1
  BY CentNat
<1>2. PICK n \in Nat : n = all - 1 /\ k <= n /\ all = n + 1
  BY DEF Fits
<1>3. PICK p \in Nat : p = all * (n * c)
  BY <1>2, SMT
<1>4. p <= 2 * whole
  <2>1. (all * (all - 1)) * (Cent + 1) = p
    BY <1>1, <1>2, <1>3, Associate
  <2> QED BY <2>1 DEF CostsEnough
<1>5. PICK x \in Nat : x = 2 * whole + all * c
  BY <1>1, SMT
<1>6. k * x <= n * x
  <2>1. k * x = x * k /\ n * x = x * n /\ x * k <= x * n
    BY <1>2, <1>5, Grows, Associate
  <2> QED BY <2>1
<1>7. n * x = 2 * (n * whole) + p
  <2>1. n * x = n * (2 * whole) + n * (all * c)
    BY <1>5, <1>2, <1>1, SMT
  <2>2. n * (all * c) = p
    BY <1>1, <1>2, <1>3, Associate
  <2>3. n * (2 * whole) = 2 * (n * whole)
    BY <1>2, Associate
  <2> QED BY <2>1, <2>2, <2>3
<1>8. all * whole = n * whole + whole
  BY <1>2, SMT
<1>9. 2 * (all * v) <= 2 * (all * whole)
  <2>1. 2 * (all * v) <= k * x
    BY <1>1, <1>5 DEF Fits
  <2>2. PICK i \in Int : i = n * whole
    BY <1>2, Distribute
  <2>3. n * x = 2 * i + p /\ all * whole = i + whole
    BY <1>7, <1>8, <2>2
  <2>4. PICK a \in Int, b \in Int, d \in Int : a = all * v /\ b = k * x /\ d = n * x
    BY <1>2, <1>5, Distribute
  <2> QED BY <1>4, <1>6, <2>1, <2>2, <2>3, <2>4
<1>10. all * v <= all * whole
  <2>1. PICK a \in Int, b \in Int : a = all * v /\ b = all * whole
    BY Distribute
  <2> QED BY <1>9, <2>1
<1>11. all > 0
  BY <1>2
<1> QED BY <1>10, <1>11, SMT

\* All of it fits.
LEMMA FitsAll ==
  ASSUME NEW whole \in Nat, NEW all \in Nat
  PROVE  Fits(whole, all, all, whole)
<1>1. PICK c \in Nat : c = Cent + 1
  BY CentNat
<1>2. PICK i \in Nat : i = all * whole
  BY SMT
<1>3. PICK j \in Nat : j = all * (all * c)
  BY <1>1, SMT
<1>4. all * (2 * whole + all * c) = 2 * i + j
  <2>1. all * (2 * whole + all * c) = all * (2 * whole) + all * (all * c)
    BY <1>1, SMT
  <2>2. all * (2 * whole) = 2 * (all * whole)
    BY Associate
  <2> QED BY <1>2, <1>3, <2>1, <2>2
<1> QED BY <1>1, <1>2, <1>3, <1>4 DEF Fits

LEMMA FitsShare ==
  ASSUME NEW whole \in Nat, NEW all \in Nat, NEW k \in Nat, NEW v \in Nat, NEW q \in Nat,
         Fits(whole, all, k, v), k + q < all
  PROVE  Share(whole, q, all) \in Nat /\ Fits(whole, all, k + q, v + Share(whole, q, all))
<1>1. PICK c \in Nat : c = Cent + 1
  BY CentNat
<1>2. all > 0
  OBVIOUS
<1>3. PICK s : s = Share(whole, q, all)
  OBVIOUS
<1>4. /\ s \in Nat /\ 2 * (all * s) <= 2 * (whole * q) + all * c
      /\ q = 0 \/ whole = 0 => s = 0
  BY <1>1, <1>2, <1>3, ShareAtMost
<1>5. PICK x \in Nat : x = 2 * whole + all * c
  BY <1>1, SMT
<1>6. 2 * (all * s) <= q * x
  <2>1. CASE q = 0
    <3>1. s = 0
      BY <1>4, <2>1
    <3> QED BY <1>5, <2>1, <3>1
  <2>2. CASE q # 0
    <3>1. PICK r \in Nat : q = r + 1
      BY <2>2
    <3>2. PICK y \in Nat : y = all * c
      BY <1>1, SMT
    <3>3. q * x = q * (2 * whole) + q * y
      BY <1>5, <3>2, SMT
    <3>4. q * (2 * whole) = 2 * (whole * q)
      BY SMT
    <3>5. q * y >= y
      BY <3>1, <3>2, SMT
    <3>6. PICK a \in Int, b \in Int, d \in Int : a = q * y /\ b = whole * q /\ d = all * s
      BY <1>4, <3>2, Distribute
    <3> QED BY <1>4, <3>2, <3>3, <3>4, <3>5, <3>6
  <2> QED BY <2>1, <2>2
<1>7. 2 * (all * v) <= k * x
  BY <1>1, <1>5 DEF Fits
<1>8. 2 * (all * (v + s)) <= (k + q) * x
  <2>1. all * (v + s) = all * v + all * s
    BY <1>4, Distribute
  <2>2. (k + q) * x = k * x + q * x
    BY <1>5, SMT
  <2>3. PICK a \in Int, b \in Int : a = all * v /\ b = all * s
    BY <1>4, Distribute
  <2>4. PICK e \in Int, f \in Int : e = k * x /\ f = q * x
    BY <1>5, Distribute
  <2> QED BY <1>6, <1>7, <2>1, <2>2, <2>3, <2>4
<1>9. whole = 0 => v + s = 0
  BY <1>4 DEF Fits
<1>10. v + s \in Nat /\ k + q \in 0..all /\ k + q # all
  BY <1>4
<1> QED BY <1>1, <1>3, <1>4, <1>5, <1>8, <1>9, <1>10 DEF Fits

\* Copies that come back are worth nothing less than nothing, and what is back still fits.
LEMMA LineValueFits ==
  ASSUME NEW whole \in Nat, NEW all \in Nat, NEW k \in Nat, NEW v \in Nat, NEW q \in Nat, k + q <= all,
         Fits(whole, all, k, v), CostsEnough(whole, all)
  PROVE  /\ LineValue(whole, all, k, v, q) \in Nat
         /\ Fits(whole, all, k + q, v + LineValue(whole, all, k, v, q))
<1>1. CASE k + q = all
  <2>1. LineValue(whole, all, k, v, q) = whole - v
    BY <1>1 DEF LineValue
  <2>2. v <= whole
    BY FitsWithin
  <2>3. whole - v \in Nat /\ v + (whole - v) = whole
    BY <2>2
  <2> QED BY <1>1, <2>1, <2>3, FitsAll
<1>2. CASE k + q # all
  <2>1. LineValue(whole, all, k, v, q) = Share(whole, q, all)
    BY <1>2 DEF LineValue
  <2>2. k + q < all
    BY <1>2
  <2> QED BY <2>1, <2>2, FitsShare
<1> QED BY <1>1, <1>2

LEMMA FeeShareFits ==
  ASSUME NEW whole \in Nat, NEW all \in Nat, NEW k \in Nat, NEW v \in Nat, NEW q \in Nat, k + q <= all,
         Fits(whole, all, k, v), CostsEnough(whole, all)
  PROVE  /\ FeeShare(whole, all, k, v, q) \in Nat
         /\ Fits(whole, all, k + q, v + FeeShare(whole, all, k, v, q))
<1>1. CASE k + q = all
  <2>1. FeeShare(whole, all, k, v, q) = whole - v
    BY <1>1 DEF FeeShare
  <2>2. v <= whole
    BY FitsWithin
  <2>3. whole - v \in Nat /\ v + (whole - v) = whole
    BY <2>2
  <2> QED BY <1>1, <2>1, <2>3, FitsAll
<1>2. CASE k + q # all
  <2>1. FeeShare(whole, all, k, v, q) = Share(whole, q, all)
    BY <1>2 DEF FeeShare
  <2>2. k + q < all
    BY <1>2
  <2> QED BY <2>1, <2>2, FitsShare
<1> QED BY <1>1, <1>2

-----------------------------------------------------------------------------
(* How an amount is refunded.                                              *)

LEMMA LastPaidFacts ==
  ASSUME tenders \in Seq(Tender), NEW m
  PROVE  /\ LastPaid(m) \in Nat
         /\ LastPaid(m) = 0 => \A i \in DOMAIN tenders : tenders[i].method # m
         /\ LastPaid(m) # 0 => LastPaid(m) \in DOMAIN tenders /\ tenders[LastPaid(m)].method = m
<1>1. PICK S : S = {i \in DOMAIN tenders : tenders[i].method = m}
  OBVIOUS
<1>2. PICK T : T = {0} \cup S
  OBVIOUS
<1>3. DOMAIN tenders \subseteq Nat \ {0} /\ IsFiniteSet(DOMAIN tenders)
  BY PositionsFinite
<1>4. IsFiniteSet(S)
  BY <1>1, <1>3, FS_Subset
<1>5. IsFiniteSet({0})
  BY FS_Singleton
<1>6. IsFiniteSet(T) /\ T # {} /\ \A x \in T : x \in Int
  <2>1. IsFiniteSet(T)
    BY <1>2, <1>4, <1>5, FS_Union
  <2>2. 0 \in T /\ \A x \in T : x = 0 \/ x \in Nat \ {0}
    BY <1>1, <1>2, <1>3
  <2> QED BY <2>1, <2>2
<1>7. PICK l : l = Max(T)
  OBVIOUS
<1>8. l \in T /\ \A y \in T : l >= y
  BY <1>6, <1>7, LargestIsThere
<1>9. LastPaid(m) = l
  BY <1>1, <1>2, <1>7 DEF LastPaid
<1>10. l = 0 => S = {}
  <2> SUFFICES ASSUME l = 0, NEW y \in S PROVE FALSE
    OBVIOUS
  <2>1. y \in T /\ y \in Nat \ {0}
    BY <1>1, <1>2, <1>3
  <2> QED BY <1>8, <2>1
<1>11. l # 0 => l \in S
  BY <1>2, <1>8
<1>12. l \in Nat
  BY <1>1, <1>2, <1>3, <1>8
<1> QED BY <1>1, <1>9, <1>10, <1>11, <1>12

LEMMA NotPaidBy ==
  ASSUME NEW ps \in Seq(Tender), NEW m, \A i \in DOMAIN ps : ps[i].method # m
  PROVE  PaidBy(ps, m) = 0
<1>1. PICK f : f = AmountsBy(ps, m)
  OBVIOUS
<1>2. IsFiniteSet(DOMAIN ps) /\ \A i \in DOMAIN ps : f[i] = 0
  BY <1>1, PositionsFinite DEF AmountsBy
<1>3. SumFunctionOnSet(f, DOMAIN ps) = 0
  BY <1>2, SumZero
<1> QED BY <1>1, <1>3, PaidUnfolds

\* Sums over the two methods
LEMMA MethodsAdded ==
  ASSUME NEW f, DOMAIN f = Method, NEW a \in Int, NEW b \in Int, f["cash"] = a, f["store_credit"] = b
  PROVE  /\ SumFunction(f) = a + b
         /\ SumFunctionOnSet(f, {}) = 0
         /\ SumFunctionOnSet(f, {"cash"}) = a /\ SumFunctionOnSet(f, {"store_credit"}) = b
<1>1. PICK S : S = {"cash", "store_credit"}
  OBVIOUS
<1>2. IsFiniteSet({"cash"}) /\ IsFiniteSet({"store_credit"}) /\ IsFiniteSet({})
  BY FS_Singleton, FS_EmptySet
<1>3. S = {"cash"} \cup {"store_credit"}
  BY <1>1
<1>4. IsFiniteSet(S)
  BY <1>2, <1>3, FS_Union
<1>5. \A x \in S : f[x] \in Int
  BY <1>1
<1>6. SumFunctionOnSet(f, {}) = 0
  BY SumEmpty
<1>7. SumFunctionOnSet(f, {"cash"}) = f["cash"] + SumFunctionOnSet(f, {"cash"} \ {"cash"})
  <2>1. \A x \in {"cash"} : f[x] \in Int
    OBVIOUS
  <2> QED BY <1>2, <2>1, SumTakeOut
<1>8. SumFunctionOnSet(f, {"store_credit"}) = f["store_credit"] + SumFunctionOnSet(f, {"store_credit"} \ {"store_credit"})
  <2>1. \A x \in {"store_credit"} : f[x] \in Int
    OBVIOUS
  <2> QED BY <1>2, <2>1, SumTakeOut
<1>9. SumFunctionOnSet(f, S) = f["cash"] + SumFunctionOnSet(f, S \ {"cash"})
  BY <1>1, <1>4, <1>5, SumTakeOut
<1>10. S \ {"cash"} = {"store_credit"} /\ {"cash"} \ {"cash"} = {} /\ {"store_credit"} \ {"store_credit"} = {}
  BY <1>1
<1>11. SumFunctionOnSet(f, {"cash"}) = a
  BY <1>6, <1>7, <1>10
<1>12. SumFunctionOnSet(f, {"store_credit"}) = b
  BY <1>6, <1>8, <1>10
<1>13. SumFunction(f) = SumFunctionOnSet(f, S)
  BY <1>1 DEF SumFunction, Method
<1>14. SumFunction(f) = a + b
  BY <1>9, <1>10, <1>12, <1>13
<1> QED BY <1>6, <1>11, <1>12, <1>14


LEMMA AvailableFacts ==
  ASSUME tenders \in Seq(Tender), back.refunded \in [Method -> Nat], NEW m \in Method
  PROVE  /\ Available[m] \in Nat
         /\ Available[m] = IF PaidBy(tenders, m) >= back.refunded[m] THEN PaidBy(tenders, m) - back.refunded[m] ELSE 0
<1>1. PICK x \in Int : x = PaidBy(tenders, m)
  BY PaidTypes
<1>2. PICK y \in Nat : y = back.refunded[m]
  OBVIOUS
<1>3. Available[m] = Max({0, x - y})
  BY <1>1, <1>2 DEF Available, GivenBack
<1>4. PICK d \in Int : d = x - y
  OBVIOUS
<1>5. Max({0, d}) = IF 0 >= d THEN 0 ELSE d
  BY LargerOf
<1> QED BY <1>1, <1>2, <1>3, <1>4, <1>5

\* One method after the other, the one paid with last first
OneAfterTheOther(newer, a, b) ==
  \/ newer["cash"] = {} /\ newer["store_credit"] = {"cash"}
  \/ newer["cash"] = {"store_credit"} /\ newer["store_credit"] = {}
  \/ newer["cash"] = {} /\ newer["store_credit"] = {} /\ a = 0 /\ b = 0

\* The parts of an amount, and cash within what cash can give back if the two methods can
AddsUp(parts, amount, a, b) ==
  /\ DOMAIN parts = Method /\ parts["cash"] \in Nat /\ parts["store_credit"] \in Nat
  /\ parts["cash"] + parts["store_credit"] = amount
  /\ amount <= a + b => parts["cash"] <= a

LEMMA Allocated ==
  ASSUME NEW amount, NEW av, NEW newer, NEW a, NEW b,
         amount \in Nat, av \in [Method -> Nat], newer \in [Method -> SUBSET Method],
         a \in Nat, b \in Nat, a = av["cash"], b = av["store_credit"], OneAfterTheOther(newer, a, b)
  PROVE  AddsUp(RefundBy(amount, av, newer), amount, a, b)
<1> DEFINE parts == RefundBy(amount, av, newer)
<1>1. PICK u, v : u = SumFunctionOnSet(av, newer["cash"]) /\ v = SumFunctionOnSet(av, newer["store_credit"])
  OBVIOUS
<1>2. /\ SumFunction(av) = a + b /\ SumFunctionOnSet(av, {}) = 0
      /\ SumFunctionOnSet(av, {"cash"}) = a /\ SumFunctionOnSet(av, {"store_credit"}) = b
  <2>1. DOMAIN av = Method
    OBVIOUS
  <2> QED BY <2>1, MethodsAdded
<1>3. /\ u \in Int /\ v \in Int
       /\ \/ u = 0 /\ v = a
          \/ u = b /\ v = 0
          \/ u = 0 /\ v = 0 /\ a = 0 /\ b = 0
  <2>1. CASE newer["cash"] = {} /\ newer["store_credit"] = {"cash"}
    BY <1>1, <1>2, <2>1
  <2>2. CASE newer["cash"] = {"store_credit"} /\ newer["store_credit"] = {}
    BY <1>1, <1>2, <2>2
  <2>3. CASE newer["cash"] = {} /\ newer["store_credit"] = {} /\ a = 0 /\ b = 0
    BY <1>1, <1>2, <2>3
  <2> QED BY <2>1, <2>2, <2>3 DEF OneAfterTheOther
<1>4. PICK p \in Int, q \in Int : p = amount - u /\ q = amount - v
  BY <1>3
<1>5. \/ p = amount /\ q = amount - a
      \/ p = amount - b /\ q = amount
      \/ p = amount /\ q = amount /\ a = 0 /\ b = 0
  BY <1>4, <1>3
<1>6. PICK rest \in Int : rest = amount - (a + b)
  OBVIOUS
<1>7. /\ DOMAIN parts = Method
      /\ parts["cash"] = Max({0, Min({a, p})}) + Max({0, rest})
      /\ parts["store_credit"] = Max({0, Min({b, q})}) + 0
  <2>1. /\ DOMAIN parts = Method
        /\ parts["cash"] = Max({0, Min({a, amount - u})}) + Max({0, amount - SumFunction(av)})
        /\ parts["store_credit"] = Max({0, Min({b, amount - v})}) + 0
    BY <1>1 DEF RefundBy, Method
  <2> QED BY <1>2, <1>4, <1>6, <2>1
<1>8. PICK i \in Int, j \in Int : i = Min({a, p}) /\ j = Min({b, q})
  BY SmallerOf
<1>9. i = (IF a <= p THEN a ELSE p) /\ j = (IF b <= q THEN b ELSE q)
  BY <1>8, SmallerOf
<1>10. PICK x \in Int, y \in Int, z \in Int : x = Max({0, i}) /\ y = Max({0, j}) /\ z = Max({0, rest})
  BY LargerOf
<1>11. x = (IF 0 >= i THEN 0 ELSE i) /\ y = (IF 0 >= j THEN 0 ELSE j) /\ z = (IF 0 >= rest THEN 0 ELSE rest)
  BY <1>10, LargerOf
<1>12. parts["cash"] = x + z /\ parts["store_credit"] = y
  BY <1>7, <1>8, <1>10
<1>13. /\ x + z \in Nat /\ y \in Nat /\ x + z + y = amount
       /\ amount <= a + b => x + z <= a
  <2>1. CASE p = amount /\ q = amount - a
    BY ONLY <1>6, <1>9, <1>11, <2>1, amount \in Nat, a \in Nat, b \in Nat, SMTT(30)
  <2>2. CASE p = amount - b /\ q = amount
    BY ONLY <1>6, <1>9, <1>11, <2>2, amount \in Nat, a \in Nat, b \in Nat, SMTT(30)
  <2>3. CASE p = amount /\ q = amount /\ a = 0 /\ b = 0
    BY ONLY <1>6, <1>9, <1>11, <2>3, amount \in Nat
  <2> QED BY <1>5, <2>1, <2>2, <2>3
<1> QED BY <1>7, <1>12, <1>13 DEF AddsUp

\* Which method was paid with last
LEMMA NewerFacts ==
  ASSUME tenders \in Seq(Tender), back.refunded \in [Method -> Nat]
  PROVE  /\ NewerThan \in [Method -> SUBSET Method]
         /\ OneAfterTheOther(NewerThan, Available["cash"], Available["store_credit"])
<1>1. PICK c \in Nat, s \in Nat : c = LastPaid("cash") /\ s = LastPaid("store_credit")
  BY LastPaidFacts
<1>2. NewerThan \in [Method -> SUBSET Method]
  BY DEF NewerThan
<1>3. /\ NewerThan["cash"] = {n \in Method : LastPaid(n) > LastPaid("cash")}
      /\ NewerThan["store_credit"] = {n \in Method : LastPaid(n) > LastPaid("store_credit")}
  BY DEF NewerThan, Method
<1>4. \A n \in Method : n = "cash" \/ n = "store_credit"
  BY DEF Method
<1>5. "cash" \in Method /\ "store_credit" \in Method
  BY DEF Method
<1>6. CASE c > s
  <2>1. NewerThan["cash"] = {}
    BY <1>1, <1>3, <1>4, <1>6
  <2>2. NewerThan["store_credit"] = {"cash"}
    BY <1>1, <1>3, <1>4, <1>5, <1>6
  <2> QED BY <1>2, <2>1, <2>2 DEF OneAfterTheOther
<1>7. CASE s > c
  <2>1. NewerThan["cash"] = {"store_credit"}
    BY <1>1, <1>3, <1>4, <1>5, <1>7
  <2>2. NewerThan["store_credit"] = {}
    BY <1>1, <1>3, <1>4, <1>7
  <2> QED BY <1>2, <2>1, <2>2 DEF OneAfterTheOther
<1>8. CASE c = s
  <2>1. NewerThan["cash"] = {} /\ NewerThan["store_credit"] = {}
    BY <1>1, <1>3, <1>4, <1>8
  <2>2. c = 0
    BY <1>1, <1>8, LastPaidFacts
  <2>3. ASSUME NEW m \in Method PROVE Available[m] = 0
    <3>1. LastPaid(m) = 0
      BY <1>1, <1>4, <1>8, <2>2
    <3>2. PaidBy(tenders, m) = 0
      BY <3>1, LastPaidFacts, NotPaidBy
    <3>3. back.refunded[m] \in Nat
      OBVIOUS
    <3>4. Available[m] = IF 0 >= back.refunded[m] THEN 0 - back.refunded[m] ELSE 0
      BY <3>2, AvailableFacts
    <3> QED BY <3>3, <3>4
  <2> QED BY <1>2, <1>5, <2>1, <2>3 DEF OneAfterTheOther
<1> QED BY <1>1, <1>6, <1>7, <1>8

LEMMA RefundsAddUp ==
  ASSUME tenders \in Seq(Tender), back.refunded \in [Method -> Nat], NEW amount \in Nat, NEW only,
         NEW parts, parts = Refunds(amount, only)
  PROVE  /\ DOMAIN parts = Method /\ parts["cash"] \in Nat /\ parts["store_credit"] \in Nat
         /\ parts["cash"] + parts["store_credit"] = amount
         /\ IsSale /\ amount <= Max({0, PaidLeft}) /\ back.refunded["cash"] <= PaidBy(tenders, "cash")
              => back.refunded["cash"] + parts["cash"] <= PaidBy(tenders, "cash")
<1>1. PICK rc \in Nat, rs \in Nat : rc = back.refunded["cash"] /\ rs = back.refunded["store_credit"]
  BY DEF Method
<1>2. PICK pc \in Int, ps \in Int : pc = PaidBy(tenders, "cash") /\ ps = PaidBy(tenders, "store_credit")
  BY PaidTypes
<1>3. CASE only \/ ~IsSale
  <2>1. parts = [m \in Method |-> IF m = "store_credit" THEN amount ELSE 0]
    BY <1>3 DEF Refunds
  <2>2. DOMAIN parts = Method /\ parts["cash"] = 0 /\ parts["store_credit"] = amount
    BY <2>1 DEF Method
  <2> QED BY <1>1, <1>2, <2>2
<1>4. CASE ~(only \/ ~IsSale)
  <2>1. PICK av : av = Available
    OBVIOUS
  <2>2. PICK newer : newer = NewerThan
    OBVIOUS
  <2>3. parts = RefundBy(amount, av, newer)
    BY <1>4, <2>1, <2>2 DEF Refunds
  <2>4. DOMAIN av = Method
    BY <2>1 DEF Available
  <2>5. \A m \in Method : av[m] \in Nat
    BY <2>1, AvailableFacts
  <2>6. av = [m \in Method |-> av[m]]
    BY <2>1 DEF Available
  <2>7. av \in [Method -> Nat]
    BY <2>5, <2>6
  <2>8. PICK a \in Nat, b \in Nat : a = av["cash"] /\ b = av["store_credit"]
    BY <2>5 DEF Method
  <2>9. newer \in [Method -> SUBSET Method] /\ OneAfterTheOther(newer, a, b)
    BY <2>1, <2>2, <2>8, NewerFacts
  <2>10. /\ DOMAIN parts = Method /\ parts["cash"] \in Nat /\ parts["store_credit"] \in Nat
         /\ parts["cash"] + parts["store_credit"] = amount
         /\ amount <= a + b => parts["cash"] <= a
    <3>1. AddsUp(RefundBy(amount, av, newer), amount, a, b)
      BY <2>7, <2>8, <2>9, Allocated
    <3> QED BY <2>3, <3>1 DEF AddsUp
  <2>11. a = (IF pc >= rc THEN pc - rc ELSE 0) /\ b = (IF ps >= rs THEN ps - rs ELSE 0)
    BY <1>1, <1>2, <2>1, <2>8, AvailableFacts DEF Method
  <2>12. PaidLeft = (pc + ps) - (rc + rs)
    <3>1. PaidIn(tenders) = pc + ps
      BY <1>2, PaidByMethods
    <3>2. DOMAIN back.refunded = Method
      OBVIOUS
    <3>3. SumFunction(back.refunded) = rc + rs
      BY <1>1, <3>2, MethodsAdded
    <3> QED BY <3>1, <3>3 DEF PaidLeft, RefundedSoFar
  <2>13. ASSUME amount <= Max({0, PaidLeft}) PROVE amount <= a + b
    <3>1. PICK l \in Int : l = (pc + ps) - (rc + rs)
      OBVIOUS
    <3>2. PaidLeft = l
      BY <2>12, <3>1
    <3>3. Max({0, l}) = IF 0 >= l THEN 0 ELSE l
      BY LargerOf
    <3>4. amount <= IF 0 >= l THEN 0 ELSE l
      BY <2>13, <3>2, <3>3
    <3> QED BY <2>11, <3>1, <3>4
  <2>14. ASSUME amount <= Max({0, PaidLeft}), rc <= pc PROVE rc + parts["cash"] <= pc
    BY <2>10, <2>11, <2>13, <2>14
  <2> QED BY <1>1, <1>2, <2>10, <2>14
<1> QED BY <1>3, <1>4

-----------------------------------------------------------------------------
(* Points.                                                                 *)

LEMMA PointScaleNat == PointScale \in Nat /\ PointScale > 0
  BY CounterRulesAssumption

\* A share of the points, rounded to a part in PointScale and then made whole
LEMMA DividePoints ==
  ASSUME NEW e \in Nat, NEW m \in Nat, NEW t \in Nat, t > 0, m <= t,
         NEW q, q = Rounding!DivRound(e * PointScale * m, t) \div PointScale
  PROVE  q \in Nat /\ q <= e /\ 2 * PointScale * (q * t - e * m) <= t
<1>1. PICK f \in Nat : f = PointScale /\ f > 0
  BY PointScaleNat
<1>2. PICK p \in Nat, a \in Nat, w \in Nat : p = e * m /\ a = f * p /\ w = e * t /\ a = (e * f) * m /\ p <= w
  <2>1. (e * f) * m = f * (e * m) /\ e * m <= e * t
    BY Associate, Grows
  <2>2. e * m \in Nat /\ e * t \in Nat /\ f * (e * m) \in Nat
    BY SMT
  <2> QED BY <2>1, <2>2
<1>3. PICK d \in Nat : d = Rounding!DivRound(a, t) /\ 2 * (t * d) <= 2 * a + t
  BY <1>2, Rounded
<1>4. q \in Nat /\ f * q <= d
  <2>1. q = d \div f
    BY <1>1, <1>2, <1>3
  <2> QED BY <1>1, <2>1, SMT
<1>5. 2 * PointScale * (q * t - e * m) <= t
  <2>1. t * (f * q) <= t * d /\ t * d \in Int
    BY <1>3, <1>4, Grows, Associate
  <2>2. PICK u \in Int : u = q * t /\ t * (f * q) = f * u
    <3>1. t * (f * q) = f * (t * q) /\ t * q = q * t /\ q * t \in Int
      BY <1>1, <1>4, Associate
    <3> QED BY <3>1
  <2>3. PICK fu \in Int, td \in Int : fu = f * u /\ td = t * d /\ fu <= td /\ 2 * td <= 2 * a + t
    BY <1>1, <1>3, <2>1, <2>2, Associate
  <2>4. f * (u - p) = fu - a
    BY <1>1, <1>2, <2>2, <2>3, Distribute
  <2>5. 2 * f * (u - p) = 2 * (f * (u - p))
    BY <1>1, <1>2, <2>2, Associate
  <2> QED BY <1>1, <1>2, <2>2, <2>3, <2>4, <2>5
<1>6. q <= e
  <2>1. PICK fe \in Nat, tfe \in Nat : fe = f * e /\ tfe = t * fe /\ a <= tfe
    <3>1. a <= f * w /\ f * w = t * (f * e)
      <4>1. f * w = f * (e * t) /\ f * (e * t) = (f * e) * t /\ (f * e) * t = t * (f * e)
        BY <1>1, <1>2, Associate
      <4> QED BY <1>1, <1>2, <4>1, Grows
    <3>2. f * e \in Nat
      BY <1>1, SMT
    <3>3. t * (f * e) \in Nat
      BY <3>2, SMT
    <3> QED BY <3>1, <3>2, <3>3
  <2>2. d <= fe
    <3> SUFFICES ASSUME fe + 1 <= d PROVE FALSE
      BY <1>3, <2>1
    <3>1. t * (fe + 1) <= t * d /\ t * (fe + 1) = t * fe + t * 1 /\ t * d \in Int
      BY <1>3, <2>1, Grows, Distribute
    <3>2. PICK td \in Int : td = t * d /\ tfe + t <= td
      BY <2>1, <3>1
    <3> QED BY <1>2, <1>3, <2>1, <3>2
  <2>3. f * q <= fe
    BY <1>1, <1>3, <1>4, <2>1, <2>2
  <2> SUFFICES ASSUME e + 1 <= q PROVE FALSE
    BY <1>4
  <2>4. f * (e + 1) <= f * q /\ f * (e + 1) = f * e + f * 1 /\ f * q \in Int
    BY <1>1, <1>4, Grows, Distribute
  <2> QED BY <1>1, <2>1, <2>3, <2>4
<1> QED BY <1>4, <1>5, <1>6

\* Points taken back are within the share that what is back by now earned.
PointsWithin(e, r, m, t) == 2 * PointScale * (r * t - e * m) <= t

\* The less is taken back, and the more is back, the better.
LEMMA WithinMore ==
  ASSUME NEW e \in Nat, NEW r \in Nat, NEW q \in Nat, NEW n \in Nat, NEW m \in Nat, NEW t \in Nat,
         r <= q, n <= m, PointsWithin(e, q, n, t)
  PROVE  PointsWithin(e, r, m, t)
<1>1. PICK g \in Nat : g = 2 * PointScale
  BY PointScaleNat
<1>2. t * r <= t * q /\ t * r = r * t /\ t * q = q * t /\ e * n <= e * m
  BY Grows, Associate
<1>3. PICK x \in Int, y \in Int, u \in Int, v \in Int : x = r * t /\ y = e * m /\ u = q * t /\ v = e * n
  BY Associate
<1>4. g * (x - y) <= g * (u - v) /\ g * (x - y) \in Int /\ g * (u - v) \in Int
  BY <1>2, <1>3, Grows
<1>5. g * (u - v) <= t
  BY <1>1, <1>3 DEF PointsWithin
<1>6. g * (x - y) <= t
  <2>1. PICK i \in Int, j \in Int : i = g * (x - y) /\ j = g * (u - v)
    BY <1>4
  <2> QED BY <1>4, <1>5, <2>1
<1> QED BY <1>1, <1>3, <1>6 DEF PointsWithin

LEMMA PointsTaken ==
  ASSUME NEW e \in Nat, NEW r \in Nat, NEW before \in Nat, NEW returned \in Nat, NEW t \in Nat, NEW x \in Nat,
         r <= e, PointsWithin(e, r, Min({before, t}), t), before <= returned,
         NEW points, points = PointsToTakeBack(e, r, returned, t), x <= points
  PROVE  r + x <= e /\ PointsWithin(e, r + x, Min({returned, t}), t)
<1>1. PICK n \in Nat, m \in Nat : /\ n = Min({before, t}) /\ m = Min({returned, t})
                                  /\ n <= m /\ m <= t
  <2>1. Min({before, t}) = (IF before <= t THEN before ELSE t) /\ Min({returned, t}) = (IF returned <= t THEN returned ELSE t)
    BY SmallerOf
  <2> QED BY <2>1
<1>2. PointsWithin(e, r, m, t)
  BY <1>1, WithinMore
<1>3. CASE x = 0
  <2>1. r + x = r
    BY <1>3
  <2> QED BY <1>1, <1>2, <2>1
<1>4. CASE x > 0
  <2>1. e > 0 /\ t > 0
    BY <1>4 DEF PointsToTakeBack
  <2>2. PICK q : q = Rounding!DivRound(e * PointScale * m, t) \div PointScale
    OBVIOUS
  <2>3. q \in Nat /\ q <= e /\ PointsWithin(e, q, m, t)
    BY <1>1, <2>1, <2>2, DividePoints DEF PointsWithin
  <2>4. points = Max({0, q - r})
    BY <1>1, <2>1, <2>2 DEF PointsToTakeBack
  <2>5. points = IF 0 >= q - r THEN 0 ELSE q - r
    BY <2>3, <2>4, LargerOf
  <2>6. r + x <= q
    BY <1>4, <2>3, <2>5
  <2>7. PointsWithin(e, r + x, m, t)
    <3>1. PICK y \in Nat : y = r + x
      OBVIOUS
    <3>2. y <= q /\ m <= m
      BY <1>1, <2>6, <3>1
    <3>3. PointsWithin(e, y, m, t)
      BY <1>1, <2>3, <3>1, <3>2, WithinMore
    <3> QED BY <3>1, <3>3
  <2> QED BY <1>1, <2>3, <2>6, <2>7
<1> QED BY <1>3, <1>4

-----------------------------------------------------------------------------
(* The inductive invariant of the amounts, MInv.                           *)

DebtRecords == [status : {"None", "Open", "Settled", "WrittenOff", "Cancelled"}, outstanding : Nat,
                collected : Nat, writtenOff : Nat]
BackRecords == [copies : Nat, bound : Nat, value : Nat, fee : Nat, credited : Nat,
                refunded : [Method -> Nat], returns : BOOLEAN]
CustomerRecords == [credit : Nat, points : Nat, spent : Nat]
AccrualRecords == [asked : BOOLEAN, earned : {0, Earned}, reversed : 0..Earned]
ShelfRecords == [sellable : Int, damaged : Nat, tradeIn : {0, 1}]
Jobs == {"none", "REQUESTED", "AT_BINDER", "READY", "COLLECTED", "RETURNED", "CANCELLED"}

Accounts ==
  /\ sale.due \in Nat /\ tenders \in Seq(Tender) /\ debt \in DebtRecords /\ back \in BackRecords
  /\ drawer \in Int /\ customer \in CustomerRecords /\ accrual \in AccrualRecords

Places == job \in Jobs /\ shelf \in ShelfRecords /\ phase \in {"today", "window", "later"}

NothingSoldYet ==
  sale.status = "none" =>
    /\ sale.offer = NoOffer /\ tenders = <<>> /\ back = NothingBack
    /\ accrual = [asked |-> FALSE, earned |-> 0, reversed |-> 0]

\* What is back is what so many copies, and so many bound ones, were worth; a cancelled binding
\* gave its whole fee back.
GoodsFit ==
  /\ Fits(sale.offer.price, sale.offer.copies, back.copies, back.value)
  /\ \/ Fits(sale.offer.fee, sale.offer.bound, back.bound, back.fee)
     \/ job = "CANCELLED" /\ back.bound = 0 /\ back.fee = sale.offer.fee

DebtFits == DebtIsTheSalesDue /\ (debt.status = "Open" => debt.writtenOff = 0)

\* What was paid or is owed, less what is kept: at most a cent, and nothing while a sale's
\* amount is due.
Balance == (PaidIn(tenders) + debt.collected - RefundedSoFar) + Owed - (Total - back.value - back.fee)

Balanced ==
  Standing => Balance \in Int /\ Balance <= Cent /\ -Cent <= Balance /\ (IsSale /\ sale.due > 0 => Balance = 0)

PointsFit ==
  /\ accrual.reversed <= accrual.earned
  /\ ~IsSale => ~accrual.asked /\ accrual.earned = 0
  /\ PointsFollowTheGoods

MInv ==
  /\ Accounts
  /\ Places
  /\ NothingSoldYet
  /\ GoodsFit
  /\ DebtFits
  /\ Balanced
  /\ CashBackOnlyForCash
  /\ PointsFit

-----------------------------------------------------------------------------
LEMMA DebtFields ==
  ASSUME NEW d \in DebtRecords
  PROVE  /\ d.status \in {"None", "Open", "Settled", "WrittenOff", "Cancelled"}
         /\ d.outstanding \in Nat /\ d.collected \in Nat /\ d.writtenOff \in Nat
         /\ d = [status |-> d.status, outstanding |-> d.outstanding, collected |-> d.collected,
                 writtenOff |-> d.writtenOff]
  BY DEF DebtRecords

LEMMA BackFields ==
  ASSUME NEW b \in BackRecords
  PROVE  /\ b.copies \in Nat /\ b.bound \in Nat /\ b.value \in Nat /\ b.fee \in Nat /\ b.credited \in Nat
         /\ b.refunded \in [Method -> Nat] /\ b.refunded["cash"] \in Nat /\ b.refunded["store_credit"] \in Nat
  BY DEF BackRecords, Method

LEMMA CustomerFields ==
  ASSUME NEW c \in CustomerRecords
  PROVE  /\ c.credit \in Nat /\ c.points \in Nat /\ c.spent \in Nat
         /\ c = [credit |-> c.credit, points |-> c.points, spent |-> c.spent]
  BY DEF CustomerRecords

LEMMA AccrualFields ==
  ASSUME NEW a \in AccrualRecords
  PROVE  /\ a.asked \in BOOLEAN /\ a.earned \in Nat /\ a.reversed \in Nat /\ a.earned \in {0, Earned}
         /\ a = [asked |-> a.asked, earned |-> a.earned, reversed |-> a.reversed]
  BY CounterAssumption DEF AccrualRecords

LEMMA RefundsOf ==
  ASSUME NEW b \in BackRecords
  PROVE  SumFunction(b.refunded) = b.refunded["cash"] + b.refunded["store_credit"]
<1>1. PICK c \in Nat, s \in Nat : c = b.refunded["cash"] /\ s = b.refunded["store_credit"]
  BY BackFields
<1>2. DOMAIN b.refunded = Method
  BY BackFields
<1> QED BY <1>1, <1>2, MethodsAdded

LEMMA RefundedNat ==
  ASSUME back \in BackRecords
  PROVE  RefundedSoFar \in Nat /\ RefundedSoFar = back.refunded["cash"] + back.refunded["store_credit"]
<1>1. back.refunded["cash"] \in Nat /\ back.refunded["store_credit"] \in Nat
  BY BackFields
<1>2. RefundedSoFar = back.refunded["cash"] + back.refunded["store_credit"]
  BY RefundsOf DEF RefundedSoFar
<1> QED BY <1>1, <1>2

LEMMA OfferInt ==
  ASSUME IInv
  PROVE  Total \in Int
  BY TotalInt DEF Total, IInv, Shape

LEMMA BalanceParts ==
  ASSUME IInv, Accounts
  PROVE  /\ PaidIn(tenders) \in Int /\ debt.collected \in Int /\ RefundedSoFar \in Int /\ Owed \in Int
         /\ Total \in Int /\ back.value \in Int /\ back.fee \in Int
<1>1. PaidIn(tenders) \in Int
  BY PaidTypes DEF Accounts
<1>2. debt.collected \in Int /\ Owed \in Int
  BY DebtFields DEF Accounts, Owed
<1>3. RefundedSoFar \in Int /\ back.value \in Int /\ back.fee \in Int
  BY RefundedNat, BackFields DEF Accounts
<1> QED BY <1>1, <1>2, <1>3, OfferInt

\* A step by which the customer pays a and c, gets r back, owes w more, and gives back goods
\* worth v and f
MovesBy(a, c, r, w, v, f) ==
  /\ a \in Int /\ c \in Int /\ r \in Int /\ w \in Int /\ v \in Int /\ f \in Int
  /\ PaidIn(tenders)' = PaidIn(tenders) + a /\ debt'.collected = debt.collected + c
  /\ RefundedSoFar' = RefundedSoFar + r /\ Owed' = Owed + w /\ sale'.offer = sale.offer
  /\ back'.value = back.value + v /\ back'.fee = back.fee + f

LEMMA BalanceMoves ==
  ASSUME IInv, Accounts, NEW a, NEW c, NEW r, NEW w, NEW v, NEW f, MovesBy(a, c, r, w, v, f)
  PROVE  Balance' = Balance + (a + c - r + w + v + f) /\ Balance \in Int /\ Balance' \in Int
<1>0. /\ a \in Int /\ c \in Int /\ r \in Int /\ w \in Int /\ v \in Int /\ f \in Int
      /\ PaidIn(tenders)' = PaidIn(tenders) + a /\ debt'.collected = debt.collected + c
      /\ RefundedSoFar' = RefundedSoFar + r /\ Owed' = Owed + w /\ sale'.offer = sale.offer
      /\ back'.value = back.value + v /\ back'.fee = back.fee + f
  BY DEF MovesBy
<1>1. PICK pi \in Int, co \in Int, re \in Int, ow \in Int :
        pi = PaidIn(tenders) /\ co = debt.collected /\ re = RefundedSoFar /\ ow = Owed
  BY BalanceParts
<1>2. PICK to \in Int, va \in Int, fe \in Int : to = Total /\ va = back.value /\ fe = back.fee
  BY BalanceParts
<1>3. Balance = (pi + co - re) + ow - (to - va - fe)
  BY <1>1, <1>2 DEF Balance
<1>4. Total' = to
  BY <1>0, <1>2 DEF Total
<1>5. Balance' = ((pi + a) + (co + c) - (re + r)) + (ow + w) - (to - (va + v) - (fe + f))
  BY <1>0, <1>1, <1>2, <1>4 DEF Balance
<1> QED BY <1>0, <1>3, <1>5

-----------------------------------------------------------------------------
(* A settlement.                                                           *)

LEMMA PointsNat ==
  ASSUME NEW e \in Nat, NEW r \in Nat, NEW returned \in Nat, NEW t \in Int
  PROVE  PointsToTakeBack(e, r, returned, t) \in Nat
<1>1. CASE e <= 0 \/ t <= 0
  BY <1>1 DEF PointsToTakeBack
<1>2. CASE ~(e <= 0 \/ t <= 0)
  <2>1. PICK m \in Nat : m = Min({returned, t}) /\ m <= t
    BY <1>2, SmallerOf
  <2>2. PICK q : q = Rounding!DivRound(e * PointScale * m, t) \div PointScale
    OBVIOUS
  <2>3. q \in Nat
    BY <1>2, <2>1, <2>2, DividePoints
  <2>4. PointsToTakeBack(e, r, returned, t) = Max({0, q - r})
    BY <1>2, <2>1, <2>2 DEF PointsToTakeBack
  <2> QED BY <2>3, <2>4, LargerOf
<1> QED BY <1>1, <1>2

LEMMA CreditedFacts ==
  ASSUME Accounts, NEW w \in Nat
  PROVE  /\ Credited(w) \in Nat /\ Credited(w) <= w
         /\ Credited(w) > 0 => debt.status = "Open" /\ Credited(w) <= debt.outstanding /\ (IsSale => sale.due > 0)
<1>1. PICK o \in Nat : o = debt.outstanding
  BY DebtFields DEF Accounts
<1>2. Min({w, o}) = IF w <= o THEN w ELSE o
  BY SmallerOf
<1> QED BY <1>1, <1>2 DEF Credited

\* What the steps that settle a return or a cancelled binding change: credit is taken off the
\* debt, the rest goes back in cash (c) and as store credit (s), and x points are taken back.
SettledAs(copies, bound, value, fee, credit, c, s, x) ==
  /\ credit \in Nat /\ c \in Nat /\ s \in Nat /\ x \in Nat
  /\ credit + c + s = value + fee
  /\ credit > 0 => debt.status = "Open" /\ credit <= debt.outstanding /\ (IsSale => sale.due > 0)
  /\ debt' = DebtAfterCredit(credit)
  /\ sale' = IF IsSale /\ credit > 0 THEN [sale EXCEPT !.due = DueAfterCredit(sale.due, credit)] ELSE sale
  /\ back' \in BackRecords
  /\ back'.copies = back.copies + copies /\ back'.bound = back.bound + bound
  /\ back'.value = back.value + value /\ back'.fee = back.fee + fee
  /\ back'.refunded["cash"] = back.refunded["cash"] + c
  /\ back'.refunded["store_credit"] = back.refunded["store_credit"] + s
  /\ IsSale => back.refunded["cash"] + c <= PaidBy(tenders, "cash")
  /\ drawer' = drawer - c
  /\ customer' = [credit |-> customer.credit + s, points |-> customer.points - x, spent |-> customer.spent]
  /\ accrual' = [asked |-> accrual.asked, earned |-> accrual.earned, reversed |-> accrual.reversed + x]
  /\ x <= customer.points /\ (~IsSale => x = 0)
  /\ x <= PointsToTakeBack(accrual.earned, accrual.reversed, back.value + back.fee + value + fee, Total)

LEMMA SettleParts ==
  ASSUME IInv, MInv, NEW copies, NEW bound, NEW value, NEW fee, NEW only,
         copies \in Nat, bound \in Nat, value \in Nat, fee \in Nat,
         Settle(copies, bound, value, fee, only)
  PROVE  \E credit, c, s, x : SettledAs(copies, bound, value, fee, credit, c, s, x)
<1>1. Accounts /\ CashBackOnlyForCash
  BY DEF MInv
<1>2. tenders \in Seq(Tender) /\ drawer \in Int /\ debt \in DebtRecords
  BY <1>1 DEF Accounts
<1>3. /\ back.copies \in Nat /\ back.bound \in Nat /\ back.value \in Nat /\ back.fee \in Nat /\ back.credited \in Nat
      /\ back.refunded \in [Method -> Nat] /\ back.refunded["cash"] \in Nat /\ back.refunded["store_credit"] \in Nat
  BY <1>1, BackFields DEF Accounts
<1>4. PICK w \in Nat : w = value + fee
  OBVIOUS
<1>5. PICK credit \in Nat : credit = Credited(value + fee)
  BY <1>1, <1>4, CreditedFacts
<1>6. /\ credit <= w
      /\ credit > 0 => debt.status = "Open" /\ credit <= debt.outstanding /\ (IsSale => sale.due > 0)
  BY <1>1, <1>4, <1>5, CreditedFacts
<1>7. PICK rest \in Nat : rest = value + fee - credit
  BY <1>4, <1>6
<1>8. PICK parts : parts = Refunds(rest, only)
  OBVIOUS
<1>9. /\ IsSale => rest <= Max({0, PaidLeft})
      /\ debt' = DebtAfterCredit(credit)
      /\ sale' = IF IsSale /\ credit > 0 THEN [sale EXCEPT !.due = DueAfterCredit(sale.due, credit)] ELSE sale
      /\ back' = [copies |-> back.copies + copies, bound |-> back.bound + bound, value |-> back.value + value,
                  fee |-> back.fee + fee, credited |-> back.credited + credit,
                  refunded |-> [m \in Method |-> back.refunded[m] + parts[m]], returns |-> TRUE]
      /\ drawer' = drawer - parts["cash"]
  BY <1>5, <1>7, <1>8 DEF Settle
<1>10. /\ parts["cash"] \in Nat /\ parts["store_credit"] \in Nat
       /\ parts["cash"] + parts["store_credit"] = rest
       /\ IsSale => back.refunded["cash"] + parts["cash"] <= PaidBy(tenders, "cash")
  <2>1. IsSale => rest <= Max({0, PaidLeft}) /\ back.refunded["cash"] <= PaidBy(tenders, "cash")
    BY <1>1, <1>9 DEF CashBackOnlyForCash
  <2> QED BY <1>2, <1>3, <1>8, <2>1, RefundsAddUp
<1>11. PICK c \in Nat, s \in Nat : c = parts["cash"] /\ s = parts["store_credit"]
  BY <1>10
<1>12. PICK points : points = PointsToTakeBack(accrual.earned, accrual.reversed, back.value + back.fee + value + fee, Total)
  OBVIOUS
<1>13. points \in Nat
  <2>1. accrual.earned \in Nat /\ accrual.reversed \in Nat /\ Total \in Int
    BY <1>1, OfferInt, AccrualFields DEF Accounts
  <2>2. PICK e \in Nat, r \in Nat, t \in Int, n \in Nat :
          e = accrual.earned /\ r = accrual.reversed /\ t = Total /\ n = back.value + back.fee + value + fee
    BY <1>3, <2>1
  <2> QED BY <1>12, <2>2, PointsNat
<1>14. /\ customer.credit \in Nat /\ customer.points \in Nat /\ customer.spent \in Nat
       /\ customer = [credit |-> customer.credit, points |-> customer.points, spent |-> customer.spent]
  BY <1>1, CustomerFields DEF Accounts
<1>15. PICK x : x = IF IsSale THEN Min({points, customer.points}) ELSE 0
  OBVIOUS
<1>16. x \in Nat /\ x <= points /\ x <= customer.points /\ (~IsSale => x = 0)
  <2>1. Min({points, customer.points}) = IF points <= customer.points THEN points ELSE customer.points
    BY <1>13, <1>14, SmallerOf
  <2> QED BY <1>13, <1>14, <1>15, <2>1
<1>17. /\ customer' = [customer EXCEPT !.credit = @ + parts["store_credit"], !.points = @ - x]
       /\ accrual' = [accrual EXCEPT !.reversed = @ + x]
  BY <1>5, <1>7, <1>8, <1>12, <1>15 DEF Settle
<1>18. customer' = [credit |-> customer.credit + s, points |-> customer.points - x, spent |-> customer.spent]
  <2>1. PICK one : one = [customer EXCEPT !.credit = @ + s]
    OBVIOUS
  <2>2. one = [credit |-> customer.credit + s, points |-> customer.points, spent |-> customer.spent]
    BY <1>14, <2>1
  <2>3. customer' = [one EXCEPT !.points = @ - x]
    BY <1>11, <1>17, <2>1
  <2> QED BY <2>2, <2>3
<1>19. accrual' = [asked |-> accrual.asked, earned |-> accrual.earned, reversed |-> accrual.reversed + x]
  BY <1>1, <1>17, AccrualFields DEF Accounts
<1>20. PICK refunded : refunded = [m \in Method |-> back.refunded[m] + parts[m]]
  OBVIOUS
<1>21. /\ refunded \in [Method -> Nat]
       /\ refunded["cash"] = back.refunded["cash"] + c /\ refunded["store_credit"] = back.refunded["store_credit"] + s
  <2>1. \A m \in Method : m = "cash" \/ m = "store_credit"
    BY DEF Method
  <2>2. \A m \in Method : back.refunded[m] + parts[m] \in Nat
    BY <1>3, <1>10, <2>1
  <2>3. refunded["cash"] = back.refunded["cash"] + c /\ refunded["store_credit"] = back.refunded["store_credit"] + s
    BY <1>11, <1>20 DEF Method
  <2> QED BY <1>20, <2>2, <2>3
<1>22. /\ back' \in BackRecords /\ back'.refunded = refunded
       /\ back'.copies = back.copies + copies /\ back'.bound = back.bound + bound
       /\ back'.value = back.value + value /\ back'.fee = back.fee + fee
  <2>1. back' = [copies |-> back.copies + copies, bound |-> back.bound + bound, value |-> back.value + value,
                 fee |-> back.fee + fee, credited |-> back.credited + credit, refunded |-> refunded, returns |-> TRUE]
    BY <1>9, <1>20
  <2>2. /\ back.copies + copies \in Nat /\ back.bound + bound \in Nat /\ back.value + value \in Nat
        /\ back.fee + fee \in Nat /\ back.credited + credit \in Nat
    BY <1>3
  <2> QED BY <1>21, <2>1, <2>2 DEF BackRecords
<1>23. credit + c + s = value + fee
  BY <1>4, <1>6, <1>7, <1>10, <1>11
<1>24. SettledAs(copies, bound, value, fee, credit, c, s, x)
  BY <1>6, <1>9, <1>10, <1>11, <1>12, <1>16, <1>18, <1>19, <1>21, <1>22, <1>23 DEF SettledAs
<1> QED BY <1>24

LEMMA CreditedDebt ==
  ASSUME NEW d \in DebtRecords, d = debt, NEW credit \in Nat, credit <= d.outstanding, credit > 0
  PROVE  DebtAfterCredit(credit)
           = [status |-> IF d.outstanding = credit THEN "Settled" ELSE "Open",
              outstanding |-> d.outstanding - credit, collected |-> d.collected, writtenOff |-> d.writtenOff]
<1>1. PICK one : one = [d EXCEPT !.outstanding = @ - credit]
  OBVIOUS
<1>2. one = [status |-> d.status, outstanding |-> d.outstanding - credit, collected |-> d.collected, writtenOff |-> d.writtenOff]
  BY <1>1, DebtFields
<1>3. DebtAfterCredit(credit) = [one EXCEPT !.status = IF d.outstanding = credit THEN "Settled" ELSE "Open"]
  BY <1>1 DEF DebtAfterCredit
<1> QED BY <1>2, <1>3

\* The points a settlement takes back
LEMMA SettledPoints ==
  ASSUME IInv, MInv, NEW copies, NEW bound, NEW value, NEW fee, NEW credit, NEW c, NEW s, NEW x,
         value \in Nat, fee \in Nat, SettledAs(copies, bound, value, fee, credit, c, s, x)
  PROVE  /\ accrual.reversed + x <= accrual.earned
         /\ IsSale => PointsWithin(accrual.earned, accrual.reversed + x,
                                   Min({back.value + back.fee + value + fee, Total}), Total)
<1>1. Accounts /\ PointsFit
  BY DEF MInv
<1>2. PICK e \in Nat, r \in Nat : e = accrual.earned /\ r = accrual.reversed /\ r <= e
  BY <1>1, AccrualFields DEF Accounts, PointsFit
<1>3. PICK t \in Int : t = Total
  BY OfferInt
<1>4. PICK b \in Nat, n \in Nat : b = back.value + back.fee /\ n = back.value + back.fee + value + fee /\ b <= n
  <2>1. back.value \in Nat /\ back.fee \in Nat
    BY <1>1, BackFields DEF Accounts
  <2>2. PICK p \in Nat, q \in Nat : p = back.value /\ q = back.fee
    BY <2>1
  <2>3. p + q \in Nat /\ p + q + value + fee \in Nat /\ p + q <= p + q + value + fee
    OBVIOUS
  <2> QED BY <2>2, <2>3
<1>5. IsSale => PointsWithin(e, r, Min({b, t}), t)
  BY <1>1, <1>2, <1>3, <1>4 DEF PointsFit, PointsFollowTheGoods, PointsWithin
<1>6. CASE IsSale
  <2>1. PICK o \in Offers \cup {NoOffer} : o = sale.offer
    BY DEF IInv, Shape
  <2>2. o.price \in Nat /\ o.fee \in Nat /\ o.tradeIn = 0
    BY <1>6, <2>1, PriceFacts DEF IsSale
  <2>3. t \in Nat
    BY <1>3, <2>1, <2>2 DEF Total, TotalOf
  <2>4. PICK points : points = PointsToTakeBack(e, r, n, t)
    OBVIOUS
  <2>5. x \in Nat /\ x <= points
    BY <1>2, <1>3, <1>4, <2>4 DEF SettledAs
  <2> QED BY <1>2, <1>3, <1>4, <1>5, <1>6, <2>3, <2>4, <2>5, PointsTaken
<1>7. CASE ~IsSale
  <2>1. x = 0 /\ e = 0 /\ r = 0
    BY <1>1, <1>2, <1>7 DEF SettledAs, PointsFit
  <2> QED BY <1>2, <1>7, <2>1
<1> QED BY <1>6, <1>7

LEMMA SettleKeepsMoney ==
  ASSUME IInv, MInv, sale.status = "completed", tenders' = tenders,
         NEW copies, NEW bound, NEW value, NEW fee, NEW only,
         copies \in Nat, bound \in Nat, value \in Nat, fee \in Nat,
         Settle(copies, bound, value, fee, only)
  PROVE  /\ Accounts' /\ NothingSoldYet' /\ DebtFits' /\ Balanced' /\ CashBackOnlyForCash' /\ PointsFit'
         /\ back'.copies = back.copies + copies /\ back'.bound = back.bound + bound
         /\ back'.value = back.value + value /\ back'.fee = back.fee + fee /\ sale'.offer = sale.offer
<1>1. PICK credit, c, s, x : SettledAs(copies, bound, value, fee, credit, c, s, x)
  BY SettleParts
<1>2. /\ credit \in Nat /\ c \in Nat /\ s \in Nat /\ x \in Nat
      /\ credit + c + s = value + fee
      /\ credit > 0 => debt.status = "Open" /\ credit <= debt.outstanding /\ (IsSale => sale.due > 0)
  BY <1>1 DEF SettledAs
<1>3. /\ back' \in BackRecords
      /\ back'.copies = back.copies + copies /\ back'.bound = back.bound + bound
      /\ back'.value = back.value + value /\ back'.fee = back.fee + fee
      /\ back'.refunded["cash"] = back.refunded["cash"] + c
      /\ back'.refunded["store_credit"] = back.refunded["store_credit"] + s
      /\ IsSale => back.refunded["cash"] + c <= PaidBy(tenders, "cash")
      /\ drawer' = drawer - c
  BY <1>1 DEF SettledAs
<1>4. Accounts /\ DebtFits /\ Balanced /\ PointsFit
  BY DEF MInv
<1>5. PICK out \in Nat, due \in Nat, off \in Nat : out = debt.outstanding /\ due = sale.due /\ off = debt.writtenOff
  BY <1>4, DebtFields DEF Accounts
<1>6. sale = [offer |-> sale.offer, status |-> sale.status, due |-> sale.due]
  BY DEF IInv, Shape
<1>7. IsSale /\ debt.status = "Open" => out = due
  BY <1>4, <1>5 DEF DebtFits, DebtIsTheSalesDue
<1>8. /\ sale' = [offer |-> sale.offer, status |-> "completed", due |-> IF IsSale THEN due - credit ELSE due]
      /\ credit <= due \/ ~IsSale
  <2>1. sale' = IF IsSale /\ credit > 0 THEN [sale EXCEPT !.due = DueAfterCredit(sale.due, credit)] ELSE sale
    BY <1>1 DEF SettledAs
  <2>2. CASE IsSale /\ credit > 0
    <3>1. credit <= due
      BY <1>2, <1>5, <1>7, <2>2
    <3>2. PICK d \in Nat : d = due - credit
      BY <1>2, <3>1
    <3>3. Max({0, d}) = d
      BY <3>2, LargerOf
    <3>4. DueAfterCredit(due, credit) = d
      BY <3>2, <3>3 DEF DueAfterCredit
    <3> QED BY <1>5, <1>6, <2>1, <2>2, <3>1, <3>2, <3>4
  <2>3. CASE ~(IsSale /\ credit > 0)
    <3>1. sale' = sale /\ (IsSale => credit = 0)
      BY <1>2, <2>1, <2>3
    <3> QED BY <1>2, <1>5, <1>6, <3>1
  <2> QED BY <2>2, <2>3
<1>9. /\ sale'.due = (IF IsSale THEN due - credit ELSE due) /\ sale'.offer = sale.offer /\ sale'.status = "completed"
      /\ sale'.due \in Nat
  <2>1. IsSale => due - credit \in Nat
    BY <1>2, <1>8
  <2> QED BY <1>8, <2>1
<1>10. debt \in DebtRecords
  BY <1>4 DEF Accounts
<1>11. debt' = IF credit = 0 THEN debt
               ELSE [status |-> IF out = credit THEN "Settled" ELSE "Open", outstanding |-> out - credit,
                     collected |-> debt.collected, writtenOff |-> off]
  <2>1. debt' = DebtAfterCredit(credit)
    BY <1>1 DEF SettledAs
  <2>2. CASE credit = 0
    BY <2>1, <2>2 DEF DebtAfterCredit
  <2>3. CASE credit # 0
    BY <1>2, <1>5, <1>10, <2>1, <2>3, CreditedDebt
  <2> QED BY <2>2, <2>3
<1>12. credit <= out
  BY <1>2, <1>5
<1>13. /\ debt' \in DebtRecords /\ debt'.collected = debt.collected /\ debt'.writtenOff = off
       /\ debt'.outstanding = out - credit
       /\ debt'.status = IF credit = 0 THEN debt.status ELSE IF out = credit THEN "Settled" ELSE "Open"
  <2>1. CASE credit = 0
    BY <1>5, <1>10, <1>11, <2>1, DebtFields
  <2>2. CASE credit # 0
    <3>1. out - credit \in Nat /\ debt.collected \in Nat
      BY <1>2, <1>10, <1>12, DebtFields
    <3> QED BY <1>11, <2>2, <3>1 DEF DebtRecords
  <2> QED BY <2>1, <2>2
<1>14. Accounts'
  <2>1. tenders \in Seq(Tender) /\ drawer \in Int /\ customer \in CustomerRecords /\ accrual \in AccrualRecords
    BY <1>4 DEF Accounts
  <2>2. customer' = [credit |-> customer.credit + s, points |-> customer.points - x, spent |-> customer.spent] /\ x <= customer.points
    BY <1>1 DEF SettledAs
  <2>3. customer.credit + s \in Nat /\ customer.points - x \in Nat /\ customer.spent \in Nat
    <3>1. customer.credit \in Nat /\ customer.points \in Nat /\ customer.spent \in Nat
      BY <2>1, CustomerFields
    <3> QED BY <1>2, <2>2, <3>1
  <2>4. customer' \in CustomerRecords
    BY <2>2, <2>3 DEF CustomerRecords
  <2>5. accrual' = [asked |-> accrual.asked, earned |-> accrual.earned, reversed |-> accrual.reversed + x]
    BY <1>1 DEF SettledAs
  <2>6. accrual.reversed + x <= accrual.earned
    BY <1>1, SettledPoints
  <2>7. accrual' \in AccrualRecords
    <3>1. accrual.asked \in BOOLEAN /\ accrual.earned \in {0, Earned} /\ accrual.earned \in Nat /\ accrual.reversed \in Nat
      BY <2>1, AccrualFields
    <3>2. accrual.reversed + x \in 0..Earned
      BY <1>2, <2>6, <3>1, CounterAssumption
    <3> QED BY <2>5, <3>1, <3>2 DEF AccrualRecords
  <2>8. drawer' \in Int
    BY <1>2, <1>3, <2>1
  <2> QED BY <1>3, <1>9, <1>13, <2>1, <2>4, <2>7, <2>8 DEF Accounts
<1>15. NothingSoldYet'
  BY <1>9 DEF NothingSoldYet
<1>16. DebtFits'
  <2>1. DebtIsTheSalesDue /\ (debt.status = "Open" => off = 0)
    BY <1>4, <1>5 DEF DebtFits
  <2>2. IsSale' <=> IsSale
    BY <1>9 DEF IsSale
  <2>3. ASSUME IsSale, debt'.status = "Open" PROVE debt'.outstanding = sale'.due /\ sale'.due > 0
    <3>1. debt.status = "Open"
      BY <1>2, <1>13, <2>3
    <3>2. out = due /\ due > 0
      BY <1>5, <2>1, <2>3, <3>1 DEF DebtIsTheSalesDue
    <3> QED BY <1>2, <1>9, <1>12, <1>13, <2>3, <3>2
  <2>4. ASSUME IsSale, sale'.due > 0 PROVE debt'.status \in {"Open", "WrittenOff"}
    <3>1. due > 0
      BY <1>2, <1>9, <2>4
    <3>2. debt.status \in {"Open", "WrittenOff"}
      BY <1>5, <2>1, <2>4, <3>1 DEF DebtIsTheSalesDue, Standing
    <3>3. credit > 0 => out = due
      BY <1>2, <1>7, <2>4
    <3> QED BY <1>2, <1>9, <1>13, <2>4, <3>2, <3>3
  <2>5. debt'.status = "Open" => debt'.writtenOff = 0
    BY <1>2, <1>13, <2>1
  <2> QED BY <2>2, <2>3, <2>4, <2>5 DEF DebtFits, DebtIsTheSalesDue
<1>17. Balanced'
  <2>1. PaidIn(tenders)' = PaidIn(tenders) + 0
    <3>1. (PaidIn(tenders))' = PaidIn(tenders')
      BY DEF PaidIn, SumFunction
    <3>2. PaidIn(tenders) \in Int
      BY <1>4, BalanceParts
    <3> QED BY <3>1, <3>2
  <2>2. debt'.collected = debt.collected + 0
    BY <1>10, <1>13, DebtFields
  <2>3. RefundedSoFar' = RefundedSoFar + (c + s)
    <3>1. RefundedSoFar' = back'.refunded["cash"] + back'.refunded["store_credit"]
      <4>1. PICK b \in BackRecords : b = back'
        BY <1>3
      <4>2. RefundedSoFar' = SumFunction(b.refunded)
        BY <4>1 DEF RefundedSoFar, SumFunction
      <4> QED BY <4>1, <4>2, RefundsOf
    <3>2. back.refunded["cash"] \in Nat /\ back.refunded["store_credit"] \in Nat
          /\ RefundedSoFar = back.refunded["cash"] + back.refunded["store_credit"]
      BY <1>4, RefundedNat, BackFields DEF Accounts
    <3> QED BY <1>2, <1>3, <3>1, <3>2
  <2>4. Owed' = Owed - credit
    <3>1. CASE IsSale
      BY <1>5, <1>9, <3>1 DEF Owed, IsSale
    <3>2. CASE ~IsSale
      <4>1. Owed' = (out - credit) + off /\ Owed = out + off
        BY <1>5, <1>9, <1>13, <3>2 DEF Owed, IsSale
      <4> QED BY <1>2, <4>1
    <3> QED BY <3>1, <3>2
  <2>5. Owed' = Owed + (-credit)
    <3>1. Owed \in Int
      BY <1>4, BalanceParts
    <3> QED BY <1>2, <2>4, <3>1
  <2>6. Balance' = Balance /\ Balance \in Int /\ Balance' \in Int
    <3>1. MovesBy(0, 0, c + s, -credit, value, fee)
      BY <1>2, <1>3, <1>9, <2>1, <2>2, <2>3, <2>5 DEF MovesBy
    <3>2. 0 + 0 - (c + s) + -credit + value + fee = 0
      BY <1>2
    <3>3. Balance' = Balance + 0 /\ Balance \in Int /\ Balance' \in Int
      BY <1>4, <3>1, <3>2, BalanceMoves
    <3> QED BY <3>3
  <2>7. Balance <= Cent /\ -Cent <= Balance /\ (IsSale /\ due > 0 => Balance = 0)
    BY <1>4, <1>5 DEF Balanced, Standing
  <2>8. IsSale' /\ sale'.due > 0 => IsSale /\ due > 0
    BY <1>2, <1>9 DEF IsSale
  <2> QED BY <2>6, <2>7, <2>8 DEF Balanced
<1>18. CashBackOnlyForCash'
  <2>1. (PaidBy(tenders, "cash"))' = PaidBy(tenders, "cash")
    BY DEF PaidBy, SumFunction
  <2> QED BY <1>3, <1>9, <2>1 DEF CashBackOnlyForCash, IsSale
<1>19. PointsFit'
  <2>1. accrual' = [asked |-> accrual.asked, earned |-> accrual.earned, reversed |-> accrual.reversed + x]
    BY <1>1 DEF SettledAs
  <2>2. /\ accrual.reversed + x <= accrual.earned
        /\ IsSale => PointsWithin(accrual.earned, accrual.reversed + x,
                                  Min({back.value + back.fee + value + fee, Total}), Total)
    BY <1>1, SettledPoints
  <2>3. Total' = Total /\ (IsSale' <=> IsSale)
    BY <1>9 DEF Total, IsSale
  <2>4. back'.value + back'.fee = back.value + back.fee + value + fee
    <3>1. back.value \in Nat /\ back.fee \in Nat
      BY <1>4, BackFields DEF Accounts
    <3> QED BY <1>3, <3>1
  <2>5. PointsFollowTheGoods'
    BY <2>1, <2>2, <2>3, <2>4 DEF PointsFollowTheGoods, PointsWithin
  <2>6. ~IsSale => ~accrual.asked /\ accrual.earned = 0
    BY <1>4 DEF PointsFit
  <2> QED BY <2>1, <2>2, <2>3, <2>5, <2>6 DEF PointsFit
<1> QED BY <1>3, <1>9, <1>14, <1>15, <1>16, <1>17, <1>18, <1>19

-----------------------------------------------------------------------------
(* The other steps keep MInv.                                              *)

\* What a step leaves alone moves nothing.
LEMMA StandStill ==
  ASSUME IInv, Accounts
  PROVE  /\ tenders' = tenders => (PaidIn(tenders))' = PaidIn(tenders) + 0
         /\ debt'.collected = debt.collected => debt'.collected = debt.collected + 0
         /\ back' = back => RefundedSoFar' = RefundedSoFar + 0 /\ back'.value = back.value + 0 /\ back'.fee = back.fee + 0
<1>1. PICK p \in Int, d \in Int, r \in Int : p = PaidIn(tenders) /\ d = debt.collected /\ r = RefundedSoFar
  BY BalanceParts
<1>2. PICK v \in Int, f \in Int : v = back.value /\ f = back.fee
  BY BalanceParts
<1>3. tenders' = tenders => (PaidIn(tenders))' = p
  BY <1>1 DEF PaidIn, SumFunction
<1>4. back' = back => RefundedSoFar' = r
  BY <1>1 DEF RefundedSoFar, SumFunction
<1> QED BY <1>1, <1>2, <1>3, <1>4

LEMMA MoneyStays ==
  ASSUME MInv, UNCHANGED <<sale, tenders, debt, back, drawer, customer, accrual>>, Places',
         job = "CANCELLED" => job' = "CANCELLED"
  PROVE  MInv'
<1>1. Accounts' /\ NothingSoldYet' /\ CashBackOnlyForCash'
  BY DEF MInv, Accounts, NothingSoldYet, CashBackOnlyForCash, IsSale, PaidBy, SumFunction
<1>2. GoodsFit' /\ DebtFits'
  BY DEF MInv, GoodsFit, DebtFits, DebtIsTheSalesDue, IsSale, Standing
<1>3. PointsFit'
  BY DEF MInv, PointsFit, PointsFollowTheGoods, IsSale, Total
<1>4. Balance' = Balance
  BY DEF Balance, PaidIn, SumFunction, RefundedSoFar, Owed, IsSale, Total
<1>5. Balanced'
  BY <1>4 DEF MInv, Balanced, Standing, IsSale
<1> QED BY <1>1, <1>2, <1>3, <1>5 DEF MInv

LEMMA WriteOffKeepsMoney == ASSUME IInv, MInv, WriteOff PROVE MInv'
<1>1. /\ debt.status = "Open" /\ UNCHANGED <<sale, tenders, drawer, customer, accrual, back, job, shelf, phase>>
      /\ debt' = [debt EXCEPT !.status = "WrittenOff", !.outstanding = 0, !.writtenOff = debt.outstanding]
  BY DEF WriteOff, moneyVars
<1>2. Accounts /\ debt \in DebtRecords
  BY DEF MInv, Accounts
<1>3. PICK out \in Nat, co \in Nat : out = debt.outstanding /\ co = debt.collected
  BY <1>2, DebtFields
<1>4. debt' = [status |-> "WrittenOff", outstanding |-> 0, collected |-> co, writtenOff |-> out]
  <2>1. PICK one : one = [debt EXCEPT !.status = "WrittenOff"]
    OBVIOUS
  <2>2. one = [status |-> "WrittenOff", outstanding |-> out, collected |-> co, writtenOff |-> debt.writtenOff]
    BY <1>2, <1>3, <2>1, DebtFields
  <2>3. PICK two : two = [one EXCEPT !.outstanding = 0]
    OBVIOUS
  <2>4. debt' = [two EXCEPT !.writtenOff = out]
    BY <1>1, <1>3, <2>1, <2>3
  <2> QED BY <2>2, <2>3, <2>4
<1>5. debt' \in DebtRecords
  BY <1>4 DEF DebtRecords
<1>6. Accounts' /\ Places' /\ NothingSoldYet' /\ GoodsFit' /\ CashBackOnlyForCash'
  BY <1>1, <1>5 DEF MInv, Accounts, Places, NothingSoldYet, GoodsFit, CashBackOnlyForCash, IsSale, PaidBy, SumFunction
<1>7. PointsFit'
  BY <1>1 DEF MInv, PointsFit, PointsFollowTheGoods, IsSale, Total
<1>8. DebtFits'
  BY <1>1, <1>4 DEF MInv, DebtFits, DebtIsTheSalesDue, IsSale, Standing
<1>9. Balanced'
  <2>1. Owed' = Owed + 0
    <3>1. debt.writtenOff = 0 /\ sale.due \in Nat
      BY <1>1, <1>2 DEF MInv, DebtFits, Accounts
    <3>2. CASE IsSale
      BY <1>1, <3>1, <3>2 DEF Owed, IsSale
    <3>3. CASE ~IsSale
      BY <1>1, <1>3, <1>4, <3>1, <3>3 DEF Owed, IsSale
    <3> QED BY <3>2, <3>3
  <2>2. MovesBy(0, 0, 0, 0, 0, 0)
    <3>1. debt'.collected = debt.collected
      BY <1>3, <1>4
    <3> QED BY <1>1, <1>2, <2>1, <3>1, StandStill DEF MovesBy
  <2>3. Balance' = Balance
    BY <1>2, <2>2, BalanceMoves
  <2> QED BY <1>1, <2>3 DEF MInv, Balanced, Standing, IsSale
<1> QED BY <1>6, <1>7, <1>8, <1>9 DEF MInv

LEMMA AccrueKeepsMoney == ASSUME MInv, IInv, Accrue PROVE MInv'
<1>1. /\ accrual.asked /\ accrual.earned = 0 /\ accrual' = [accrual EXCEPT !.earned = Earned]
      /\ customer' = [customer EXCEPT !.points = @ + Earned]
      /\ UNCHANGED <<sale, tenders, debt, back, drawer, job, shelf, phase>>
  BY DEF Accrue
<1>2. Accounts /\ PointsFit
  BY DEF MInv
<1>3. Earned \in Nat
  BY CounterAssumption
<1>4. /\ customer.credit \in Nat /\ customer.points \in Nat /\ customer.spent \in Nat
      /\ customer = [credit |-> customer.credit, points |-> customer.points, spent |-> customer.spent]
  BY <1>2, CustomerFields DEF Accounts
<1>5. customer' \in CustomerRecords
  <2>1. customer' = [credit |-> customer.credit, points |-> customer.points + Earned, spent |-> customer.spent]
    BY <1>1, <1>4
  <2>2. customer.points + Earned \in Nat
    BY <1>3, <1>4
  <2> QED BY <1>4, <2>1, <2>2 DEF CustomerRecords
<1>6. accrual.reversed = 0
  <2>1. accrual.reversed \in Nat /\ accrual.reversed <= 0
    BY <1>1, <1>2, AccrualFields DEF Accounts, PointsFit
  <2> QED BY <2>1
<1>7. accrual' = [asked |-> TRUE, earned |-> Earned, reversed |-> 0]
  <2>1. accrual = [asked |-> accrual.asked, earned |-> accrual.earned, reversed |-> accrual.reversed] /\ accrual.asked \in BOOLEAN
    BY <1>2, AccrualFields DEF Accounts
  <2> QED BY <1>1, <1>6, <2>1
<1>8. accrual' \in AccrualRecords
  BY <1>3, <1>7 DEF AccrualRecords
<1>9. IsSale
  BY <1>1, <1>2 DEF PointsFit
<1>10. PICK t \in Nat : t = Total
  <2>1. PICK o \in Offers \cup {NoOffer} : o = sale.offer
    BY DEF IInv, Shape
  <2>2. o.price \in Nat /\ o.fee \in Nat /\ o.tradeIn = 0
    BY <1>9, <2>1, PriceFacts DEF IsSale
  <2> QED BY <2>1, <2>2 DEF Total, TotalOf
<1>11. PICK b \in Nat : b = back.value + back.fee
  BY <1>2, BackFields DEF Accounts
<1>12. PointsFit'
  <2>1. PICK m \in Nat : m = Min({b, t})
    <3>1. Min({b, t}) = IF b <= t THEN b ELSE t
      BY SmallerOf
    <3> QED BY <3>1
  <2>2. 2 * PointScale * (0 * t - Earned * m) <= t
    <3>1. PICK p \in Nat : p = Earned * m
      BY <1>3, <2>1, SMT
    <3>2. PICK g \in Nat : g = 2 * PointScale
      BY PointScaleNat
    <3>3. g * (0 - p) <= g * 0 /\ g * (0 - p) \in Int /\ g * 0 = 0
      BY <3>1, <3>2, Grows
    <3>4. 0 * t - p = 0 - p
      BY <3>1
    <3> QED BY <1>10, <3>1, <3>2, <3>3, <3>4
  <2>3. Total' = t /\ back'.value + back'.fee = b /\ (IsSale' <=> IsSale)
    BY <1>1, <1>10, <1>11 DEF Total, IsSale
  <2>4. accrual'.earned = Earned /\ accrual'.reversed = 0
    BY <1>7
  <2>5. PointsFollowTheGoods'
    BY <2>1, <2>2, <2>3, <2>4 DEF PointsFollowTheGoods
  <2> QED BY <1>3, <1>9, <2>3, <2>4, <2>5 DEF PointsFit
<1>13. Accounts' /\ Places' /\ NothingSoldYet' /\ GoodsFit' /\ DebtFits' /\ CashBackOnlyForCash'
  <2>1. Accounts' /\ Places' /\ GoodsFit' /\ CashBackOnlyForCash'
    BY <1>1, <1>5, <1>8 DEF MInv, Accounts, Places, GoodsFit, CashBackOnlyForCash, IsSale, PaidBy, SumFunction
  <2>2. sale.status # "none"
    BY <1>1 DEF MInv, NothingSoldYet
  <2>3. NothingSoldYet' /\ DebtFits'
    BY <1>1, <2>2 DEF MInv, NothingSoldYet, DebtFits, DebtIsTheSalesDue, IsSale, Standing
  <2> QED BY <2>1, <2>3
<1>14. Balanced'
  <2>1. Balance' = Balance
    BY <1>1 DEF Balance, PaidIn, SumFunction, RefundedSoFar, Owed, IsSale, Total
  <2> QED BY <1>1, <2>1 DEF MInv, Balanced, Standing, IsSale
<1> QED BY <1>12, <1>13, <1>14 DEF MInv

LEMMA SpendKeepsMoney == ASSUME MInv, SpendElsewhere PROVE MInv'
<1>1. /\ customer' = [credit |-> 0, points |-> 0, spent |-> customer.spent + customer.credit]
      /\ UNCHANGED <<sale, tenders, debt, back, job, shelf, drawer, accrual, phase>>
  BY DEF SpendElsewhere
<1>2. customer' \in CustomerRecords
  <2>1. customer.spent \in Nat /\ customer.credit \in Nat
    BY CustomerFields DEF MInv, Accounts
  <2> QED BY <1>1, <2>1 DEF CustomerRecords
<1>3. Accounts' /\ Places' /\ NothingSoldYet' /\ GoodsFit' /\ CashBackOnlyForCash'
  BY <1>1, <1>2 DEF MInv, Accounts, Places, NothingSoldYet, GoodsFit, CashBackOnlyForCash, IsSale, PaidBy, SumFunction
<1>4. PointsFit' /\ DebtFits'
  BY <1>1 DEF MInv, PointsFit, PointsFollowTheGoods, IsSale, Total, DebtFits, DebtIsTheSalesDue, Standing
<1>5. Balance' = Balance
  BY <1>1 DEF Balance, PaidIn, SumFunction, RefundedSoFar, Owed, IsSale, Total
<1>6. Balanced'
  BY <1>1, <1>5 DEF MInv, Balanced, Standing, IsSale
<1> QED BY <1>3, <1>4, <1>6 DEF MInv

\* A first sale or exchange: nothing is back, and nothing was earned.
LEMMA PaymentsPositive ==
  ASSUME NEW ps \in Payments
  PROVE  PaidIn(ps) \in Nat /\ \A m : PaidBy(ps, m) \in Nat
<1>1. ps \in Seq([method : Method, amount : Nat \ {0}])
  BY CounterAssumption
<1>2. IsFiniteSet(DOMAIN ps) /\ \A i \in DOMAIN ps : ps[i] \in [method : Method, amount : Nat \ {0}]
  BY <1>1, PositionsFinite
<1>3. \A i \in DOMAIN ps : ps[i].amount \in Nat
  BY <1>2
<1>4. PaidIn(ps) \in Nat
  <2>1. \A i \in DOMAIN ps : AmountsOf(ps)[i] \in Nat
    BY <1>3 DEF AmountsOf
  <2> QED BY <1>2, <2>1, SumNatural, PaidUnfolds
<1>5. ASSUME NEW m PROVE PaidBy(ps, m) \in Nat
  <2>1. \A i \in DOMAIN ps : AmountsBy(ps, m)[i] \in Nat
    BY <1>3 DEF AmountsBy
  <2> QED BY <1>2, <2>1, SumNatural, PaidUnfolds
<1> QED BY <1>4, <1>5

LEMMA NothingRefunded ==
  NothingBack \in BackRecords /\ SumFunction(NothingBack.refunded) = 0 /\ NothingBack.refunded["cash"] = 0
<1>1. NothingBack \in BackRecords /\ NothingBack.refunded["cash"] = 0 /\ NothingBack.refunded["store_credit"] = 0
  BY DEF NothingBack, BackRecords, Method
<1>2. SumFunction(NothingBack.refunded) = NothingBack.refunded["cash"] + NothingBack.refunded["store_credit"]
  BY <1>1, RefundsOf
<1> QED BY <1>1, <1>2

LEMMA NothingFits ==
  ASSUME NEW o \in Offers
  PROVE  Fits(o.price, o.copies, 0, 0) /\ Fits(o.fee, o.bound, 0, 0)
<1>1. o.copies \in Nat /\ o.copies > 0 /\ o.bound \in Nat /\ (o.bound = 0 => o.fee = 0) /\ o.price \in Nat /\ o.fee \in Nat
  BY CounterAssumption
<1>2. ASSUME NEW whole \in Nat, NEW all \in Nat, all = 0 => whole = 0 PROVE Fits(whole, all, 0, 0)
  <2>1. PICK c \in Nat : c = Cent + 1
    BY CentNat
  <2>2. all * 0 = 0 /\ 2 * 0 = 0
    OBVIOUS
  <2>3. 0 * (2 * whole + all * c) = 0
    <3>1. PICK x \in Nat : x = all * c
      BY SMT
    <3> QED BY <3>1
  <2>4. 2 * (all * 0) <= 0 * (2 * whole + all * (Cent + 1))
    BY <2>1, <2>2, <2>3
  <2> QED BY <1>2, <2>4 DEF Fits
<1>3. PICK p \in Nat, n \in Nat, f \in Nat, b \in Nat : p = o.price /\ n = o.copies /\ f = o.fee /\ b = o.bound
  BY <1>1
<1> QED BY <1>1, <1>2, <1>3

LEMMA FirstSold ==
  ASSUME NEW o \in Offers, sale'.offer = o, back' = NothingBack, accrual'.earned = 0, accrual'.reversed = 0,
         o.kind = "sale" \/ ~accrual'.asked
  PROVE  GoodsFit' /\ PointsFit'
<1>1. GoodsFit'
  BY NothingFits DEF GoodsFit, NothingBack
<1>2. PICK t \in Int, o1 \in Nat : t = TotalOf(o) /\ (o.kind = "sale" => t = o1)
  <2>1. TotalOf(o) \in Int
    BY TotalInt
  <2>2. o.kind = "sale" => TotalOf(o) \in Nat
    BY PriceFacts DEF TotalOf
  <2> QED BY <2>1, <2>2
<1>3. PICK m \in Int : m = Min({0, t})
  <2>1. Min({0, t}) = IF 0 <= t THEN 0 ELSE t
    BY SmallerOf
  <2> QED BY <2>1
<1>4. 0 * t - 0 * m = 0 /\ 2 * PointScale * 0 = 0
  BY PointScaleNat
<1>5. Total' = t /\ back'.value + back'.fee = 0 /\ (IsSale' <=> o.kind = "sale")
  BY <1>2 DEF Total, NothingBack, IsSale
<1>6. PointsFollowTheGoods'
  <2>1. (Min({back.value + back.fee, Total}))' = m
    BY <1>3, <1>5
  <2> SUFFICES ASSUME IsSale'
               PROVE  2 * PointScale * (0 * t - 0 * m) <= t
    BY <1>5, <2>1 DEF PointsFollowTheGoods
  <2> QED BY <1>2, <1>4, <1>5
<1> QED BY <1>1, <1>5, <1>6 DEF PointsFit

\* Store credit is spent.
LEMMA CreditSpent ==
  ASSUME customer \in CustomerRecords, NEW p \in Int, p <= customer.credit,
         customer' = [customer EXCEPT !.credit = @ - p]
  PROVE  customer' \in CustomerRecords
<1>1. /\ customer.credit \in Nat /\ customer.points \in Nat /\ customer.spent \in Nat
      /\ customer = [credit |-> customer.credit, points |-> customer.points, spent |-> customer.spent]
  BY CustomerFields
<1>2. customer' = [credit |-> customer.credit - p, points |-> customer.points, spent |-> customer.spent]
  BY <1>1
<1>3. customer.credit - p \in Nat
  BY <1>1
<1> QED BY <1>1, <1>2, <1>3 DEF CustomerRecords

LEMMA NewDebtRecord == ASSUME NEW owed \in Int PROVE NewDebt(owed) \in DebtRecords
<1>1. NewDebt(owed).outstanding \in Nat
  BY NewDebtFacts
<1> QED BY <1>1 DEF NewDebt, DebtRecords

LEMMA SellKeepsMoney ==
  ASSUME IInv, MInv, NEW o \in Offers, NEW ps \in Payments, NEW onCredit \in BOOLEAN, Sell(o, ps, onCredit)
  PROVE  MInv'
<1>1. /\ sale.status = "none" /\ o.kind = "sale" /\ Accounts /\ Places
      /\ tenders = <<>> /\ back = NothingBack /\ accrual = [asked |-> FALSE, earned |-> 0, reversed |-> 0]
  BY DEF Sell, MInv, NothingSoldYet
<1>2. PICK paid \in Nat, cash \in Nat, store \in Nat :
        paid = PaidIn(ps) /\ cash = PaidBy(ps, "cash") /\ store = PaidBy(ps, "store_credit")
  BY PaymentsPositive
<1>3. PICK total \in Int : total = TotalOf(o)
  BY TotalInt
<1>4. PICK due : due = AmountDue(total, paid)
  OBVIOUS
<1>5. /\ sale' = [offer |-> o, status |-> "completed", due |-> due]
      /\ debt' = NewDebt(due) /\ accrual' = [accrual EXCEPT !.asked = ps # <<>>]
      /\ drawer' = drawer + cash /\ customer' = [customer EXCEPT !.credit = @ - store]
      /\ store <= customer.credit /\ back' = back /\ phase' = phase
      /\ job' = (IF o.bound > 0 THEN "REQUESTED" ELSE "none")
      /\ shelf' = [shelf EXCEPT !.sellable = -o.copies]
      /\ SalePaymentsAllowed(total, paid, onCredit)
  BY <1>2, <1>3, <1>4 DEF Sell, TakePayments, CanSpend
<1>6. PICK qs : qs = tenders'
  OBVIOUS
<1>7. qs = ps /\ ps \in Seq(Tender)
  BY <1>1, <1>6, PaymentsAreTenders DEF Sell, TakePayments
<1>8. /\ due \in Nat /\ due = IF total - paid > Cent THEN total - paid ELSE 0
      /\ total - paid <= Cent \/ due > 0
      /\ paid - total <= Cent
  <2>1. due = IF total - paid > Cent THEN total - paid ELSE 0
    BY <1>4 DEF AmountDue, Tolerance
  <2>2. paid - total <= Cent
    BY <1>5 DEF Tolerance, SalePaymentsAllowed
  <2> QED BY <2>1, <2>2, CentNat
<1>9. /\ debt' \in DebtRecords /\ debt'.status = (IF due > 0 THEN "Open" ELSE "None")
      /\ debt'.outstanding = due /\ debt'.collected = 0 /\ debt'.writtenOff = 0
  BY <1>5, <1>8, NewDebtRecord, NewDebtFacts
<1>10. Accounts'
  <2>1. customer' \in CustomerRecords
    BY <1>1, <1>2, <1>5, CreditSpent DEF Accounts
  <2>2. accrual' = [asked |-> ps # <<>>, earned |-> 0, reversed |-> 0]
    BY <1>1, <1>5
  <2>3. accrual' \in AccrualRecords
    BY <2>2, CounterAssumption DEF AccrualRecords
  <2>4. drawer' \in Int
    BY <1>1, <1>2, <1>5 DEF Accounts
  <2> QED BY <1>1, <1>5, <1>6, <1>7, <1>8, <1>9, <2>1, <2>3, <2>4 DEF Accounts
<1>11. Places'
  <2>1. o.copies \in Nat
    BY CounterAssumption
  <2>2. shelf' \in ShelfRecords
    BY <1>1, <1>5, <2>1 DEF Places, ShelfRecords
  <2> QED BY <1>1, <1>5, <2>2 DEF Places, Jobs
<1>12. GoodsFit' /\ PointsFit'
  <2>1. accrual'.earned = 0 /\ accrual'.reversed = 0
    BY <1>1, <1>5
  <2> QED BY <1>1, <1>5, <2>1, FirstSold
<1>13. DebtFits'
  BY <1>5, <1>8, <1>9 DEF DebtFits, DebtIsTheSalesDue, Standing
<1>14. Balanced'
  <2>1. (PaidIn(tenders))' = paid
    <3>1. (PaidIn(tenders))' = PaidIn(qs)
      BY <1>6 DEF PaidIn, SumFunction
    <3> QED BY <1>2, <1>7, <3>1
  <2>2. RefundedSoFar' = 0
    BY <1>1, <1>5, NothingRefunded DEF RefundedSoFar, SumFunction
  <2>3. Owed' = due /\ Total' = total /\ back'.value = 0 /\ back'.fee = 0
    BY <1>1, <1>3, <1>5 DEF Owed, IsSale, Total, NothingBack
  <2>4. Balance' = (paid + 0 - 0) + due - (total - 0 - 0)
    BY <1>9, <2>1, <2>2, <2>3 DEF Balance
  <2>5. Balance' = paid + due - total
    BY <1>8, <2>4
  <2>6. paid + due - total \in Int /\ paid + due - total <= Cent /\ -Cent <= paid + due - total
    BY <1>8, CentNat
  <2>7. due > 0 => paid + due - total = 0
    BY <1>8
  <2>8. sale'.due = due
    BY <1>5
  <2> QED BY <2>5, <2>6, <2>7, <2>8 DEF Balanced
<1>15. CashBackOnlyForCash'
  <2>1. (PaidBy(tenders, "cash"))' = PaidBy(qs, "cash")
    BY <1>6 DEF PaidBy, SumFunction
  <2> QED BY <1>1, <1>2, <1>5, <1>7, <2>1, NothingRefunded DEF CashBackOnlyForCash
<1>16. NothingSoldYet'
  BY <1>5 DEF NothingSoldYet
<1> QED BY <1>10, <1>11, <1>12, <1>13, <1>14, <1>15, <1>16 DEF MInv

\* What an exchange gives back is a negative payment: no more store credit is spent than paid.
LEMMA ExchangeStoreCredit ==
  ASSUME NEW o \in Offers, NEW ps \in Payments, NEW onCredit \in BOOLEAN, NEW m \in Method, Exchange(o, ps, onCredit, m)
  PROVE  PaidBy(tenders', "store_credit") <= PaidBy(ps, "store_credit")
<1>1. ps \in Seq(Tender) /\ PaidBy(ps, "store_credit") \in Nat
  BY PaymentsAreTenders, PaymentsPositive
<1>2. CASE SettlementType(TotalOf(o)) # "Store_Refunds"
  BY <1>1, <1>2, ExchangeTenders
<1>3. CASE SettlementType(TotalOf(o)) = "Store_Refunds"
  <2>1. PICK n \in Int : n = TotalOf(o)
    BY TotalInt
  <2>2. n < 0
    BY <1>3, <2>1, CentNat DEF SettlementType, Tolerance
  <2>3. PICK t : t = [method |-> m, amount |-> n]
    OBVIOUS
  <2>4. t \in Tender /\ t.amount = n
    BY <2>1, <2>3 DEF Tender
  <2>5. PICK qs : qs = tenders'
    OBVIOUS
  <2>6. qs = With(ps, t)
    BY <1>3, <2>1, <2>3, <2>5 DEF Exchange, With
  <2>7. PaidBy(qs, "store_credit") = PaidBy(ps, "store_credit") + (IF t.method = "store_credit" THEN t.amount ELSE 0)
    BY <1>1, <2>4, <2>6, PaidOneMore
  <2> QED BY <1>1, <2>2, <2>4, <2>5, <2>7
<1> QED BY <1>2, <1>3

LEMMA ExchangeKeepsMoney ==
  ASSUME IInv, MInv, NEW o \in Offers, NEW ps \in Payments, NEW onCredit \in BOOLEAN, NEW m \in Method,
         Exchange(o, ps, onCredit, m)
  PROVE  MInv'
<1>1. /\ sale.status = "none" /\ o.kind = "exchange" /\ Accounts /\ Places
      /\ tenders = <<>> /\ back = NothingBack /\ accrual = [asked |-> FALSE, earned |-> 0, reversed |-> 0]
  BY DEF Exchange, MInv, NothingSoldYet
<1>2. PICK paid \in Nat, store \in Nat : paid = PaidIn(ps) /\ store = PaidBy(ps, "store_credit")
  BY PaymentsPositive
<1>3. PICK net \in Int, type \in {"Customer_Pays", "Store_Refunds", "Even"} : net = TotalOf(o) /\ type = SettlementType(net)
  BY TotalInt DEF SettlementType
<1>4. PICK qs : qs = tenders'
  OBVIOUS
<1>5. /\ qs \in Seq(Tender) /\ PaidBy(qs, "store_credit") <= store
      /\ PaidIn(qs) = IF type = "Store_Refunds" THEN paid + net ELSE paid
  <2>1. qs \in Seq(Tender)
    BY <1>4, ExchangeTenders
  <2>2. PaidBy(qs, "store_credit") <= store
    BY <1>2, <1>4, ExchangeStoreCredit
  <2>3. CASE type = "Store_Refunds"
    BY <1>2, <1>3, <1>4, <2>1, <2>2, <2>3, ExchangeTenders
  <2>4. CASE type # "Store_Refunds"
    BY <1>2, <1>3, <1>4, <2>1, <2>2, <2>4, ExchangeTenders
  <2> QED BY <2>3, <2>4
<1>6. PICK cash \in Int, out \in Int : cash = PaidBy(qs, "cash") /\ out = PaidBy(qs, "store_credit")
  BY <1>5, PaidTypes
<1>7. PICK owed : owed = IF type = "Customer_Pays" THEN net - paid ELSE 0
  OBVIOUS
<1>8. /\ sale' = [offer |-> o, status |-> "completed", due |-> 0]
      /\ debt' = NewDebt(owed) /\ accrual' = accrual /\ back' = back /\ phase' = phase
      /\ drawer' = cash /\ customer' = [customer EXCEPT !.credit = @ - out] /\ store <= customer.credit
      /\ job' = (IF o.bound > 0 THEN "REQUESTED" ELSE "none")
      /\ shelf' = [shelf EXCEPT !.sellable = -o.copies, !.tradeIn = 1]
      /\ SettlementAllowed(net, paid, onCredit)
  BY <1>2, <1>3, <1>4, <1>6, <1>7 DEF Exchange, CanSpend
<1>9. owed \in Int
  BY <1>7
<1>10. PICK left \in Nat : left = IF owed > 0 THEN owed ELSE 0
  BY <1>9
<1>11. /\ debt' \in DebtRecords /\ debt'.outstanding = left /\ debt'.collected = 0 /\ debt'.writtenOff = 0
  BY <1>8, <1>9, <1>10, NewDebtRecord, NewDebtFacts
<1>12. Accounts'
  <2>1. out <= customer.credit
    <3>1. customer.credit \in Nat
      BY <1>1, CustomerFields DEF Accounts
    <3> QED BY <1>5, <1>6, <1>8, <3>1
  <2>2. customer' \in CustomerRecords
    BY <1>1, <1>8, <2>1, CreditSpent DEF Accounts
  <2> QED BY <1>1, <1>4, <1>5, <1>8, <1>11, <2>2 DEF Accounts
<1>13. Places'
  <2>1. o.copies \in Nat
    BY CounterAssumption
  <2>2. PICK one : one = [shelf EXCEPT !.sellable = -o.copies]
    OBVIOUS
  <2>3. one \in ShelfRecords
    BY <1>1, <2>1, <2>2 DEF Places, ShelfRecords
  <2>4. shelf' = [one EXCEPT !.tradeIn = 1]
    BY <1>8, <2>2
  <2>5. shelf' \in ShelfRecords
    BY <2>3, <2>4 DEF ShelfRecords
  <2> QED BY <1>1, <1>8, <2>5 DEF Places, Jobs
<1>14. GoodsFit' /\ PointsFit'
  <2>1. accrual'.earned = 0 /\ accrual'.reversed = 0 /\ ~accrual'.asked
    BY <1>1, <1>8
  <2> QED BY <1>1, <1>8, <2>1, FirstSold
<1>15. DebtFits' /\ CashBackOnlyForCash'
  <2>1. ~IsSale'
    BY <1>1, <1>8 DEF IsSale
  <2> QED BY <1>11, <2>1 DEF DebtFits, DebtIsTheSalesDue, CashBackOnlyForCash
<1>16. PaidIn(qs) + left - net \in Int /\ PaidIn(qs) + left - net <= Cent /\ -Cent <= PaidIn(qs) + left - net
  <2>1. CASE type = "Customer_Pays"
    <3>1. PaidIn(qs) = paid /\ owed = net - paid /\ paid - net <= Cent
      BY <1>5, <1>7, <1>8, <1>3, <2>1 DEF SettlementAllowed, SalePaymentsAllowed, Tolerance
    <3> QED BY <1>10, <3>1, CentNat
  <2>2. CASE type # "Customer_Pays"
    <3>1. paid = 0 /\ owed = 0
      BY <1>3, <1>7, <1>8, <2>2 DEF SettlementAllowed
    <3>2. left = 0
      BY <1>10, <3>1
    <3>3. CASE type = "Store_Refunds"
      <4>1. PaidIn(qs) = net
        BY <1>5, <3>1, <3>3
      <4> QED BY <3>2, <4>1, CentNat
    <3>4. CASE type # "Store_Refunds"
      <4>1. PaidIn(qs) = 0
        BY <1>5, <3>1, <3>4
      <4>2. net <= Cent /\ -Cent <= net
        BY <1>3, <2>2, <3>4, CentNat DEF SettlementType, Tolerance
      <4> QED BY <3>2, <4>1, <4>2, CentNat
    <3> QED BY <3>3, <3>4
  <2> QED BY <2>1, <2>2
<1>17. Balanced'
  <2>1. (PaidIn(tenders))' = PaidIn(qs) /\ PaidIn(qs) \in Int
    <3>1. (PaidIn(tenders))' = PaidIn(qs)
      BY <1>4 DEF PaidIn, SumFunction
    <3> QED BY <1>5, <3>1, PaidTypes
  <2>2. RefundedSoFar' = 0
    BY <1>1, <1>8, NothingRefunded DEF RefundedSoFar, SumFunction
  <2>3. Owed' = left + 0 /\ Total' = net /\ back'.value = 0 /\ back'.fee = 0 /\ ~IsSale'
    BY <1>1, <1>3, <1>8, <1>11 DEF Owed, IsSale, Total, NothingBack
  <2>4. Balance' = (PaidIn(qs) + 0 - 0) + (left + 0) - (net - 0 - 0)
    BY <1>11, <2>1, <2>2, <2>3 DEF Balance
  <2>5. Balance' = PaidIn(qs) + left - net
    BY <2>1, <2>4
  <2> QED BY <1>16, <2>3, <2>5 DEF Balanced
<1>18. NothingSoldYet'
  BY <1>8 DEF NothingSoldYet
<1> QED BY <1>12, <1>13, <1>14, <1>15, <1>17, <1>18 DEF MInv

LEMMA CollectKeepsMoney ==
  ASSUME IInv, MInv, NEW m \in Method, NEW amount \in Amounts, Collect(m, amount)
  PROVE  MInv'
<1>1. /\ IsSale /\ sale.status = "completed" /\ sale.due > 0 /\ amount <= sale.due /\ debt.status # "WrittenOff"
      /\ Accounts /\ DebtFits /\ Balanced
      /\ UNCHANGED <<back, job, shelf, phase>>
  BY DEF Collect, CanCollect, MInv
<1>2. PICK t : t = [method |-> m, amount |-> amount]
  OBVIOUS
<1>3. PICK one : one = <<t>>
  OBVIOUS
<1>4. /\ t \in Tender /\ amount \in Nat /\ amount > 0 /\ t.amount = amount /\ one \in Seq(Tender)
      /\ \A n : PaidBy(one, n) = IF n = m THEN amount ELSE 0
  BY <1>2, <1>3, OneTender
<1>5. PICK cash \in Nat, store \in Nat : cash = PaidBy(one, "cash") /\ store = PaidBy(one, "store_credit")
  BY <1>4
<1>6. PICK due \in Nat : due = sale.due
  BY <1>1 DEF Accounts
<1>7. PICK left : left = DueAfterCollect(due, amount)
  OBVIOUS
<1>8. left \in Nat /\ left = IF due - amount > Cent THEN due - amount ELSE 0
  BY <1>1, <1>4, <1>6, <1>7 DEF DueAfterCollect, Tolerance
<1>9. PICK qs : qs = tenders'
  OBVIOUS
<1>10. /\ qs = With(tenders, t) /\ drawer' = drawer + cash /\ customer' = [customer EXCEPT !.credit = @ - store]
       /\ store <= customer.credit
       /\ sale' = [sale EXCEPT !.due = left] /\ debt' = DebtAfterPayment(left)
       /\ accrual' = [accrual EXCEPT !.asked = @ \/ left = 0]
  BY <1>2, <1>3, <1>5, <1>6, <1>7, <1>9 DEF Collect, TakePayments, CanSpend, With
<1>11. /\ qs \in Seq(Tender) /\ PaidIn(qs) = PaidIn(tenders) + amount /\ PaidBy(qs, "cash") >= PaidBy(tenders, "cash")
  <2>1. tenders \in Seq(Tender)
    BY <1>1 DEF Accounts
  <2>2. /\ qs \in Seq(Tender) /\ PaidIn(qs) = PaidIn(tenders) + amount
        /\ PaidBy(qs, "cash") = PaidBy(tenders, "cash") + (IF t.method = "cash" THEN t.amount ELSE 0)
    BY <1>4, <1>10, <2>1, PaidOneMore
  <2>3. PICK c \in Int : c = PaidBy(tenders, "cash")
    BY <2>1, PaidTypes
  <2> QED BY <1>4, <2>2, <2>3
<1>12. sale' = [offer |-> sale.offer, status |-> "completed", due |-> left]
  BY <1>1, <1>10 DEF IInv, Shape
<1>13. debt.status = "Open" /\ debt.outstanding = due /\ debt.writtenOff = 0 /\ debt \in DebtRecords
  BY <1>1, <1>6 DEF DebtFits, DebtIsTheSalesDue, Standing, Accounts
<1>14. debt' = [status |-> IF left = 0 THEN "Settled" ELSE "Open", outstanding |-> left,
                collected |-> debt.collected, writtenOff |-> 0]
  <2>1. PICK two : two = [debt EXCEPT !.outstanding = left]
    OBVIOUS
  <2>2. two = [status |-> debt.status, outstanding |-> left, collected |-> debt.collected, writtenOff |-> 0]
    BY <1>13, <2>1, DebtFields
  <2>3. debt' = [two EXCEPT !.status = IF left = 0 THEN "Settled" ELSE "Open"]
    BY <1>10, <1>13, <2>1 DEF DebtAfterPayment
  <2> QED BY <2>2, <2>3
<1>15. debt' \in DebtRecords
  <2>1. debt.collected \in Nat
    BY <1>13, DebtFields
  <2> QED BY <1>8, <1>14, <2>1 DEF DebtRecords
<1>16. /\ accrual'.earned = accrual.earned /\ accrual'.reversed = accrual.reversed /\ accrual' \in AccrualRecords
  <2>1. accrual \in AccrualRecords
    BY <1>1 DEF Accounts
  <2>2. accrual' = [asked |-> accrual.asked \/ left = 0, earned |-> accrual.earned, reversed |-> accrual.reversed]
    BY <1>10, <2>1, AccrualFields
  <2> QED BY <2>1, <2>2 DEF AccrualRecords
<1>17. Accounts'
  <2>1. customer' \in CustomerRecords
    BY <1>1, <1>5, <1>10, CreditSpent DEF Accounts
  <2>2. drawer' \in Int
    BY <1>1, <1>5, <1>10 DEF Accounts
  <2> QED BY <1>1, <1>8, <1>9, <1>11, <1>12, <1>15, <1>16, <2>1, <2>2 DEF Accounts
<1>18. Places' /\ GoodsFit' /\ NothingSoldYet'
  BY <1>1, <1>12 DEF MInv, Places, GoodsFit, NothingSoldYet
<1>19. DebtFits'
  BY <1>8, <1>12, <1>14 DEF DebtFits, DebtIsTheSalesDue, Standing
<1>20. Balanced'
  <2>1. (PaidIn(tenders))' = PaidIn(tenders) + amount
    <3>1. (PaidIn(tenders))' = PaidIn(qs)
      BY <1>9 DEF PaidIn, SumFunction
    <3> QED BY <1>11, <3>1
  <2>2. Owed' = Owed + (left - due)
    <3>1. Owed = due /\ Owed' = left
      BY <1>1, <1>6, <1>12 DEF Owed, IsSale
    <3> QED BY <1>8, <3>1
  <2>3. MovesBy(amount, 0, 0, left - due, 0, 0)
    <3>1. debt'.collected = debt.collected /\ sale'.offer = sale.offer /\ back' = back
      BY <1>1, <1>12, <1>14
    <3>2. amount \in Int /\ left - due \in Int
      BY <1>4, <1>8
    <3> QED BY <1>1, <2>1, <2>2, <3>1, <3>2, StandStill DEF MovesBy
  <2>4. Balance = 0
    BY <1>1 DEF Balanced, Standing
  <2>5. Balance' = amount + left - due
    <3>1. Balance' = Balance + (amount + 0 - 0 + (left - due) + 0 + 0)
      BY <1>1, <2>3, BalanceMoves
    <3> QED BY <1>4, <1>8, <2>4, <3>1
  <2>6. /\ amount + left - due \in Int /\ amount + left - due <= Cent /\ -Cent <= amount + left - due
        /\ left > 0 => amount + left - due = 0
    BY <1>1, <1>4, <1>6, <1>8, CentNat
  <2>7. sale'.due = left
    BY <1>12
  <2> QED BY <2>5, <2>6, <2>7 DEF Balanced
<1>21. CashBackOnlyForCash'
  <2>1. (PaidBy(tenders, "cash"))' = PaidBy(qs, "cash")
    BY <1>9 DEF PaidBy, SumFunction
  <2>2. back.refunded["cash"] <= PaidBy(tenders, "cash") /\ back.refunded["cash"] \in Nat
    BY <1>1, BackFields DEF MInv, CashBackOnlyForCash, Accounts
  <2>3. PaidBy(tenders, "cash") \in Int /\ PaidBy(qs, "cash") \in Int
    BY <1>1, <1>11, PaidTypes DEF Accounts
  <2>4. back.refunded["cash"] <= PaidBy(qs, "cash")
    BY <1>11, <2>2, <2>3
  <2> QED BY <1>1, <2>1, <2>4 DEF CashBackOnlyForCash
<1>22. PointsFit'
  <2>1. Total' = Total /\ IsSale /\ IsSale' /\ back' = back
    BY <1>1, <1>12 DEF Total, IsSale
  <2>2. PointsFollowTheGoods'
    <3>1. PointsFollowTheGoods
      BY <1>1 DEF MInv, PointsFit
    <3> QED BY <1>16, <2>1, <3>1 DEF PointsFollowTheGoods
  <2> QED BY <1>16, <2>1, <2>2 DEF MInv, PointsFit
<1> QED BY <1>17, <1>18, <1>19, <1>20, <1>21, <1>22 DEF MInv

LEMMA CollectDebtKeepsMoney ==
  ASSUME IInv, MInv, NEW m \in Method, NEW amount \in Amounts, CollectDebt(m, amount)
  PROVE  MInv'
<1>1. /\ ~IsSale /\ debt.status = "Open" /\ amount <= debt.outstanding /\ debt.writtenOff = 0
      /\ Accounts /\ Balanced
      /\ UNCHANGED <<sale, tenders, back, job, shelf, accrual, phase>>
  BY DEF CollectDebt, MInv, IsSale, DebtFits
<1>2. amount \in Nat
  BY CounterAssumption
<1>3. debt \in DebtRecords
  BY <1>1 DEF Accounts
<1>4. PICK out \in Nat, co \in Nat : out = debt.outstanding /\ co = debt.collected
  BY <1>3, DebtFields
<1>5. PICK left \in Nat : left = out - amount
  BY <1>1, <1>2, <1>4
<1>6. debt' = [status |-> IF left = 0 THEN "Settled" ELSE "Open", outstanding |-> left, collected |-> co + amount,
               writtenOff |-> 0]
  <2>1. PICK two : two = [debt EXCEPT !.outstanding = left]
    OBVIOUS
  <2>2. two = [status |-> debt.status, outstanding |-> left, collected |-> co, writtenOff |-> 0]
    BY <1>1, <1>3, <1>4, <2>1, DebtFields
  <2>3. PICK three : three = [two EXCEPT !.status = IF left = 0 THEN "Settled" ELSE "Open"]
    OBVIOUS
  <2>4. DebtAfterPayment(left) = three
    BY <1>1, <2>1, <2>3 DEF DebtAfterPayment
  <2>5. debt' = [three EXCEPT !.collected = @ + amount]
    BY <1>4, <1>5, <2>4 DEF CollectDebt
  <2> QED BY <2>2, <2>3, <2>5
<1>7. debt' \in DebtRecords
  BY <1>2, <1>6 DEF DebtRecords
<1>8. customer' \in CustomerRecords
  <2>1. CASE m = "store_credit"
    BY <1>1, <1>2, <2>1, CreditSpent DEF Accounts, CollectDebt
  <2>2. CASE m # "store_credit"
    BY <1>1, <2>2 DEF Accounts, CollectDebt
  <2> QED BY <2>1, <2>2
<1>9. drawer' \in Int
  BY <1>1, <1>2 DEF Accounts, CollectDebt
<1>10. Accounts' /\ Places' /\ NothingSoldYet' /\ GoodsFit' /\ CashBackOnlyForCash'
  BY <1>1, <1>7, <1>8, <1>9
     DEF MInv, Accounts, Places, NothingSoldYet, GoodsFit, CashBackOnlyForCash, IsSale, PaidBy, SumFunction
<1>11. PointsFit'
  BY <1>1 DEF MInv, PointsFit, PointsFollowTheGoods, IsSale, Total
<1>12. DebtFits'
  BY <1>1, <1>6 DEF DebtFits, DebtIsTheSalesDue, IsSale
<1>13. Balanced'
  <2>1. Owed' = Owed + (-amount)
    <3>1. Owed = out + 0 /\ Owed' = left + 0
      BY <1>1, <1>4, <1>6 DEF Owed, IsSale
    <3> QED BY <1>2, <1>5, <3>1
  <2>2. MovesBy(0, amount, 0, -amount, 0, 0)
    <3>1. debt'.collected = debt.collected + amount
      BY <1>4, <1>6
    <3>2. amount \in Int /\ -amount \in Int
      BY <1>2
    <3> QED BY <1>1, <2>1, <3>1, <3>2, StandStill DEF MovesBy
  <2>3. Balance' = Balance + (0 + amount - 0 + (-amount) + 0 + 0) /\ Balance \in Int
    BY <1>1, <2>2, BalanceMoves
  <2>4. Balance' = Balance
    BY <1>2, <2>3
  <2> QED BY <1>1, <2>4 DEF Balanced, Standing, IsSale
<1> QED BY <1>10, <1>11, <1>12, <1>13 DEF MInv

LEMMA VoidKeepsMoney == ASSUME IInv, MInv, NEW w \in Worker, Void(w) PROVE MInv'
<1>1. /\ sale.status = "completed" /\ UNCHANGED <<tenders, back, accrual, phase>> /\ Accounts /\ Places
  BY DEF Void, IInv, LocksHold, HoldsSale, MInv
<1>2. CASE ~(JobCancellable(job) /\ debt.status # "WrittenOff" /\ CreditUnspent)
  <2>1. UNCHANGED <<sale, job, debt, shelf, drawer, customer>>
    BY <1>2 DEF Void
  <2>2. Places'
    BY <1>1, <2>1 DEF Places
  <2> QED BY <1>1, <2>1, <2>2, MoneyStays
<1>3. CASE JobCancellable(job) /\ debt.status # "WrittenOff" /\ CreditUnspent
  <2>1. PICK gone : gone = VoidedPoints
    OBVIOUS
  <2>2. /\ sale' = [sale EXCEPT !.status = "voided"]
        /\ job' = (IF job = "REQUESTED" THEN "CANCELLED" ELSE job)
        /\ debt' = DebtAfterVoid(debt)
        /\ shelf' = [shelf EXCEPT !.sellable = @ + sale.offer.copies, !.tradeIn = 0]
        /\ drawer' = drawer - HandedBack(tenders)["cash"]
        /\ customer' = [customer EXCEPT !.credit = @ + HandedBack(tenders)["store_credit"], !.points = @ - gone]
    BY <1>3, <2>1 DEF Void
  <2>3. PICK c \in Int, s \in Int : c = PaidBy(tenders, "cash") /\ s = PaidBy(tenders, "store_credit")
    BY <1>1, PaidTypes DEF Accounts
  <2>4. HandedBack(tenders)["cash"] = c /\ HandedBack(tenders)["store_credit"] = s
    BY <2>3 DEF HandedBack, Method
  <2>5. /\ customer.credit \in Nat /\ customer.points \in Nat /\ customer.spent \in Nat
        /\ customer = [credit |-> customer.credit, points |-> customer.points, spent |-> customer.spent]
    BY <1>1, CustomerFields DEF Accounts
  <2>6. customer.credit + s \in Nat
    BY <1>3, <2>3, <2>4, <2>5 DEF CreditUnspent
  <2>7. gone \in Nat /\ gone <= customer.points
    <3>1. accrual.earned \in Nat
      BY <1>1, AccrualFields DEF Accounts
    <3>2. Min({accrual.earned, customer.points}) = IF accrual.earned <= customer.points THEN accrual.earned ELSE customer.points
      BY <2>5, <3>1, SmallerOf
    <3> QED BY <2>1, <2>5, <3>1, <3>2 DEF VoidedPoints
  <2>8. customer' \in CustomerRecords
    <3>1. PICK one : one = [customer EXCEPT !.credit = @ + s]
      OBVIOUS
    <3>2. one = [credit |-> customer.credit + s, points |-> customer.points, spent |-> customer.spent]
      BY <2>5, <3>1
    <3>3. customer' = [one EXCEPT !.points = @ - gone]
      BY <2>2, <2>4, <3>1
    <3>4. customer' = [credit |-> customer.credit + s, points |-> customer.points - gone, spent |-> customer.spent]
      BY <3>2, <3>3
    <3>5. customer.points - gone \in Nat
      BY <2>5, <2>7
    <3> QED BY <2>5, <2>6, <3>4, <3>5 DEF CustomerRecords
  <2>9. debt' \in DebtRecords /\ debt'.status \in {"None", "Cancelled"}
    <3>1. debt \in DebtRecords
      BY <1>1 DEF Accounts
    <3>2. CASE debt.status = "None"
      BY <2>2, <3>1, <3>2 DEF DebtAfterVoid
    <3>3. CASE debt.status # "None"
      <4>1. PICK one : one = [debt EXCEPT !.status = "Cancelled"]
        OBVIOUS
      <4>2. one = [status |-> "Cancelled", outstanding |-> debt.outstanding, collected |-> debt.collected,
                   writtenOff |-> debt.writtenOff]
        BY <3>1, <4>1, DebtFields
      <4>3. debt' = [one EXCEPT !.outstanding = 0]
        BY <2>2, <3>3, <4>1 DEF DebtAfterVoid
      <4>4. debt' = [status |-> "Cancelled", outstanding |-> 0, collected |-> debt.collected, writtenOff |-> debt.writtenOff]
        BY <4>2, <4>3
      <4>5. debt.collected \in Nat /\ debt.writtenOff \in Nat
        BY <3>1, DebtFields
      <4> QED BY <4>4, <4>5 DEF DebtRecords
    <3> QED BY <3>2, <3>3
  <2>10. sale' = [offer |-> sale.offer, status |-> "voided", due |-> sale.due]
    BY <2>2 DEF IInv, Shape
  <2>11. Accounts'
    <3>1. drawer' \in Int
      BY <1>1, <2>2, <2>3, <2>4 DEF Accounts
    <3> QED BY <1>1, <2>8, <2>9, <2>10, <3>1 DEF Accounts
  <2>12. Places'
    <3>1. sale.offer.copies \in Nat
      BY PriceFacts DEF IInv, Shape
    <3>2. PICK one : one = [shelf EXCEPT !.sellable = @ + sale.offer.copies]
      OBVIOUS
    <3>3. one \in ShelfRecords
      BY <1>1, <3>1, <3>2 DEF Places, ShelfRecords
    <3>4. shelf' = [one EXCEPT !.tradeIn = 0]
      BY <2>2, <3>2
    <3>5. shelf' \in ShelfRecords
      BY <3>3, <3>4 DEF ShelfRecords
    <3> QED BY <1>1, <2>2, <3>5 DEF Places, Jobs
  <2>13. GoodsFit'
    BY <1>1, <2>2, <2>10 DEF MInv, GoodsFit
  <2>14. DebtFits' /\ Balanced' /\ NothingSoldYet'
    BY <2>9, <2>10 DEF DebtFits, DebtIsTheSalesDue, Standing, Balanced, NothingSoldYet
  <2>15. CashBackOnlyForCash'
    BY <1>1, <2>10 DEF MInv, CashBackOnlyForCash, IsSale, PaidBy, SumFunction
  <2>16. PointsFit'
    <3>1. sale'.offer = sale.offer
      BY <2>10
    <3> QED BY <1>1, <3>1 DEF MInv, PointsFit, PointsFollowTheGoods, IsSale, Total
  <2> QED BY <2>11, <2>12, <2>13, <2>14, <2>15, <2>16 DEF MInv
<1> QED BY <1>2, <1>3

\* What is left of the price or the fee is given back.
LEMMA CostEnough ==
  ASSUME OffersCostEnough, IInv
  PROVE  CostsEnough(sale.offer.price, sale.offer.copies) /\ CostsEnough(sale.offer.fee, sale.offer.bound)
<1>1. CASE sale.offer \in Offers
  BY <1>1 DEF OffersCostEnough
<1>2. CASE sale.offer = NoOffer
  BY <1>2 DEF NoOffer, CostsEnough
<1> QED BY <1>1, <1>2 DEF IInv, Shape

LEMMA ReturnKeepsMoney ==
  ASSUME OffersCostEnough, IInv, MInv, NEW w \in Worker, NEW plain \in 0..sale.offer.copies,
         NEW defective \in 0..sale.offer.copies, NEW damaged \in BOOLEAN, NEW afterWindow \in AfterWindow,
         Return(w, plain, defective, damaged, afterWindow)
  PROVE  MInv'
<1>1. PICK price \in Nat, copies \in Nat, whole \in Nat, bound \in Nat :
        price = sale.offer.price /\ copies = sale.offer.copies /\ whole = sale.offer.fee /\ bound = sale.offer.bound
  BY PriceFacts DEF IInv, Shape
<1>2. Accounts /\ Places /\ GoodsFit
  BY DEF MInv
<1>3. PICK k \in Nat, b \in Nat, v \in Nat, f \in Nat :
        k = back.copies /\ b = back.bound /\ v = back.value /\ f = back.fee
  BY <1>2, BackFields DEF Accounts
<1>4. plain \in Nat /\ defective \in Nat
  BY <1>1
<1>5. PICK plainValue : plainValue = LineValue(price, copies, k, v, plain)
  OBVIOUS
<1>6. PICK boundValue : boundValue = LineValue(price, copies, k + plain, v + plainValue, defective)
  OBVIOUS
<1>7. PICK fee : fee = IF defective > 0 THEN FeeShare(whole, bound, b, f, defective) ELSE 0
  OBVIOUS
<1>8. PICK only : Settle(plain + defective, defective, plainValue + boundValue, fee, only)
  BY <1>1, <1>3, <1>5, <1>6, <1>7 DEF Return
<1>9. /\ HoldsSale(w) /\ plain + defective \in 1..(copies - k)
      /\ BoundReturnAllowed(copies, Bound, k, b, plain, defective, job)
      /\ job' = (IF defective > 0 THEN JobAfterFeeReturn(job, "DEFECT", back'.bound, bound) ELSE job)
      /\ shelf' = [shelf EXCEPT !.sellable = @ + (IF damaged THEN 0 ELSE plain),
                                !.damaged = @ + defective + (IF damaged THEN plain ELSE 0)]
      /\ UNCHANGED <<tenders, phase>>
  BY <1>1, <1>3 DEF Return, HoldsSale
<1>10. sale.status = "completed" /\ k + plain <= copies /\ k + plain + defective <= copies
  BY <1>4, <1>9 DEF IInv, LocksHold
<1>11. CostsEnough(price, copies) /\ CostsEnough(whole, bound)
  BY <1>1, CostEnough
<1>12. plainValue \in Nat /\ Fits(price, copies, k + plain, v + plainValue)
  BY <1>1, <1>2, <1>3, <1>4, <1>5, <1>10, <1>11, LineValueFits DEF GoodsFit
<1>13. PICK k1 \in Nat, v1 \in Nat : k1 = k + plain /\ v1 = v + plainValue
  BY <1>4, <1>12
<1>14. boundValue \in Nat /\ Fits(price, copies, k1 + defective, v1 + boundValue)
  BY <1>4, <1>6, <1>10, <1>11, <1>12, <1>13, LineValueFits
<1>15. ASSUME defective > 0
       PROVE  job \in {"COLLECTED", "RETURNED"} /\ b + defective <= bound /\ Fits(whole, bound, b, f)
  <2>1. job \in {"COLLECTED", "RETURNED"} /\ defective <= BoundLeft(Bound, b)
    BY <1>9, <1>15 DEF BoundReturnAllowed
  <2>2. defective <= bound - b
    BY <1>1, <2>1 DEF Bound, BoundLeft
  <2> QED BY <1>1, <1>2, <1>3, <1>4, <2>1, <2>2 DEF GoodsFit
<1>16. fee \in Nat /\ (defective > 0 => Fits(whole, bound, b + defective, f + fee))
  <2>1. CASE defective > 0
    BY <1>4, <1>7, <1>11, <1>15, <2>1, FeeShareFits
  <2>2. CASE ~(defective > 0)
    BY <1>7, <2>2
  <2> QED BY <2>1, <2>2
<1>17. /\ Accounts' /\ NothingSoldYet' /\ DebtFits' /\ Balanced' /\ CashBackOnlyForCash' /\ PointsFit'
       /\ back'.copies = k + (plain + defective) /\ back'.bound = b + defective
       /\ back'.value = v + (plainValue + boundValue) /\ back'.fee = f + fee /\ sale'.offer = sale.offer
  <2>1. plain + defective \in Nat /\ plainValue + boundValue \in Nat
    BY <1>4, <1>12, <1>14
  <2>2. tenders' = tenders
    BY <1>9
  <2> QED BY <1>3, <1>4, <1>8, <1>10, <1>16, <2>1, <2>2, SettleKeepsMoney
<1>18. GoodsFit'
  <2>1. back'.copies = k1 + defective /\ back'.value = v1 + boundValue
    BY <1>4, <1>12, <1>13, <1>14, <1>17
  <2>2. Fits(price, copies, back'.copies, back'.value)
    BY <1>14, <2>1
  <2>3. CASE defective > 0
    BY <1>1, <1>16, <1>17, <2>2, <2>3 DEF GoodsFit
  <2>4. CASE ~(defective > 0)
    <3>1. back'.bound = b /\ back'.fee = f /\ job' = job
      BY <1>4, <1>7, <1>9, <1>17, <2>4
    <3> QED BY <1>1, <1>2, <1>3, <1>17, <2>2, <3>1 DEF GoodsFit
  <2> QED BY <2>3, <2>4
<1>19. Places'
  <2>1. job' \in Jobs
    BY <1>2, <1>9, <1>15 DEF Places, Jobs, JobAfterFeeReturn
  <2>2. PICK good \in Nat, bad \in Nat : good = (IF damaged THEN 0 ELSE plain) /\ bad = (IF damaged THEN plain ELSE 0)
    BY <1>4
  <2>3. PICK one : one = [shelf EXCEPT !.sellable = @ + good]
    OBVIOUS
  <2>4. one \in ShelfRecords
    BY <1>2, <2>3 DEF Places, ShelfRecords
  <2>5. shelf' = [one EXCEPT !.damaged = @ + defective + bad]
    BY <1>9, <2>2, <2>3
  <2>6. shelf' \in ShelfRecords
    BY <1>4, <2>4, <2>5 DEF ShelfRecords
  <2> QED BY <1>2, <1>9, <2>1, <2>6 DEF Places
<1> QED BY <1>17, <1>18, <1>19 DEF MInv

LEMMA CancelBindingKeepsMoney ==
  ASSUME IInv, MInv, NEW w \in Worker, NEW afterWindow \in AfterWindow, CancelBinding(w, afterWindow)
  PROVE  MInv'
<1>1. PICK only : Settle(0, 0, 0, sale.offer.fee - back.fee, only)
  BY DEF CancelBinding
<1>2. /\ HoldsJob(w) /\ sale.status = "completed" /\ UNCHANGED <<tenders, shelf, phase>> /\ job' = "CANCELLED"
      /\ Accounts /\ Places /\ GoodsFit
  BY DEF CancelBinding, HoldsJob, StatusUnderLock, JobAfterFeeReturn, MInv
<1>3. back.bound = 0 /\ back.fee = 0
  <2>1. job = "REQUESTED"
    BY <1>2 DEF IInv, LocksHold
  <2>2. back.bound \in Nat
    BY <1>2, BackFields DEF Accounts
  <2> QED BY <2>1, <2>2 DEF IInv, FeeFollowsTheJob, BoundCopiesFollowTheirJob
<1>4. PICK price \in Nat, copies \in Nat, whole \in Nat :
        price = sale.offer.price /\ copies = sale.offer.copies /\ whole = sale.offer.fee
  BY PriceFacts DEF IInv, Shape
<1>5. PICK k \in Nat, v \in Nat : k = back.copies /\ v = back.value
  BY <1>2, BackFields DEF Accounts
<1>6. sale.offer.fee - back.fee = whole
  BY <1>3, <1>4
<1>7. /\ Accounts' /\ NothingSoldYet' /\ DebtFits' /\ Balanced' /\ CashBackOnlyForCash' /\ PointsFit'
      /\ back'.copies = back.copies + 0 /\ back'.bound = back.bound + 0
      /\ back'.value = back.value + 0 /\ back'.fee = back.fee + whole /\ sale'.offer = sale.offer
  BY <1>1, <1>2, <1>6, SettleKeepsMoney
<1>8. back'.copies = k /\ back'.value = v /\ back'.bound = 0 /\ back'.fee = whole
  BY <1>3, <1>5, <1>7
<1>9. GoodsFit'
  BY <1>2, <1>4, <1>5, <1>7, <1>8 DEF GoodsFit
<1>10. Places'
  BY <1>2 DEF Places, Jobs
<1> QED BY <1>7, <1>9, <1>10 DEF MInv

LEMMA InitMoney == Init => MInv
<1> SUFFICES ASSUME Init PROVE MInv
  OBVIOUS
<1>1. /\ sale = [offer |-> NoOffer, status |-> "none", due |-> 0] /\ tenders = <<>>
      /\ debt = [status |-> "None", outstanding |-> 0, collected |-> 0, writtenOff |-> 0]
      /\ back = NothingBack /\ job = "none" /\ shelf = [sellable |-> 0, damaged |-> 0, tradeIn |-> 0] /\ drawer = 0
      /\ customer = [credit |-> InitialCredit, points |-> 0, spent |-> 0]
      /\ accrual = [asked |-> FALSE, earned |-> 0, reversed |-> 0] /\ phase = "today"
  BY DEF Init
<1>2. InitialCredit \in Nat /\ Earned \in Nat
  BY CounterAssumption
<1>3. Accounts
  <2>1. customer \in CustomerRecords /\ accrual \in AccrualRecords /\ debt \in DebtRecords
    BY <1>1, <1>2 DEF CustomerRecords, AccrualRecords, DebtRecords
  <2> QED BY <1>1, <2>1, NothingRefunded DEF Accounts
<1>4. Places /\ NothingSoldYet
  BY <1>1 DEF Places, Jobs, ShelfRecords, NothingSoldYet
<1>5. GoodsFit
  <2>1. Fits(0, 0, 0, 0)
    <3>1. PICK c \in Nat : c = Cent + 1
      BY CentNat
    <3>2. 2 * (0 * 0) <= 0 * (2 * 0 + 0 * c)
      OBVIOUS
    <3> QED BY <3>1, <3>2 DEF Fits
  <2> QED BY <1>1, <2>1 DEF GoodsFit, NoOffer, NothingBack
<1>6. DebtFits /\ Balanced /\ CashBackOnlyForCash
  BY <1>1 DEF DebtFits, DebtIsTheSalesDue, Balanced, Standing, CashBackOnlyForCash, IsSale, NoOffer
<1>7. PointsFit
  <2>1. PointsFollowTheGoods
    BY <1>1 DEF PointsFollowTheGoods, IsSale, NoOffer
  <2> QED BY <1>1, <2>1 DEF PointsFit
<1> QED BY <1>3, <1>4, <1>5, <1>6, <1>7 DEF MInv

LEMMA NextKeepsMoney == ASSUME OffersCostEnough, IInv, MInv, Next PROVE MInv'
<1>1. ASSUME NEW o \in Offers, NEW ps \in Payments, NEW onCredit \in BOOLEAN,
             Sell(o, ps, onCredit) \/ \E m \in Method : Exchange(o, ps, onCredit, m)
      PROVE  MInv'
  BY <1>1, SellKeepsMoney, ExchangeKeepsMoney
<1>2. ASSUME NEW m \in Method, NEW amount \in Amounts, Collect(m, amount) \/ CollectDebt(m, amount) PROVE MInv'
  BY <1>2, CollectKeepsMoney, CollectDebtKeepsMoney
<1>3. CASE WriteOff \/ Accrue \/ SpendElsewhere
  BY <1>3, WriteOffKeepsMoney, AccrueKeepsMoney, SpendKeepsMoney
<1>4. CASE StepJob
  <2>1. job \in {"REQUESTED", "AT_BINDER", "READY"} /\ job' = JobSteps[job]
    BY <1>4 DEF StepJob, JobSteps
  <2>2. job' \in Jobs
    BY <2>1 DEF JobSteps, Jobs
  <2>3. UNCHANGED <<sale, tenders, debt, back, drawer, customer, accrual>> /\ Places'
    BY <1>4, <2>2 DEF StepJob, moneyVars, Places, MInv
  <2> QED BY <2>1, <2>3, MoneyStays
<1>5. CASE TimePasses
  <2>1. UNCHANGED <<sale, tenders, debt, back, drawer, customer, accrual, job>> /\ Places'
    BY <1>5 DEF TimePasses, moneyVars, Places, MInv
  <2> QED BY <2>1, MoneyStays
<1>6. ASSUME NEW w \in Worker, AskVoid(w) \/ LockForVoid(w) \/ LockForReturn(w) \/ LockForCancel(w) \/ Rollback(w)
      PROVE  MInv'
  <2>1. UNCHANGED <<sale, tenders, debt, back, drawer, customer, accrual, job>> /\ Places'
    BY <1>6 DEF AskVoid, LockForVoid, LockForReturn, LockForCancel, Rollback, moneyVars, Places, MInv
  <2> QED BY <2>1, MoneyStays
<1>7. ASSUME NEW w \in Worker, Void(w) PROVE MInv'
  BY <1>7, VoidKeepsMoney
<1>8. ASSUME NEW w \in Worker, NEW afterWindow \in AfterWindow,
             CancelBinding(w, afterWindow) \/ \E plain, defective \in 0..sale.offer.copies, damaged \in BOOLEAN :
                                                 Return(w, plain, defective, damaged, afterWindow)
      PROVE  MInv'
  BY <1>8, CancelBindingKeepsMoney, ReturnKeepsMoney
<1> QED BY <1>1, <1>2, <1>3, <1>4, <1>5, <1>6, <1>7, <1>8 DEF Next

LEMMA AmountsInductive == ASSUME OffersCostEnough PROVE Spec => []MInv
<1>1. ASSUME MInv, UNCHANGED vars PROVE MInv'
  <2>1. UNCHANGED <<sale, tenders, debt, back, drawer, customer, accrual, job>> /\ Places'
    BY <1>1 DEF vars, Places, MInv
  <2> QED BY <1>1, <2>1, MoneyStays
<1>2. IInv /\ MInv /\ [Next]_vars => MInv'
  BY <1>1, NextKeepsMoney
<1> QED BY <1>2, InitMoney, Inductive, PTL DEF Spec

\* As long as a sale or an exchange stands, the customer has paid, net of refunds, or owes
\* exactly what the kept copies and their binding cost, up to a cent, for any prices, payments
\* and returns, provided that a line is not so cheap that rounding its copies up by half a cent
\* each would exceed it (settleSale, lineValue).
THEOREM CustomersAlwaysPayForWhatTheyKeep ==
  ASSUME OffersCostEnough
  PROVE  Spec => []PaysForWhatIsKept
<1>1. IInv /\ MInv => PaysForWhatIsKept
  <2> SUFFICES ASSUME IInv, MInv, Standing PROVE PaysForWhatIsKept
    BY DEF PaysForWhatIsKept
  <2>1. Balance \in Int /\ Balance <= Cent /\ -Cent <= Balance
    BY DEF MInv, Balanced
  <2>2. Abs(Balance) <= Tolerance
    BY <2>1, CentNat DEF Abs, Tolerance
  <2> QED BY <2>2 DEF PaysForWhatIsKept, Balance
<1> QED BY <1>1, Inductive, AmountsInductive, PTL

\* Under the same proviso, the returns of a sale never take back more copies, value or fee than
\* were sold, and the last copy makes the sum exact; cash goes back only up to the cash that was
\* paid; and points go back only up to the share the returned part earned (lineValue,
\* allocateRefund, pointsToTakeBack).
THEOREM ReturnsStayWithinTheSale ==
  ASSUME OffersCostEnough
  PROVE  Spec => []ReturnsWithinTheSale
<1>1. IInv /\ MInv => ReturnsWithinTheSale
  <2> SUFFICES ASSUME IInv, MInv PROVE ReturnsWithinTheSale
    OBVIOUS
  <2>1. PICK price \in Nat, copies \in Nat, whole \in Nat, bound \in Nat :
          price = sale.offer.price /\ copies = sale.offer.copies /\ whole = sale.offer.fee /\ bound = sale.offer.bound
    BY PriceFacts DEF IInv, Shape
  <2>2. PICK k \in Nat, b \in Nat, v \in Nat, f \in Nat :
          k = back.copies /\ b = back.bound /\ v = back.value /\ f = back.fee
    BY BackFields DEF MInv, Accounts
  <2>3. CostsEnough(price, copies) /\ CostsEnough(whole, bound)
    BY <2>1, CostEnough
  <2>4. /\ Fits(price, copies, k, v)
        /\ \/ Fits(whole, bound, b, f)
           \/ b = 0 /\ f = whole
    BY <2>1, <2>2 DEF MInv, GoodsFit
  <2>5. v <= price /\ k <= copies /\ (k = copies => v = price)
    <3>1. v <= price
      BY <2>3, <2>4, FitsWithin
    <3> QED BY <2>4, <3>1 DEF Fits
  <2>6. b <= bound /\ f <= whole /\ (b = bound /\ bound > 0 => f = whole)
    <3>1. CASE Fits(whole, bound, b, f)
      <4>1. f <= whole
        BY <2>3, <3>1, FitsWithin
      <4> QED BY <3>1, <4>1 DEF Fits
    <3>2. CASE b = 0 /\ f = whole
      BY <3>2
    <3> QED BY <2>4, <3>1, <3>2
  <2>7. NoMoreBackThanSold
    BY <2>1, <2>2, <2>5, <2>6 DEF NoMoreBackThanSold
  <2> QED BY <2>7 DEF MInv, PointsFit, ReturnsWithinTheSale
<1> QED BY <1>1, Inductive, AmountsInductive, PTL

\* Under the same proviso, the sale, its receivable and the customer's accounts stay within
\* their ranges (no credit, points, due or debt below zero), and the open receivable is what the
\* sale says is due (saleAfterCredit, updateReceivableOnPayment, cancelReceivable).
THEOREM AccountsAlwaysAgree ==
  ASSUME OffersCostEnough
  PROVE  Spec => []AccountsAgree
<1>1. IInv /\ MInv => AccountsAgree
  <2> SUFFICES ASSUME IInv, MInv PROVE AccountsAgree
    OBVIOUS
  <2>1. TypeOK
    <3>1. Seq(Tender) = Seq([method : Method, amount : Int])
      BY DEF Tender
    <3> QED BY <3>1 DEF MInv, Accounts, Places, IInv, Shape, TypeOK, DebtRecords, BackRecords, CustomerRecords, AccrualRecords,
                        ShelfRecords, Jobs
  <2> QED BY <2>1 DEF MInv, DebtFits, AccountsAgree
<1> QED BY <1>1, Inductive, AmountsInductive, PTL
===============================================================================
