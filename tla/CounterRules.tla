----------------------------- MODULE CounterRules -----------------------------
(***************************************************************************)
(* The rules of a sale at the counter and of what comes back of it, as     *)
(* pure operators: pos.policy.ts, returns.policy.ts, exchanges.policy.ts   *)
(* and services/saleServices.policy.ts.                                    *)
(*                                                                         *)
(* Money is an integer in Money's own unit, of which Cent make a cent.     *)
(***************************************************************************)
EXTENDS Integers, FiniteSetsExt, Functions

CONSTANTS
  Cent,
  PointScale \* points are divided to this part of one, FACTOR of money.ts: 10,000 in the code

ASSUME CounterRulesAssumption == Cent \in Nat \ {0} /\ PointScale \in Nat \ {0}

Rounding == INSTANCE StockRules

\* TOLERANCE of pos.policy.ts and exchanges.policy.ts: a cent
Tolerance == Cent

Abs(x) == IF x < 0 THEN -x ELSE x

-----------------------------------------------------------------------------
(* Selling.                                                                *)

\* amountDue: nothing once the sale counts as paid (paymentStatus)
AmountDue(total, paid) == IF total - paid > Tolerance THEN total - paid ELSE 0

\* checkSalePayments: in full, or less on credit; never more than the total
SalePaymentsAllowed(total, paid, onCredit) ==
  /\ onCredit \/ Abs(total - paid) <= Tolerance
  /\ paid - total <= Tolerance

\* checkCanCollect
CanCollect(status, due, incoming) == status = "completed" /\ due > 0 /\ incoming <= due

\* afterCollect
DueAfterCollect(due, incoming) == IF due - incoming > Tolerance THEN due - incoming ELSE 0

\* Mutant: a void does not look at the returns.
MutantVoidsReturned(status, sameDay, hasReturns) == status = "completed" /\ sameDay

\* isVoidable of a sale, checkCanVoid of an exchange
CanVoid(status, sameDay, hasReturns) == status = "completed" /\ sameDay /\ ~hasReturns

\* settlementType of an exchange's difference
SettlementType(net) ==
  IF net > Tolerance THEN "Customer_Pays" ELSE IF net < -Tolerance THEN "Store_Refunds" ELSE "Even"

\* checkSettlement
SettlementAllowed(net, paid, onCredit) ==
  IF SettlementType(net) = "Customer_Pays" THEN SalePaymentsAllowed(net, paid, onCredit) ELSE paid = 0

-----------------------------------------------------------------------------
(* What comes back.                                                        *)

\* A share of `whole` for `some` of `all`, as Money divides and rounds it
Share(whole, some, all) == Rounding!RoundToCent(Rounding!DivRound(whole * some, all))

\* Mutant: the last copies are worth their share, like any others.
MutantLastCopiesToo(lineTotal, copies, returned, returnedValue, quantity) ==
  Share(lineTotal, quantity, copies)

\* lineValue: the last copies of a line take what is left of it.
LineValue(lineTotal, copies, returned, returnedValue, quantity) ==
  IF quantity = copies - returned THEN lineTotal - returnedValue ELSE Share(lineTotal, quantity, copies)

\* feeShare
FeeShare(fee, bound, returned, returnedFee, quantity) ==
  IF returned + quantity >= bound THEN fee - returnedFee ELSE Share(fee, quantity, bound)

\* copiesLeft: of a line sold bound in part, the bound and the plain copies not yet back
BoundLeft(bound, boundBack) == bound - boundBack
PlainLeft(copies, bound, back, boundBack) == copies - bound - (back - boundBack)

\* Mutant: bound copies come back like any others.
MutantAnyCopyBack(copies, bound, back, boundBack, plain, defective, job) ==
  plain + defective <= copies - back /\ defective <= BoundLeft(bound, boundBack)

\* checkBoundReturn of a line whose binding stands
BoundReturnAllowed(copies, bound, back, boundBack, plain, defective, job) ==
  /\ plain <= PlainLeft(copies, bound, back, boundBack)
  /\ defective > 0 => job \in {"COLLECTED", "RETURNED"} /\ defective <= BoundLeft(bound, boundBack)

\* storeCreditOnly
StoreCreditOnly(inWindow, afterWindow) == ~inWindow /\ afterWindow = "store_credit_only"

\* Mutant: every method gives back the whole amount, as far as it can.
MutantRefundByAll(amount, available, newer) ==
  [m \in DOMAIN available |-> Min({available[m], amount})]

\* allocateRefund: each method gives back, the newest first, up to what it has not given
\* back yet; what no method is left for goes back as cash.
RefundBy(amount, available, newer) ==
  [m \in DOMAIN available |->
     LET before == SumFunctionOnSet(available, newer[m])
         rest == amount - SumFunction(available)
     IN Max({0, Min({available[m], amount - before})}) + (IF m = "cash" THEN Max({0, rest}) ELSE 0)]

\* Mutant: the sale's due is left to its receivable.
MutantDueStays(due, credited) == due

\* saleAfterCredit
DueAfterCredit(due, credited) == Max({0, due - credited})

\* pointsToTakeBack: the share of the points the returned part of the sale earned, which
\* Money rounds before it is made whole
PointsToTakeBack(earned, reversed, returned, total) ==
  IF earned <= 0 \/ total <= 0 THEN 0
  ELSE LET due == Rounding!DivRound(earned * PointScale * Min({returned, total}), total) \div PointScale
       IN Max({0, due - reversed})

-----------------------------------------------------------------------------
(* Binding jobs.                                                           *)

\* nextJobStatus
JobSteps == [REQUESTED |-> "AT_BINDER", AT_BINDER |-> "READY", READY |-> "COLLECTED"]

\* checkJobsCancellable: a void takes the job with it while its work has not started.
JobCancellable(job) == job \in {"none", "REQUESTED", "CANCELLED"}

\* recordFeeReturn: cancelled, or every bound copy is back
JobAfterFeeReturn(job, kind, boundBack, bound) ==
  IF kind = "CANCELLED" THEN "CANCELLED" ELSE IF boundBack >= bound THEN "RETURNED" ELSE job
===============================================================================
