---------------------------- MODULE ProcurementRules ----------------------------
(***************************************************************************)
(* The rules of purchase orders, of special orders bought on them, of what *)
(* a supplier is owed and of returns to it, as pure operators:             *)
(* procurement.policy.ts, supplierPayables.policy.ts,                      *)
(* specialOrders.policy.ts, supplierReturns.policy.ts and refundDueOf of   *)
(* procurement.mapper.ts.                                                  *)
(***************************************************************************)
EXTENDS Integers, FiniteSetsExt

PoStatus == {"draft", "pending_approval", "approved", "ordered", "partially_received", "received",
             "closed", "cancelled"}

-----------------------------------------------------------------------------
(* The life of a purchase order.                                           *)

\* statusAfterSubmit: above the threshold it waits for approval.
StatusAfterSubmit(total, threshold) == IF total > threshold THEN "pending_approval" ELSE "approved"

\* checkCanCancel
CanCancelPo(status, hasReceipts) ==
  status \in {"draft", "pending_approval", "approved", "ordered"} /\ ~hasReceipts

\* checkCanClose: a reason, when it closes short, is left out.
CanClosePo(status) == status \in {"received", "partially_received"}

\* checkCanReceive and checkReceiptLine
CanReceivePo(status, quantity, received, arriving) ==
  status \in {"approved", "ordered", "partially_received"} /\ received + arriving <= quantity

\* statusAfterReceipt
StatusAfterReceipt(quantity, received) == IF received >= quantity THEN "received" ELSE "partially_received"

-----------------------------------------------------------------------------
(* Special orders.                                                         *)

\* checkLinkable: a line takes at most its copies on no purchase order yet.
Linkable(onOrder, linked, quantity) == quantity <= Max({0, onOrder - linked})

\* placement: a draft grows; a submitted order takes only copies no line waits for.
PoTakes(status, quantity, received, linked, asked) ==
  \/ status = "draft"
  \/ /\ status \in {"pending_approval", "approved", "ordered", "partially_received"}
     /\ asked <= quantity - received - linked

\* checkKeepsLinked
KeepsLinked(linked, quantity) == quantity >= linked

-----------------------------------------------------------------------------
(* What the supplier is owed.                                              *)

\* checkPayable and checkCreditable
IsCommitment(status) == status \notin {"draft", "pending_approval", "cancelled"}

\* checkWithinOrderTotal
WithinOrderTotal(total, settled, amount) == settled + amount <= total

\* refundDueOf: beyond the whole order, or beyond what arrived when nothing more is coming
RefundCeiling(status, total, received) == IF status \in {"closed", "cancelled", "received"} THEN received ELSE total
RefundDue(status, total, received, settled) == Max({0, settled - RefundCeiling(status, total, received)})

\* financialStatus; its tolerance of a cent tells nothing apart in whole amounts.
FinancialStatus(received, settled) ==
  IF received <= 0 \/ settled <= 0 THEN "unpaid"
  ELSE IF settled < received THEN "partial" ELSE "paid"

\* Mutant: what other returns sent back is not counted.
MutantSendsAgain(quantity, received, sent) == quantity <= received

\* checkWithinReceived
WithinReceived(quantity, received, sent) == sent + quantity <= received
===============================================================================
