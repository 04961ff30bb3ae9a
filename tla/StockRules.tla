----------------------------- MODULE StockRules -----------------------------
(***************************************************************************)
(* The pure rules of the Inventory module: modules/inventory/              *)
(* inventory.policy.ts, with the Money arithmetic they use                 *)
(* (packages/shared/src/money.ts).                                         *)
(*                                                                         *)
(* An amount of money is an integer number of the smallest units the       *)
(* program keeps (10^-4 of the currency).  Cent is how many of those units *)
(* make one minor unit of the currency: 100 in the code, fewer in a model  *)
(* that wants to see rounding happen with small numbers.                   *)
(***************************************************************************)
EXTENDS Integers

CONSTANT Cent

ASSUME CentAssumption == Cent \in Nat \ {0}

\* Money keeps whole units and rounds half away from zero; every amount
\* divided here is non-negative.
DivRound(a, b) == (2 * a + b) \div (2 * b)

\* Money.round(2): to a whole number of minor units.
RoundToCent(x) == DivRound(x, Cent) * Cent

\* What a location offers for sale: never less than nothing.
Available(quantity) == IF quantity > 0 THEN quantity ELSE 0

CanIssue(available, quantity, negativeAllowed) ==
  negativeAllowed \/ available >= quantity

QuantityAllowed(after, negativeAllowed) == after >= 0 \/ negativeAllowed

\* Damaged and lost copies leave the shelf; a correction goes either way.
DirectionAllowed(reason, delta) ==
  /\ delta # 0
  /\ reason \in {"damage", "loss"} => delta < 0

\* Mutant: the shelf is looked at after the receipt instead of before it.
MutantAverageOverDebt(quantity, averageCost, received, unitCost) ==
  IF quantity + received <= 0
  THEN unitCost
  ELSE DivRound(averageCost * quantity + unitCost * received, quantity + received)

\* The weighted average cost; an empty shelf, or one sold below zero, takes the
\* receipt's own cost.
AverageCostAfterReceipt(quantity, averageCost, received, unitCost) ==
  IF quantity <= 0
  THEN unitCost
  ELSE DivRound(averageCost * quantity + unitCost * received, quantity + received)

\* Mutant: each copy leaves with a rounded share.
MutantShareRoundedPerCopy(damaged, damagedValue, quantity) ==
  RoundToCent(DivRound(damagedValue, damaged)) * quantity

\* The last damaged copies take whatever value is left.
DamagedShare(damaged, damagedValue, quantity) ==
  IF quantity = damaged
  THEN damagedValue
  ELSE RoundToCent(DivRound(damagedValue * quantity, damaged))

\* The alert a change of stock raises, if any: only when a threshold is crossed.
StockAlert(before, after, reorderPoint) ==
  CASE after <= 0 /\ before > 0 -> {"out_of_stock"}
    [] after > 0 /\ after <= reorderPoint /\ before > reorderPoint -> {"low_stock"}
    [] OTHER -> {}
=============================================================================
