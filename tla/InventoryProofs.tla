--------------------------- MODULE InventoryProofs ---------------------------
(***************************************************************************)
(* What Inventory promises, for every set of shelves, clients, quantities  *)
(* and costs, every number of units to the cent, and every bound on the    *)
(* versions.                                                               *)
(*                                                                         *)
(* The inductive invariant is IInv.  All but four use cases change one     *)
(* shelf through Change, so the proof has two layers: what each write of   *)
(* the repository does to a sound level (the lemmas ...Sound), and what a  *)
(* Change does to the invariant when the level it leaves is sound, has a   *)
(* later version and agrees with the history row (ChangeKeepsIInv).        *)
(*                                                                         *)
(* On top of it: the average cost stays between two costs that were paid   *)
(* (AveragesWithin); every step does with each shelf what it may, and      *)
(* tells what it must (RulesFollowed); and what a transfer takes from one  *)
(* shelf it adds to another, so that sums over shelves stay.               *)
(***************************************************************************)
EXTENDS Inventory, SumTheorems, TLAPS

\* The value of damaged copies is kept in whole minor units: a share rounded to
\* the cent could otherwise be more than the value it is a share of.
WholeCents(value) == \E k \in 0..value : value = k * Cent

Sound(l) ==
  /\ l \in Level
  /\ l.damaged >= 0
  /\ l.damagedValue >= 0
  /\ l.damaged = 0 => l.damagedValue = 0
  /\ WholeCents(l.damagedValue)

IInv ==
  /\ ShelvesTyped
  /\ MatchesHistory
  /\ VersionTellsChange
  /\ \A s \in Shelves : Sound(level[s])

\* A level a transaction may leave on the shelf s, whose history it books as delta.
Follows(s, new, delta) ==
  /\ Sound(new)
  /\ new.version > level[s].version
  /\ new.quantity = level[s].quantity + delta

AlertsType == SUBSET [shelf : Shelves, alert : {"low_stock", "out_of_stock"}]

-----------------------------------------------------------------------------
(* Rounding.                                                               *)

\* Rounding a natural number of units over a positive divisor gives a natural number.
LEMMA DivRoundNat ==
  ASSUME NEW a \in Nat, NEW b \in Nat \ {0}
  PROVE  DivRound(a, b) \in Nat
  BY SMT DEF DivRound

\* Rounding does not pass a whole quotient the division does not reach.
LEMMA DivRoundAtMost ==
  ASSUME NEW a \in Nat, NEW b \in Nat \ {0}, NEW m \in Nat, a <= m * b
  PROVE  DivRound(a, b) <= m
<1> DEFINE q == DivRound(a, b)
<1>1. q \in Nat
  BY DivRoundNat
<1>2. (2 * b) * q <= 2 * a + b
  BY SMT DEF DivRound
<1>3. SUFFICES ASSUME q >= m + 1 PROVE FALSE
  BY <1>1, SMT
<1> HIDE DEF q
<1>4. (2 * b) * q >= (2 * b) * (m + 1)
  BY <1>1, <1>3, SMT
<1>5. QED
  BY <1>1, <1>2, <1>4, SMT

\* A whole number of cents is a multiple of Cent, whatever its factor.
LEMMA WholeCentsIntro ==
  ASSUME NEW k \in Nat
  PROVE  k * Cent \in Nat /\ WholeCents(k * Cent)
<1>1. k * Cent \in Nat /\ k <= k * Cent
  BY CentAssumption, SMT
<1>2. QED
  BY <1>1, SMT DEF WholeCents

\* Rounding to the cent gives a whole number of cents.
LEMMA RoundToCentWhole ==
  ASSUME NEW x \in Nat
  PROVE  RoundToCent(x) \in Nat /\ WholeCents(RoundToCent(x))
<1>1. DivRound(x, Cent) \in Nat
  BY DivRoundNat, CentAssumption
<1>2. QED
  BY <1>1, WholeCentsIntro DEF RoundToCent

\* Rounding to the cent never passes a whole number of cents.
LEMMA RoundToCentAtMost ==
  ASSUME NEW x \in Nat, NEW v \in Nat, WholeCents(v), x <= v
  PROVE  RoundToCent(x) <= v
<1>1. PICK k \in 0..v : v = k * Cent
  BY DEF WholeCents
<1>2. DivRound(x, Cent) \in Nat /\ DivRound(x, Cent) <= k
  BY <1>1, DivRoundNat, DivRoundAtMost, CentAssumption, SMT
<1>3. DivRound(x, Cent) * Cent <= k * Cent
  BY <1>1, <1>2, CentAssumption, SMT
<1>4. QED
  BY <1>1, <1>3 DEF RoundToCent

\* Sums and differences of whole cents are whole cents.
LEMMA WholeCentsSum ==
  ASSUME NEW x \in Nat, NEW y \in Nat, WholeCents(x), WholeCents(y)
  PROVE  WholeCents(x + y) /\ (y <= x => WholeCents(x - y))
<1>1. PICK i \in 0..x : x = i * Cent
  BY DEF WholeCents
<1>2. PICK j \in 0..y : y = j * Cent
  BY DEF WholeCents
<1>3. WholeCents(x + y)
  <2>1. x + y = (i + j) * Cent
    BY <1>1, <1>2, CentAssumption, SMT
  <2>2. QED
    BY <2>1, WholeCentsIntro
<1>4. ASSUME y <= x PROVE WholeCents(x - y)
  <2>1. j <= i
    <3>1. SUFFICES ASSUME j >= i + 1 PROVE FALSE
      BY SMT
    <3>2. j * Cent >= (i + 1) * Cent
      BY <3>1, CentAssumption, SMT
    <3>3. (i + 1) * Cent = i * Cent + Cent
      BY CentAssumption, SMT
    <3>4. QED
      BY <1>1, <1>2, <1>4, <3>2, <3>3, CentAssumption, SMT
  <2>2. x - y = (i - j) * Cent
    BY <1>1, <1>2, CentAssumption, SMT
  <2>3. QED
    BY <2>1, <2>2, WholeCentsIntro, SMT
<1>5. QED
  BY <1>3, <1>4

\* The share of some of the damaged copies is never more than the value of all,
\* and is all of it exactly for the last ones.
LEMMA DamagedShareBound ==
  ASSUME NEW d \in Nat, NEW v \in Nat, NEW q \in Nat \ {0}, q <= d, WholeCents(v)
  PROVE  /\ DamagedShare(d, v, q) \in Nat
         /\ DamagedShare(d, v, q) <= v
         /\ WholeCents(DamagedShare(d, v, q))
         /\ q = d => DamagedShare(d, v, q) = v
<1>1. CASE q = d
  BY <1>1, SMT DEF DamagedShare
<1>2. CASE q # d
  <2>1. v * q \in Nat /\ v * q <= v * d
    BY SMT
  <2>2. DivRound(v * q, d) \in Nat
    BY <2>1, DivRoundNat, SMT
  <2>3. DivRound(v * q, d) <= v
    BY <2>1, DivRoundAtMost, SMT
  <2>4. QED
    BY <1>2, <2>2, <2>3, RoundToCentWhole, RoundToCentAtMost DEF DamagedShare
<1>3. QED
  BY <1>1, <1>2

\* The average cost after a receipt is an amount of money.
LEMMA AverageCostNat ==
  ASSUME NEW quantity \in Int, NEW averageCost \in Nat,
         NEW received \in Nat \ {0}, NEW unitCost \in Nat
  PROVE  AverageCostAfterReceipt(quantity, averageCost, received, unitCost) \in Nat
<1>1. CASE quantity <= 0
  BY <1>1 DEF AverageCostAfterReceipt
<1>2. CASE quantity > 0
  <2>1. averageCost * quantity + unitCost * received \in Nat
    BY <1>2, SMT
  <2>2. QED
    BY <1>2, <2>1, DivRoundNat, SMT DEF AverageCostAfterReceipt
<1>3. QED
  BY <1>1, <1>2, SMT

-----------------------------------------------------------------------------
(* Layer 1: what each write leaves behind.                                 *)

\* A level is sound when its damaged copies and their value are.
LEMMA SoundIntro ==
  ASSUME NEW new \in Level, NEW damaged \in Nat, NEW value \in Nat,
         new.damaged = damaged, new.damagedValue = value,
         damaged = 0 => value = 0, WholeCents(value)
  PROVE  Sound(new)
<1>1. new.damaged >= 0 /\ new.damagedValue >= 0
  BY SMT
<1>2. WholeCents(new.damagedValue)
  BY Zenon
<1>3. QED
  BY <1>1, <1>2, Zenon DEF Sound

\* What Sound says of the damaged copies of a level.
LEMMA SoundElim ==
  ASSUME NEW l, Sound(l)
  PROVE  /\ l \in Level
         /\ l.damaged \in Nat
         /\ l.damagedValue \in Nat
         /\ l.damaged = 0 => l.damagedValue = 0
         /\ WholeCents(l.damagedValue)
<1>1. l \in Level /\ WholeCents(l.damagedValue)
  BY DEF Sound
<1>2. QED
  BY <1>1, SMT DEF Sound, Level

LEMMA NextVersion ==
  ASSUME NEW l \in Level
  PROVE  l.version \in Nat /\ l.version + 1 \in Nat
  BY SMT DEF Level

\* A shelf that has no row yet is sound.
LEMMA EmptySound == Sound(EmptyLevel) /\ EmptyLevel.quantity = 0
<1>1. WholeCents(0)
  BY WholeCentsIntro, CentAssumption, SMT
<1>2. QED
  BY <1>1, InventoryAssumption DEF EmptyLevel, Sound, Level

\* A change of the quantity alone (updateLevel).
LEMMA WithQuantitySound ==
  ASSUME NEW l, Sound(l), NEW quantity \in Int
  PROVE  LET new == WithQuantity(l, quantity)
         IN /\ Sound(new)
            /\ new.quantity = quantity
            /\ new.version = l.version + 1
<1> DEFINE new == WithQuantity(l, quantity)
<1>1. l \in Level
  BY DEF Sound
<1>2. /\ new \in Level
      /\ new.quantity = quantity
      /\ new.damaged = l.damaged
      /\ new.damagedValue = l.damagedValue
      /\ new.version = l.version + 1
  BY <1>1, NextVersion, Zenon DEF WithQuantity, Level
<1> HIDE DEF new
<1>3. Sound(new)
  BY <1>2, SoundIntro, SoundElim
<1>4. QED
  BY <1>2, <1>3 DEF new

\* An arrival: the quantity grows and the average cost stays an amount of money.
LEMMA ReceivedSound ==
  ASSUME NEW l, Sound(l), NEW quantity \in Nat \ {0}, NEW unitCost \in Nat
  PROVE  LET new == Received(l, quantity, unitCost)
         IN /\ Sound(new)
            /\ new.quantity = l.quantity + quantity
            /\ new.version = l.version + 1
<1>1. l \in Level
  BY DEF Sound
<1> DEFINE average == AverageCostAfterReceipt(l.quantity, l.averageCost, quantity, unitCost)
<1>2. average \in Nat
  BY <1>1, AverageCostNat DEF Level
<1> DEFINE new == Received(l, quantity, unitCost)
<1>3. new = [l EXCEPT !.quantity = l.quantity + quantity,
                      !.version = l.version + 1,
                      !.averageCost = average]
  BY <1>1, SMT DEF Received, WithQuantity, Level
<1> HIDE DEF average, new
<1>4. l.quantity + quantity \in Int
  BY <1>1, SMT DEF Level
<1>5. /\ new \in Level
      /\ new.quantity = l.quantity + quantity
      /\ new.damaged = l.damaged
      /\ new.damagedValue = l.damagedValue
      /\ new.version = l.version + 1
  BY <1>1, <1>2, <1>3, <1>4, NextVersion, Zenon DEF Level
<1>6. Sound(new)
  BY <1>5, SoundIntro, SoundElim
<1>7. QED
  BY <1>5, <1>6 DEF new

\* Copies set aside as damaged with a value rounded to the cent (addDamaged).
LEMMA AddDamagedSound ==
  ASSUME NEW l, Sound(l), NEW quantity \in Nat \ {0}, NEW cost \in Nat
  PROVE  LET new == AddDamaged(l, quantity, RoundToCent(cost * quantity))
         IN /\ Sound(new)
            /\ new.quantity = l.quantity
            /\ new.version = l.version + 1
<1> DEFINE value == RoundToCent(cost * quantity)
<1>1. l \in Level /\ l.damagedValue \in Nat /\ l.damaged \in Nat
  BY SoundElim
<1>2. cost * quantity \in Nat
  BY SMT
<1>3. value \in Nat /\ WholeCents(value)
  BY <1>2, RoundToCentWhole
<1> HIDE DEF value
<1>4. WholeCents(l.damagedValue + value)
  BY <1>1, <1>3, WholeCentsSum DEF Sound
<1> DEFINE new == AddDamaged(l, quantity, value)
<1>5. l.damaged + quantity \in Nat \ {0} /\ l.damagedValue + value \in Nat
  BY <1>1, <1>3, SMT
<1>6. /\ new \in Level
      /\ new.quantity = l.quantity
      /\ new.damaged = l.damaged + quantity
      /\ new.damagedValue = l.damagedValue + value
      /\ new.version = l.version + 1
  <2>1. l.damaged + quantity \in Int /\ l.damagedValue + value \in Int
    BY <1>5, SMT
  <2>2. QED
    BY <1>1, <2>1, NextVersion, Zenon DEF AddDamaged, Level
<1> HIDE DEF new
<1>7. Sound(new)
  BY <1>4, <1>5, <1>6, SoundIntro
<1>8. QED
  BY <1>6, <1>7 DEF new, value

\* Damaged copies that leave take a share of the value that is there to take,
\* and the last ones take it all.
LEMMA TakeDamagedSound ==
  ASSUME NEW l, Sound(l), NEW quantity \in Nat \ {0}, quantity <= l.damaged
  PROVE  LET new == TakeDamaged(l, quantity)
         IN /\ Sound(new)
            /\ new.quantity = l.quantity
            /\ new.version = l.version + 1
<1> DEFINE share == DamagedShare(l.damaged, l.damagedValue, quantity)
<1>1. l \in Level /\ l.damagedValue \in Nat /\ l.damaged \in Nat
  BY SoundElim
<1>2. /\ share \in Nat
      /\ share <= l.damagedValue
      /\ WholeCents(share)
      /\ quantity = l.damaged => share = l.damagedValue
  BY <1>1, DamagedShareBound DEF Sound
<1> HIDE DEF share
<1>3. WholeCents(l.damagedValue - share)
  BY <1>1, <1>2, WholeCentsSum DEF Sound
<1> DEFINE new == TakeDamaged(l, quantity)
<1>4. new = [l EXCEPT !.damaged = l.damaged - quantity,
                      !.damagedValue = l.damagedValue - share,
                      !.version = l.version + 1]
  BY <1>1, SMT DEF TakeDamaged, Level, share
<1> HIDE DEF new
<1>5. /\ new \in Level
      /\ new.quantity = l.quantity
      /\ new.damaged = l.damaged - quantity
      /\ new.damagedValue = l.damagedValue - share
      /\ new.version = l.version + 1
  <2>1. l.damaged - quantity \in Int /\ l.damagedValue - share \in Int
    BY <1>1, <1>2, SMT
  <2>2. QED
    BY <1>1, <1>4, <2>1, NextVersion, Zenon DEF Level
<1>6. /\ l.damaged - quantity \in Nat /\ l.damagedValue - share \in Nat
      /\ l.damaged - quantity = 0 => l.damagedValue - share = 0
  BY <1>1, <1>2, SMT
<1>7. Sound(new)
  BY <1>3, <1>5, <1>6, SoundIntro
<1>8. QED
  BY <1>5, <1>7 DEF new

\* A revaluation.
LEMMA SetAverageCostSound ==
  ASSUME NEW l, Sound(l), NEW unitCost \in Nat
  PROVE  LET new == SetAverageCost(l, unitCost)
         IN /\ Sound(new)
            /\ new.quantity = l.quantity
            /\ new.version = l.version + 1
<1> DEFINE new == SetAverageCost(l, unitCost)
<1>1. l \in Level
  BY DEF Sound
<1>2. /\ new \in Level
      /\ new.quantity = l.quantity
      /\ new.damaged = l.damaged
      /\ new.damagedValue = l.damagedValue
      /\ new.version = l.version + 1
  BY <1>1, NextVersion, Zenon DEF SetAverageCost, Level
<1> HIDE DEF new
<1>3. Sound(new)
  BY <1>2, SoundIntro, SoundElim
<1>4. QED
  BY <1>2, <1>3 DEF new

\* An alert names a shelf and one of the two kinds.
LEMMA AlertsTyped ==
  ASSUME NEW s \in Shelves, NEW before, NEW l
  PROVE  Alerts(s, before, l) \in AlertsType
<1>1. StockAlert(before, l.quantity, l.reorderPoint) \subseteq {"low_stock", "out_of_stock"}
  BY DEF StockAlert
<1>2. QED
  BY <1>1 DEF Alerts, AlertsType

LEMMA NoAlertsTyped == {} \in AlertsType
  BY DEF AlertsType

\* Recording what an arrival cost keeps the costs amounts of money.
LEMMA PaidAfterTyped ==
  ASSUME ShelvesTyped, NEW s \in Shelves, NEW unitCost \in Nat
  PROVE  [paid EXCEPT ![s] = PaidAfter(s, unitCost)] \in [Shelves -> SUBSET Nat]
<1>1. PaidAfter(s, unitCost) \in SUBSET Nat
  BY DEF PaidAfter, ShelvesTyped
<1>2. QED
  BY <1>1 DEF ShelvesTyped

-----------------------------------------------------------------------------
(* Layer 2: the transactions.                                              *)

\* A level that was replaced by a later version agrees with every screen that
\* still shows its version: there is none.
LEMMA LaterVersionTells ==
  ASSUME IInv, NEW s \in Shelves, NEW new, Sound(new), new.version > level[s].version,
         NEW c \in Clients
  PROVE  seen[c][s].version < new.version
<1>1. seen[c][s].version <= level[s].version
  BY DEF IInv, VersionTellsChange
<1>2. seen[c][s].version \in Nat /\ level[s].version \in Nat /\ new.version \in Nat
  BY DEF IInv, ShelvesTyped, Level, Sound
<1>3. QED
  BY <1>1, <1>2, SMT

\* A transaction that changes one shelf keeps the invariant when the level it
\* leaves is sound, later, and what its history row says.
LEMMA ChangeKeepsIInv ==
  ASSUME IInv, NEW s \in Shelves, NEW new, NEW delta \in Int, NEW alerts \in AlertsType,
         Follows(s, new, delta), Change(s, new, delta, alerts),
         paid' \in [Shelves -> SUBSET Nat]
  PROVE  IInv'
<1>1. /\ rows' = rows \cup {s}
      /\ level' = [level EXCEPT ![s] = new]
      /\ history' = [history EXCEPT ![s] =
           Movement(history[s], level[s].quantity, level[s].quantity + delta)]
      /\ raised' = alerts
      /\ seen' = seen
      /\ negativeAllowed' = negativeAllowed
  BY DEF Change, IInv, ShelvesTyped
<1>2. /\ Sound(new)
      /\ new \in Level
      /\ new.quantity = level[s].quantity + delta
      /\ new.version > level[s].version
  BY DEF Follows, Sound
<1>3. /\ level \in [Shelves -> Level]
      /\ history \in [Shelves -> [last : Int, sum : Int]]
      /\ history[s].last = level[s].quantity
      /\ history[s].sum = level[s].quantity
      /\ level[s].quantity \in Int
  BY DEF IInv, ShelvesTyped, MatchesHistory, Level
<1> DEFINE row == Movement(history[s], level[s].quantity, level[s].quantity + delta)
<1>4. /\ row \in [last : Int, sum : Int]
      /\ row.last = new.quantity
      /\ row.sum = new.quantity
  BY <1>2, <1>3, SMT DEF Movement
<1> HIDE DEF row
<1>5. ShelvesTyped'
  <2>1. rows' \subseteq Shelves /\ negativeAllowed' \subseteq Branches'
    BY <1>1 DEF IInv, ShelvesTyped, Branches
  <2>2. level' \in [Shelves -> Level] /\ seen' \in [Clients -> [Shelves -> Level]]
    BY <1>1, <1>2, <1>3 DEF IInv, ShelvesTyped
  <2>3. history' \in [Shelves -> [last : Int, sum : Int]]
    BY <1>1, <1>3, <1>4 DEF row
  <2>4. QED
    BY <1>1, <2>1, <2>2, <2>3 DEF ShelvesTyped, AlertsType
<1>6. MatchesHistory'
  <2>1. ASSUME NEW t \in Shelves
        PROVE  history'[t].last = level'[t].quantity /\ history'[t].sum = level'[t].quantity
    <3>1. CASE t = s
      BY <1>1, <1>3, <1>4, <3>1 DEF row
    <3>2. CASE t # s
      BY <1>1, <1>3, <3>2 DEF IInv, MatchesHistory
    <3>3. QED
      BY <3>1, <3>2
  <2>2. QED
    BY <2>1 DEF MatchesHistory
<1>7. VersionTellsChange'
  <2>1. ASSUME NEW c \in Clients, NEW t \in Shelves
        PROVE  /\ seen'[c][t].version <= level'[t].version
               /\ seen'[c][t].version = level'[t].version => Goods(seen'[c][t]) = Goods(level'[t])
    <3>1. CASE t = s
      <4>1. seen[c][s].version < new.version
        BY <1>2, LaterVersionTells
      <4>2. seen[c][s].version \in Nat /\ new.version \in Nat
        BY <1>2 DEF IInv, ShelvesTyped, Level
      <4>3. seen'[c][t] = seen[c][s] /\ level'[t] = new
        BY <1>1, <1>3, <3>1
      <4>4. seen'[c][t].version <= level'[t].version /\ seen'[c][t].version # level'[t].version
        BY <4>1, <4>2, <4>3, SMT
      <4>5. QED
        BY <4>4
    <3>2. CASE t # s
      BY <1>1, <1>3, <3>2 DEF IInv, VersionTellsChange
    <3>3. QED
      BY <3>1, <3>2
  <2>2. QED
    BY <2>1 DEF VersionTellsChange
<1>8. \A t \in Shelves : Sound(level'[t])
  BY <1>1, <1>2, <1>3 DEF IInv
<1>9. QED
  BY <1>5, <1>6, <1>7, <1>8 DEF IInv

\* What the invariant says of one shelf.
LEMMA ShelfFacts ==
  ASSUME IInv, NEW s \in Shelves
  PROVE  /\ Sound(level[s])
         /\ level[s] \in Level
         /\ level[s].quantity \in Int
         /\ level[s].version \in Nat
         /\ level[s].averageCost \in Nat
         /\ level[s].damaged \in Nat
         /\ level[s].damagedValue \in Nat
<1>1. Sound(level[s])
  BY DEF IInv
<1>2. QED
  BY <1>1, SoundElim DEF Level

\* What the assumptions say of the numbers in a request.
LEMMA RequestFacts ==
  /\ \A q \in Quantities : q \in Nat \ {0} /\ q \in Int /\ -q \in Int
  /\ \A cost \in Costs : cost \in Nat
  /\ \A d \in Deltas : d \in Int
<1>1. \A q \in Quantities : q \in Nat \ {0} /\ q \in Int /\ -q \in Int
  BY InventoryAssumption, SMT
<1>2. QED
  BY <1>1, InventoryAssumption DEF Deltas

\* A level that is n versions later and differs by delta copies follows.
LEMMA FollowsIntro ==
  ASSUME IInv, NEW s \in Shelves, NEW new, Sound(new), NEW delta \in Int, NEW n \in Nat \ {0},
         new.version = level[s].version + n,
         new.quantity = level[s].quantity + delta
  PROVE  Follows(s, new, delta)
<1>1. new.version > level[s].version
  BY ShelfFacts, SMT
<1>2. QED
  BY <1>1 DEF Follows

\* A change of nothing but the quantity, by whatever use case.
LEMMA QuantityFollows ==
  ASSUME IInv, NEW s \in Shelves, NEW delta \in Int
  PROVE  Follows(s, WithQuantity(level[s], level[s].quantity + delta), delta)
<1>1. level[s].quantity + delta \in Int
  BY ShelfFacts, SMT
<1> DEFINE new == WithQuantity(level[s], level[s].quantity + delta)
<1>2. /\ Sound(new)
      /\ new.quantity = level[s].quantity + delta
      /\ new.version = level[s].version + 1
  BY <1>1, ShelfFacts, WithQuantitySound
<1>3. 1 \in Nat \ {0}
  BY SMT
<1> HIDE DEF new
<1>4. Follows(s, new, delta)
  BY <1>2, <1>3, FollowsIntro
<1>5. QED
  BY <1>4 DEF new

\* So does an arrival.
LEMMA ArrivalFollows ==
  ASSUME IInv, NEW s \in Shelves, NEW quantity \in Nat \ {0}, NEW unitCost \in Nat
  PROVE  Follows(s, Received(level[s], quantity, unitCost), quantity)
<1> DEFINE new == Received(level[s], quantity, unitCost)
<1>1. /\ Sound(new)
      /\ new.quantity = level[s].quantity + quantity
      /\ new.version = level[s].version + 1
  BY ShelfFacts, ReceivedSound
<1>2. quantity \in Int /\ 1 \in Nat \ {0}
  BY SMT
<1> HIDE DEF new
<1>3. Follows(s, new, quantity)
  BY <1>1, <1>2, FollowsIntro
<1>4. QED
  BY <1>3 DEF new

\* So does a level from which damaged copies were taken.
LEMMA TakingFollows ==
  ASSUME IInv, NEW s \in Shelves, NEW quantity \in Nat \ {0}, quantity <= level[s].damaged
  PROVE  Follows(s, TakeDamaged(level[s], quantity), 0)
<1> DEFINE new == TakeDamaged(level[s], quantity)
<1>1. /\ Sound(new)
      /\ new.quantity = level[s].quantity
      /\ new.version = level[s].version + 1
  BY ShelfFacts, TakeDamagedSound
<1>2. level[s].quantity = level[s].quantity + 0 /\ 0 \in Int /\ 1 \in Nat \ {0}
  BY ShelfFacts, SMT
<1> HIDE DEF new
<1>3. Follows(s, new, 0)
  BY <1>1, <1>2, FollowsIntro
<1>4. QED
  BY <1>3 DEF new
-----------------------------------------------------------------------------
(* One lemma per use case.                                                 *)

LEMMA ReceiveStockKeeps ==
  ASSUME IInv, NEW s \in Shelves, NEW q \in Quantities, NEW cost \in Costs,
         NEW zero, ReceiveStock(s, q, cost, zero)
  PROVE  IInv'
<1> DEFINE new == Received(level[s], q, cost)
<1>1. q \in Nat \ {0} /\ q \in Int /\ cost \in Nat
  BY RequestFacts
<1>2. Follows(s, new, q)
  BY <1>1, ArrivalFollows
<1>3. Change(s, new, q, Alerts(s, level[s].quantity, new))
  BY DEF ReceiveStock
<1>4. paid' \in [Shelves -> SUBSET Nat]
  BY <1>1, PaidAfterTyped DEF ReceiveStock, IInv
<1> HIDE DEF new
<1>5. QED
  BY <1>1, <1>2, <1>3, <1>4, AlertsTyped, ChangeKeepsIInv

LEMMA ReceiveDamagedKeeps ==
  ASSUME IInv, NEW s \in Shelves, NEW q \in Quantities, NEW cost \in Costs,
         ReceiveDamaged(s, q, cost)
  PROVE  IInv'
<1> DEFINE new == AddDamaged(level[s], q, RoundToCent(cost * q))
<1>1. q \in Nat \ {0} /\ cost \in Nat
  BY RequestFacts
<1>2. /\ Sound(new)
      /\ new.quantity = level[s].quantity
      /\ new.version = level[s].version + 1
  BY <1>1, ShelfFacts, AddDamagedSound
<1>3. Change(s, new, 0, {}) /\ paid' = paid
  BY DEF ReceiveDamaged
<1> HIDE DEF new
<1>4. level[s].quantity = level[s].quantity + 0 /\ 0 \in Int /\ 1 \in Nat \ {0}
  BY ShelfFacts, SMT
<1>5. Follows(s, new, 0)
  BY <1>2, <1>4, FollowsIntro
<1>6. paid' \in [Shelves -> SUBSET Nat]
  BY <1>3 DEF IInv, ShelvesTyped
<1>7. QED
  BY <1>3, <1>4, <1>5, <1>6, NoAlertsTyped, ChangeKeepsIInv

\* The four use cases in which damaged copies leave and nothing else changes.
LEMMA TakingKeeps ==
  ASSUME IInv, NEW s \in Shelves, NEW q \in Quantities, q <= level[s].damaged,
         Change(s, TakeDamaged(level[s], q), 0, {}), UNCHANGED paid
  PROVE  IInv'
<1> DEFINE new == TakeDamaged(level[s], q)
<1>1. Follows(s, new, 0)
  BY RequestFacts, TakingFollows
<1>2. Change(s, new, 0, {})
  OBVIOUS
<1>3. paid' \in [Shelves -> SUBSET Nat]
  BY DEF IInv, ShelvesTyped
<1> HIDE DEF new
<1>4. QED
  BY <1>1, <1>2, <1>3, NoAlertsTyped, ChangeKeepsIInv

\* Every use case that changes a quantity by some number of copies, and nothing else.
LEMMA QuantityKeeps ==
  ASSUME IInv, NEW s \in Shelves, NEW delta \in Int, UNCHANGED paid,
         NEW alerts \in AlertsType, NEW new,
         new = WithQuantity(level[s], level[s].quantity + delta),
         Change(s, new, delta, alerts)
  PROVE  IInv'
<1>1. Follows(s, new, delta)
  BY QuantityFollows
<1>2. paid' \in [Shelves -> SUBSET Nat]
  BY DEF IInv, ShelvesTyped
<1>3. QED
  BY <1>1, <1>2, ChangeKeepsIInv

LEMMA IssueKeeps ==
  ASSUME IInv, NEW s \in Shelves, NEW q \in Quantities, NEW allowed, Issue(s, q, allowed) \/ TakeOutAtCost(s, q)
  PROVE  IInv'
<1> DEFINE new == WithQuantity(level[s], level[s].quantity - q)
<1>1. Change(s, new, -q, Alerts(s, level[s].quantity, new)) /\ UNCHANGED paid
  BY DEF Issue, TakeOutAtCost
<1>2. level[s].quantity - q = level[s].quantity + (-q) /\ -q \in Int
  BY ShelfFacts, RequestFacts, SMT
<1>3. new = WithQuantity(level[s], level[s].quantity + (-q))
  BY <1>2
<1> HIDE DEF new
<1>4. QED
  BY <1>1, <1>2, <1>3, AlertsTyped, QuantityKeeps

LEMMA PostCountDifferenceKeeps ==
  ASSUME IInv, NEW s \in Shelves, NEW d \in Deltas, PostCountDifference(s, d)
  PROVE  IInv'
<1> DEFINE new == WithQuantity(level[s], level[s].quantity + d)
<1>1. Change(s, new, d, Alerts(s, level[s].quantity, new)) /\ UNCHANGED paid
  BY DEF PostCountDifference
<1>2. d \in Int
  BY RequestFacts
<1> HIDE DEF new
<1>3. QED
  BY <1>1, <1>2, AlertsTyped, QuantityKeeps DEF new

LEMMA ArriveForSpecialOrderKeeps ==
  ASSUME IInv, NEW s \in Shelves, NEW q \in Quantities, NEW take \in Quantities,
         NEW cost \in Costs, ArriveForSpecialOrder(s, q, take, cost)
  PROVE  IInv'
<1> DEFINE arrived == Received(level[s], q, cost)
           new == WithQuantity(arrived, arrived.quantity - take)
<1>1. q \in Nat \ {0} /\ q \in Int /\ take \in Nat /\ cost \in Nat
  BY RequestFacts
<1>2. /\ Sound(arrived)
      /\ arrived.quantity = level[s].quantity + q
      /\ arrived.version = level[s].version + 1
  BY <1>1, ShelfFacts, ReceivedSound
<1>3. Change(s, new, q - take, Alerts(s, level[s].quantity, arrived))
  BY DEF ArriveForSpecialOrder
<1>4. paid' \in [Shelves -> SUBSET Nat]
  BY <1>1, PaidAfterTyped DEF ArriveForSpecialOrder, IInv
<1> HIDE DEF arrived
<1>5. /\ arrived.quantity - take \in Int /\ q - take \in Int /\ 2 \in Nat \ {0}
      /\ arrived.quantity - take = level[s].quantity + (q - take)
      /\ arrived.version + 1 = level[s].version + 2
  BY <1>1, <1>2, ShelfFacts, SMT
<1>6. /\ Sound(new)
      /\ new.quantity = arrived.quantity - take
      /\ new.version = arrived.version + 1
  BY <1>2, <1>5, WithQuantitySound
<1> HIDE DEF new
<1>7. Follows(s, new, q - take)
  BY <1>5, <1>6, FollowsIntro
<1>8. QED
  BY <1>3, <1>4, <1>5, <1>7, AlertsTyped, ChangeKeepsIInv
\* Copies found damaged change the row twice: off the shelf, and set aside.
LEMMA AdjustStockFollows ==
  ASSUME IInv, NEW s \in Shelves, NEW d \in Deltas, NEW reason, DirectionAllowed(reason, d)
  PROVE  LET moved == WithQuantity(level[s], level[s].quantity + d)
             aside == AddDamaged(moved, -d, RoundToCent(level[s].averageCost * (-d)))
         IN Follows(s, IF reason = "damage" THEN aside ELSE moved, d)
<1> DEFINE moved == WithQuantity(level[s], level[s].quantity + d)
           aside == AddDamaged(moved, -d, RoundToCent(level[s].averageCost * (-d)))
<1>1. d \in Int /\ level[s].averageCost \in Nat
  BY RequestFacts, ShelfFacts
<1>2. level[s].quantity + d \in Int
  BY <1>1, ShelfFacts, SMT
<1>3. /\ Sound(moved)
      /\ moved.quantity = level[s].quantity + d
      /\ moved.version = level[s].version + 1
  BY <1>2, ShelfFacts, WithQuantitySound
<1>4. CASE reason # "damage"
  BY <1>1, <1>4, QuantityFollows
<1>5. CASE reason = "damage"
  <2>1. -d \in Nat \ {0}
    BY <1>1, <1>5, SMT DEF DirectionAllowed
  <2> HIDE DEF moved
  <2>2. /\ Sound(aside)
        /\ aside.quantity = moved.quantity
        /\ aside.version = moved.version + 1
    BY <1>1, <1>3, <2>1, AddDamagedSound
  <2> HIDE DEF aside
  <2>3. moved.version + 1 = level[s].version + 2 /\ 2 \in Nat \ {0}
    BY <1>3, ShelfFacts, SMT
  <2>4. Follows(s, aside, d)
    BY <1>1, <1>3, <2>2, <2>3, FollowsIntro
  <2>5. QED
    BY <1>5, <2>4 DEF aside, moved
<1>6. QED
  BY <1>4, <1>5

\* A correction, of whatever reason, keeps the invariant.
LEMMA AdjustStockKeeps ==
  ASSUME IInv, NEW c \in Clients, NEW s \in Shelves, NEW d \in Deltas, NEW reason,
         AdjustStock(c, s, d, reason)
  PROVE  IInv'
<1> DEFINE moved == WithQuantity(level[s], level[s].quantity + d)
           aside == AddDamaged(moved, -d, RoundToCent(level[s].averageCost * (-d)))
           new == IF reason = "damage" THEN aside ELSE moved
<1>1. /\ Change(s, new, d, Alerts(s, level[s].quantity, new))
      /\ DirectionAllowed(reason, d)
      /\ UNCHANGED paid
  BY DEF AdjustStock
<1>2. d \in Int
  BY RequestFacts
<1>3. Follows(s, new, d)
  BY <1>1, AdjustStockFollows
<1>4. paid' \in [Shelves -> SUBSET Nat]
  BY <1>1 DEF IInv, ShelvesTyped
<1> HIDE DEF new
<1>5. QED
  BY <1>1, <1>2, <1>3, <1>4, AlertsTyped, ChangeKeepsIInv

\* Repaired copies leave the damaged ones and arrive at their share's cost.
LEMMA RepairFollows ==
  ASSUME IInv, NEW s \in Shelves, NEW q \in Quantities, q <= level[s].damaged
  PROVE  LET unitCost == DivRound(DamagedShare(level[s].damaged, level[s].damagedValue, q), q)
         IN /\ unitCost \in Nat
            /\ Follows(s, Received(TakeDamaged(level[s], q), q, unitCost), q)
<1> DEFINE share == DamagedShare(level[s].damaged, level[s].damagedValue, q)
           unitCost == DivRound(share, q)
           taken == TakeDamaged(level[s], q)
           new == Received(taken, q, unitCost)
<1>1. q \in Nat \ {0} /\ q \in Int
  BY RequestFacts
<1>2. share \in Nat
  BY <1>1, ShelfFacts, SoundElim, DamagedShareBound
<1> HIDE DEF share
<1>3. unitCost \in Nat
  BY <1>1, <1>2, DivRoundNat
<1> HIDE DEF unitCost
<1>4. /\ Sound(taken)
      /\ taken.quantity = level[s].quantity
      /\ taken.version = level[s].version + 1
  BY <1>1, ShelfFacts, TakeDamagedSound
<1> HIDE DEF taken
<1>5. /\ Sound(new)
      /\ new.quantity = taken.quantity + q
      /\ new.version = taken.version + 1
  BY <1>1, <1>3, <1>4, ReceivedSound
<1> HIDE DEF new
<1>6. taken.version + 1 = level[s].version + 2 /\ 2 \in Nat \ {0}
  BY <1>4, ShelfFacts, SMT
<1>7. Follows(s, new, q)
  BY <1>1, <1>4, <1>5, <1>6, FollowsIntro
<1>8. QED
  BY <1>3, <1>7 DEF new, taken, unitCost, share

\* A repair keeps the invariant.
LEMMA RepairDamagedKeeps ==
  ASSUME IInv, NEW c \in Clients, NEW s \in Shelves, NEW q \in Quantities, NEW given,
         RepairDamaged(c, s, q, given)
  PROVE  IInv'
<1> DEFINE unitCost == DivRound(DamagedShare(level[s].damaged, level[s].damagedValue, q), q)
           new == Received(TakeDamaged(level[s], q), q, unitCost)
<1>1. /\ q <= level[s].damaged
      /\ Change(s, new, q, Alerts(s, level[s].quantity, new))
      /\ paid' = [paid EXCEPT ![s] = PaidAfter(s, unitCost)]
  BY DEF RepairDamaged
<1>2. unitCost \in Nat /\ Follows(s, new, q)
  BY <1>1, RepairFollows
<1>3. q \in Int
  BY RequestFacts
<1> HIDE DEF new, unitCost
<1>4. paid' \in [Shelves -> SUBSET Nat]
  BY <1>1, <1>2, PaidAfterTyped DEF IInv
<1>5. QED
  BY <1>1, <1>2, <1>3, <1>4, AlertsTyped, ChangeKeepsIInv

LEMMA RevalueKeeps ==
  ASSUME IInv, NEW c \in Clients, NEW s \in Shelves, NEW cost \in Costs, Revalue(c, s, cost)
  PROVE  IInv'
<1> DEFINE new == SetAverageCost(level[s], cost)
<1>1. Change(s, new, 0, {}) /\ paid' = [paid EXCEPT ![s] = {cost}]
  BY DEF Revalue
<1>2. cost \in Nat
  BY RequestFacts
<1>3. /\ Sound(new)
      /\ new.quantity = level[s].quantity
      /\ new.version = level[s].version + 1
  BY <1>2, ShelfFacts, SetAverageCostSound
<1> HIDE DEF new
<1>4. level[s].quantity = level[s].quantity + 0 /\ 0 \in Int /\ 1 \in Nat \ {0}
  BY ShelfFacts, SMT
<1>5. Follows(s, new, 0)
  BY <1>3, <1>4, FollowsIntro
<1>6. paid' \in [Shelves -> SUBSET Nat]
  BY <1>1, <1>2 DEF IInv, ShelvesTyped
<1>7. QED
  BY <1>1, <1>4, <1>5, <1>6, NoAlertsTyped, ChangeKeepsIInv
\* A transfer changes two shelves; each follows from what it was.
LEMMA TransferStockKeeps ==
  ASSUME IInv, NEW c \in Clients, NEW from \in Shelves, NEW to \in Shelves,
         NEW q \in Quantities, TransferStock(c, from, to, q)
  PROVE  IInv'
<1> DEFINE less == WithQuantity(level[from], level[from].quantity - q)
           more == Received(level[to], q, level[from].averageCost)
           out == Movement(history[from], level[from].quantity, level[from].quantity - q)
           in == Movement(history[to], level[to].quantity, level[to].quantity + q)
<1>1. q \in Nat \ {0} /\ q \in Int
  BY RequestFacts
<1>2. from # to
  BY DEF TransferStock
<1>3. /\ rows' = rows \cup {to}
      /\ level' = [level EXCEPT ![from] = less, ![to] = more]
      /\ history' = [history EXCEPT ![from] = out, ![to] = in]
      /\ raised' = Alerts(from, level[from].quantity, level'[from])
      /\ paid' = [paid EXCEPT ![to] = PaidAfter(to, level[from].averageCost)]
      /\ UNCHANGED <<seen, negativeAllowed>>
  BY <1>2 DEF TransferStock, MoveBetween, IInv, ShelvesTyped
<1>4. level[from].quantity - q \in Int
  BY <1>1, ShelfFacts, SMT
<1>5. /\ Sound(less)
      /\ less.quantity = level[from].quantity - q
      /\ less.version = level[from].version + 1
  BY <1>4, ShelfFacts, WithQuantitySound
<1>6. /\ Sound(more)
      /\ more.quantity = level[to].quantity + q
      /\ more.version = level[to].version + 1
  BY <1>1, ShelfFacts, ReceivedSound
<1> HIDE DEF less, more
<1>7. /\ less.version \in Nat /\ less.version > level[from].version
      /\ more.version \in Nat /\ more.version > level[to].version
  BY <1>5, <1>6, ShelfFacts, SMT
<1>8. /\ out \in [last : Int, sum : Int] /\ out.last = less.quantity /\ out.sum = less.quantity
      /\ in \in [last : Int, sum : Int] /\ in.last = more.quantity /\ in.sum = more.quantity
  <2>1. ASSUME NEW s \in Shelves
        PROVE  history[s].sum = level[s].quantity /\ level[s].quantity \in Int
    BY ShelfFacts DEF IInv, MatchesHistory
  <2>2. out \in [last : Int, sum : Int] /\ out.last = less.quantity /\ out.sum = less.quantity
    BY <1>1, <1>5, <2>1, SMT DEF Movement
  <2>3. in \in [last : Int, sum : Int] /\ in.last = more.quantity /\ in.sum = more.quantity
    BY <1>1, <1>6, <2>1, SMT DEF Movement
  <2>4. QED
    BY <2>2, <2>3
<1> HIDE DEF out, in
<1>9. /\ level' \in [Shelves -> Level] /\ level'[from] = less /\ level'[to] = more
      /\ history' \in [Shelves -> [last : Int, sum : Int]]
      /\ history'[from] = out /\ history'[to] = in
      /\ \A s \in Shelves \ {from, to} : level'[s] = level[s] /\ history'[s] = history[s]
  BY <1>2, <1>3, <1>5, <1>6, <1>8 DEF IInv, ShelvesTyped, Sound
<1>10. ShelvesTyped'
  <2>1. paid' \in [Shelves -> SUBSET Nat]
    BY <1>3, ShelfFacts, PaidAfterTyped DEF IInv
  <2>2. raised' \in AlertsType
    BY <1>3, AlertsTyped
  <2>3. rows' \subseteq Shelves /\ negativeAllowed' \subseteq Branches'
    BY <1>3 DEF IInv, ShelvesTyped, Branches
  <2>4. QED
    BY <1>3, <1>9, <2>1, <2>2, <2>3 DEF IInv, ShelvesTyped, AlertsType
<1>11. MatchesHistory'
  <2>1. ASSUME NEW s \in Shelves
        PROVE  history'[s].last = level'[s].quantity /\ history'[s].sum = level'[s].quantity
    BY <1>8, <1>9 DEF IInv, MatchesHistory
  <2>2. QED
    BY <2>1 DEF MatchesHistory
<1>12. VersionTellsChange'
  <2>1. ASSUME NEW d \in Clients, NEW s \in Shelves
        PROVE  /\ seen'[d][s].version <= level'[s].version
               /\ seen'[d][s].version = level'[s].version => Goods(seen'[d][s]) = Goods(level'[s])
    <3>1. seen'[d][s] = seen[d][s] /\ seen[d][s].version \in Nat
      BY <1>3 DEF IInv, ShelvesTyped, Level
    <3>2. CASE s = from
      BY <1>5, <1>7, <1>9, <3>1, <3>2, LaterVersionTells, SMT
    <3>3. CASE s = to
      BY <1>6, <1>7, <1>9, <3>1, <3>3, LaterVersionTells, SMT
    <3>4. CASE s \notin {from, to}
      BY <1>9, <3>1, <3>4 DEF IInv, VersionTellsChange
    <3>5. QED
      BY <3>2, <3>3, <3>4
  <2>2. QED
    BY <2>1 DEF VersionTellsChange
<1>13. \A s \in Shelves : Sound(level'[s])
  BY <1>5, <1>6, <1>9 DEF IInv
<1>14. QED
  BY <1>10, <1>11, <1>12, <1>13 DEF IInv

\* Reading a shelf shows it as it is.
LEMMA ReadKeeps ==
  ASSUME IInv, NEW c \in Clients, NEW s \in Shelves, Read(c, s)
  PROVE  IInv'
<1>1. /\ seen' = [seen EXCEPT ![c][s] = level[s]]
      /\ UNCHANGED <<rows, level, history, negativeAllowed, raised, paid>>
  BY DEF Read
<1>2. /\ seen \in [Clients -> [Shelves -> Level]]
      /\ level[s] \in Level
  BY ShelfFacts DEF IInv, ShelvesTyped
<1>3. seen' \in [Clients -> [Shelves -> Level]]
  BY <1>1, <1>2
<1>4. ShelvesTyped'
  BY <1>1, <1>3 DEF IInv, ShelvesTyped, Branches
<1>5. MatchesHistory' /\ \A t \in Shelves : Sound(level'[t])
  BY <1>1 DEF IInv, MatchesHistory
<1>6. VersionTellsChange'
  <2>1. ASSUME NEW d \in Clients, NEW t \in Shelves
        PROVE  /\ seen'[d][t].version <= level'[t].version
               /\ seen'[d][t].version = level'[t].version => Goods(seen'[d][t]) = Goods(level'[t])
    <3>1. CASE d = c /\ t = s
      <4>1. seen'[d][t] = level[t] /\ level'[t] = level[t]
        BY <1>1, <1>2, <3>1
      <4>2. level[t].version <= level[t].version
        BY ShelfFacts, SMT
      <4>3. QED
        BY <4>1, <4>2
    <3>2. CASE ~(d = c /\ t = s)
      <4>1. seen'[d][t] = seen[d][t]
        BY <1>1, <1>2, <3>2
      <4>2. QED
        BY <1>1, <4>1 DEF IInv, VersionTellsChange
    <3>3. QED
      BY <3>1, <3>2
  <2>2. QED
    BY <2>1 DEF VersionTellsChange
<1>7. QED
  BY <1>4, <1>5, <1>6 DEF IInv

\* A new reorder point changes neither the goods nor the version.
LEMMA SetReorderPointKeeps ==
  ASSUME IInv, NEW s \in Shelves, NEW rp \in ReorderPoints, SetReorderPoint(s, rp)
  PROVE  IInv'
<1> DEFINE new == [level[s] EXCEPT !.reorderPoint = rp]
<1>1. /\ level' = [level EXCEPT ![s] = new]
      /\ raised' = {}
      /\ UNCHANGED <<rows, history, seen, negativeAllowed, paid>>
  BY DEF SetReorderPoint
<1>2. rp \in Nat
  BY InventoryAssumption
<1>3. /\ new \in Level
      /\ new.quantity = level[s].quantity
      /\ new.version = level[s].version
      /\ new.damaged = level[s].damaged
      /\ new.damagedValue = level[s].damagedValue
      /\ Goods(new) = Goods(level[s])
  BY <1>2, ShelfFacts, Zenon DEF Level, Goods
<1> HIDE DEF new
<1>4. Sound(new)
  BY <1>3, ShelfFacts, SoundElim, SoundIntro
<1>5. /\ level' \in [Shelves -> Level]
      /\ level'[s] = new
      /\ \A t \in Shelves \ {s} : level'[t] = level[t]
  BY <1>1, <1>3 DEF IInv, ShelvesTyped
<1>6. ShelvesTyped'
  BY <1>1, <1>5 DEF IInv, ShelvesTyped, Branches
<1>7. \A t \in Shelves : /\ level'[t].quantity = level[t].quantity
                          /\ level'[t].version = level[t].version
                          /\ Goods(level'[t]) = Goods(level[t])
                          /\ Sound(level'[t])
  BY <1>3, <1>4, <1>5 DEF IInv
<1>8. MatchesHistory' /\ VersionTellsChange'
  BY <1>1, <1>7 DEF IInv, MatchesHistory, VersionTellsChange
<1>9. QED
  BY <1>6, <1>7, <1>8 DEF IInv

\* What changes no shelf, no screen and no setting keeps the invariant.
LEMMA StockStandsKeeps ==
  ASSUME IInv, UNCHANGED <<rows, level, history, seen, negativeAllowed, raised, paid>>
  PROVE  IInv'
  BY DEF IInv, ShelvesTyped, MatchesHistory, VersionTellsChange, Branches

-----------------------------------------------------------------------------
(* The settings transactions have read.                                    *)

AskedTyped == asked \in [Clients -> SUBSET Reading]

\* What becomes of the readings in one step.
AskedMoves ==
  \/ asked' = asked
  \/ \E c \in Clients : \/ asked' = [asked EXCEPT ![c] = {}]
                        \/ \E r \in Reading : asked' = [asked EXCEPT ![c] = {r}]

\* A reading names a shelf of the shop and is yes or no.
LEMMA ReadSettingAsks ==
  ASSUME NEW c \in Clients, NEW s \in Shelves, ReadSetting(c, s)
  PROVE  AskedMoves
<1>1. [shelf |-> s, allowed |-> NegativeAllowedAt(s)] \in Reading
  BY DEF Reading, NegativeAllowedAt
<1> QED BY <1>1 DEF ReadSetting, AskedMoves

\* A step keeps the readings, or begins or ends one client's.
LEMMA NextAsked == [Next]_vars => AskedMoves
<1> SUFFICES ASSUME [Next]_vars PROVE AskedMoves
  OBVIOUS
<1>1. CASE Documents
  BY <1>1 DEF Documents, ReceiveStock, ReceiveDamaged, IssueDamaged, ArriveForSpecialOrder, TakeOutAtCost,
              ReturnDamagedToSupplier, AskedMoves
<1>2. CASE Forms
  <2>1. PICK c \in Clients, s \in Shelves :
          \/ Read(c, s)
          \/ ReadSetting(c, s)
          \/ \E q \in Quantities : IssueStock(c, s, q)
          \/ \E d \in Deltas, reason \in {"damage", "loss", "correction"} : AdjustStock(c, s, d, reason)
          \/ \E to \in Shelves, q \in Quantities : TransferStock(c, s, to, q)
          \/ \E q \in Quantities, cost \in Costs : StockIn(c, s, q, cost)
          \/ \E q \in Quantities : StockOut(c, s, q)
          \/ \E q \in Quantities, given \in BOOLEAN : WriteOffDamaged(c, s, q, given)
          \/ \E q \in Quantities, given \in BOOLEAN : RepairDamaged(c, s, q, given)
          \/ \E cost \in Costs : Revalue(c, s, cost)
    BY <1>2 DEF Forms
  <2>2. CASE ReadSetting(c, s)
    BY <2>2, ReadSettingAsks
  <2>3. CASE \E q \in Quantities : IssueStock(c, s, q)
    BY <2>3 DEF IssueStock, AskedMoves
  <2>4. CASE \E d \in Deltas, reason \in {"damage", "loss", "correction"} : AdjustStock(c, s, d, reason)
    BY <2>4 DEF AdjustStock, AskedMoves
  <2>5. CASE Read(c, s) \/ \E to \in Shelves, q \in Quantities : TransferStock(c, s, to, q)
    BY <2>5 DEF Read, TransferStock, AskedMoves
  <2>6. CASE \/ \E q \in Quantities, cost \in Costs : StockIn(c, s, q, cost)
             \/ \E q \in Quantities : StockOut(c, s, q)
    BY <2>6 DEF StockIn, ReceiveStock, StockOut, AskedMoves
  <2>7. CASE \/ \E q \in Quantities, given \in BOOLEAN : WriteOffDamaged(c, s, q, given)
             \/ \E q \in Quantities, given \in BOOLEAN : RepairDamaged(c, s, q, given)
             \/ \E cost \in Costs : Revalue(c, s, cost)
    BY <2>7 DEF WriteOffDamaged, RepairDamaged, Revalue, AskedMoves
  <2> QED BY <2>1, <2>2, <2>3, <2>4, <2>5, <2>6, <2>7
<1>3. CASE \/ \E s \in Shelves, d \in Deltas : PostCountDifference(s, d)
           \/ \E s \in Shelves, rp \in ReorderPoints : SetReorderPoint(s, rp)
           \/ \E b \in Branches : ToggleNegative(b)
  BY <1>3 DEF PostCountDifference, SetReorderPoint, ToggleNegative, AskedMoves
<1>4. CASE \E c \in Clients : RollBack(c)
  BY <1>4 DEF RollBack, AskedMoves
<1>5. CASE UNCHANGED vars
  BY <1>5 DEF vars, AskedMoves
<1> QED BY <1>1, <1>2, <1>3, <1>4, <1>5 DEF Next

-----------------------------------------------------------------------------
(* The theorems.                                                           *)

LEMMA InitIInv == Init => IInv
<1>1. SUFFICES ASSUME Init PROVE IInv
  OBVIOUS
<1>2. EmptyLevel \in Level /\ Sound(EmptyLevel) /\ EmptyLevel.quantity = 0
  BY EmptySound, SoundElim
<1>3. ShelvesTyped
  BY <1>1, <1>2 DEF Init, ShelvesTyped
<1>4. MatchesHistory /\ \A s \in Shelves : Sound(level[s])
  BY <1>1, <1>2 DEF Init, MatchesHistory
<1>5. VersionTellsChange
  <2>1. \A c \in Clients, s \in Shelves : seen[c][s] = level[s] /\ level[s].version <= level[s].version
    BY <1>1, <1>2, NextVersion, SMT DEF Init
  <2>2. QED
    BY <2>1 DEF VersionTellsChange
<1>6. QED
  BY <1>3, <1>4, <1>5 DEF IInv

\* Every step keeps the invariant: one case per use case.
LEMMA NextIInv == IInv /\ [Next]_vars => IInv'
<1> SUFFICES ASSUME IInv, [Next]_vars PROVE IInv'
  OBVIOUS
<1>1. CASE Documents
  <2>1. PICK s \in Shelves, q \in Quantities :
          \/ \E cost \in Costs, zero \in BOOLEAN : ReceiveStock(s, q, cost, zero)
          \/ \E cost \in Costs : ReceiveDamaged(s, q, cost)
          \/ IssueDamaged(s, q)
          \/ \E take \in Quantities, cost \in Costs : ArriveForSpecialOrder(s, q, take, cost)
          \/ TakeOutAtCost(s, q)
          \/ ReturnDamagedToSupplier(s, q)
    BY <1>1 DEF Documents
  <2>2. CASE \E cost \in Costs, zero \in BOOLEAN : ReceiveStock(s, q, cost, zero)
    BY <2>2, ReceiveStockKeeps
  <2>3. CASE \E cost \in Costs : ReceiveDamaged(s, q, cost)
    BY <2>3, ReceiveDamagedKeeps
  <2>4. CASE IssueDamaged(s, q) \/ ReturnDamagedToSupplier(s, q)
    BY <2>4, TakingKeeps DEF IssueDamaged, ReturnDamagedToSupplier
  <2>5. CASE TakeOutAtCost(s, q)
    BY <2>5, IssueKeeps
  <2>6. CASE \E take \in Quantities, cost \in Costs : ArriveForSpecialOrder(s, q, take, cost)
    BY <2>6, ArriveForSpecialOrderKeeps
  <2>7. QED
    BY <2>1, <2>2, <2>3, <2>4, <2>5, <2>6
<1>2. CASE Forms
  <2>1. PICK c \in Clients, s \in Shelves :
          \/ Read(c, s)
          \/ ReadSetting(c, s)
          \/ \E q \in Quantities : IssueStock(c, s, q)
          \/ \E d \in Deltas, reason \in {"damage", "loss", "correction"} :
                AdjustStock(c, s, d, reason)
          \/ \E to \in Shelves, q \in Quantities : TransferStock(c, s, to, q)
          \/ \E q \in Quantities, cost \in Costs : StockIn(c, s, q, cost)
          \/ \E q \in Quantities : StockOut(c, s, q)
          \/ \E q \in Quantities, given \in BOOLEAN : WriteOffDamaged(c, s, q, given)
          \/ \E q \in Quantities, given \in BOOLEAN : RepairDamaged(c, s, q, given)
          \/ \E cost \in Costs : Revalue(c, s, cost)
    BY <1>2 DEF Forms
  <2>2. CASE Read(c, s)
    BY <2>2, ReadKeeps
  <2>3. CASE \E d \in Deltas, reason \in {"damage", "loss", "correction"} :
               AdjustStock(c, s, d, reason)
    BY <2>3, AdjustStockKeeps
  <2>4. CASE \E to \in Shelves, q \in Quantities : TransferStock(c, s, to, q)
    BY <2>4, TransferStockKeeps
  <2>5. CASE \E q \in Quantities, cost \in Costs : StockIn(c, s, q, cost)
    BY <2>5, ReceiveStockKeeps DEF StockIn
  <2>6. CASE \E q \in Quantities : StockOut(c, s, q)
    BY <2>6, IssueKeeps DEF StockOut
  <2>7. CASE \E q \in Quantities, given \in BOOLEAN : WriteOffDamaged(c, s, q, given)
    BY <2>7, TakingKeeps DEF WriteOffDamaged
  <2>8. CASE \E q \in Quantities, given \in BOOLEAN : RepairDamaged(c, s, q, given)
    BY <2>8, RepairDamagedKeeps
  <2>9. CASE \E cost \in Costs : Revalue(c, s, cost)
    BY <2>9, RevalueKeeps
  <2>10. CASE ReadSetting(c, s)
    BY <2>10, StockStandsKeeps DEF ReadSetting
  <2>11. CASE \E q \in Quantities : IssueStock(c, s, q)
    BY <2>11, IssueKeeps DEF IssueStock
  <2> QED BY <2>1, <2>2, <2>3, <2>4, <2>5, <2>6, <2>7, <2>8, <2>9, <2>10, <2>11
<1>3. CASE \E s \in Shelves, d \in Deltas : PostCountDifference(s, d)
  BY <1>3, PostCountDifferenceKeeps
<1>4. CASE \E s \in Shelves, rp \in ReorderPoints : SetReorderPoint(s, rp)
  BY <1>4, SetReorderPointKeeps
<1>5. CASE \E b \in Branches : ToggleNegative(b)
  BY <1>5 DEF ToggleNegative, IInv, ShelvesTyped, MatchesHistory, VersionTellsChange, Branches
<1>6. CASE \E c \in Clients : RollBack(c)
  BY <1>6, StockStandsKeeps DEF RollBack
<1>7. CASE UNCHANGED vars
  BY <1>7, StockStandsKeeps DEF vars
<1> QED BY <1>1, <1>2, <1>3, <1>4, <1>5, <1>6, <1>7 DEF Next

LEMMA InvariantHolds == Spec => []IInv
  BY InitIInv, NextIInv, PTL DEF Spec

LEMMA AskedStaysTyped == Spec => []AskedTyped
<1>1. Init => AskedTyped
  BY DEF Init, AskedTyped
<1>2. AskedTyped /\ [Next]_vars => AskedTyped'
  BY NextAsked DEF AskedTyped, AskedMoves
<1> QED BY <1>1, <1>2, PTL DEF Spec

\* The levels, the history, the screens and the readings keep their types: above all no
\* average cost is ever negative, also after repairs that divide a share among copies.
THEOREM TypeCorrect == Spec => []TypeOK
<1>1. IInv /\ AskedTyped => TypeOK
  BY DEF IInv, TypeOK, AskedTyped
<1> QED BY <1>1, InvariantHolds, AskedStaysTyped, PTL

\* Every shelf holds what its history says, whatever use cases ran and in
\* whatever order (check stock.matches-history).
THEOREM HistoryMatches == Spec => []MatchesHistory
<1>1. IInv => MatchesHistory
  BY DEF IInv
<1>2. QED
  BY <1>1, InvariantHolds, PTL

\* A version that still stands vouches for the goods: checkVersion is enough to
\* keep a stale form from being booked.
THEOREM VersionsTell == Spec => []VersionTellsChange
<1>1. IInv => VersionTellsChange
  BY DEF IInv
<1>2. QED
  BY <1>1, InvariantHolds, PTL

\* The constraint on damaged copies and their value never refuses a use case,
\* whatever Cent is and however often a share was rounded.
THEOREM DamagedStaysConsistent == Spec => []DamagedConsistent
<1>1. IInv => DamagedConsistent
  BY DEF IInv, DamagedConsistent, Sound
<1>2. QED
  BY <1>1, InvariantHolds, PTL

-----------------------------------------------------------------------------
(* Forms that name a version.                                              *)

\* The shelf s moves to a later version, and no screen is refreshed by it.
Moves(s) == seen' = seen /\ level'[s].version > level[s].version

\* A change to a level that follows moves its shelf.
LEMMA ChangeMoves ==
  ASSUME IInv, NEW s \in Shelves, NEW new, NEW delta, NEW alerts,
         Follows(s, new, delta), Change(s, new, delta, alerts)
  PROVE  Moves(s)
<1>1. level' = [level EXCEPT ![s] = new] /\ seen' = seen
  BY DEF Change
<1>2. level'[s] = new
  BY <1>1 DEF IInv, ShelvesTyped
<1>3. QED
  BY <1>1, <1>2 DEF Follows, Moves

\* A correction is made on the version its author saw, and uses it up.
LEMMA AdjustStockMoves ==
  ASSUME IInv, NEW c \in Clients, NEW s \in Shelves, NEW d \in Deltas, NEW reason,
         AdjustStock(c, s, d, reason)
  PROVE  CheckVersion(c, s) /\ Moves(s)
<1> DEFINE moved == WithQuantity(level[s], level[s].quantity + d)
           aside == AddDamaged(moved, -d, RoundToCent(level[s].averageCost * (-d)))
           new == IF reason = "damage" THEN aside ELSE moved
<1>1. /\ CheckVersion(c, s)
      /\ DirectionAllowed(reason, d)
      /\ Change(s, new, d, Alerts(s, level[s].quantity, new))
  BY DEF AdjustStock
<1>2. Follows(s, new, d)
  BY <1>1, AdjustStockFollows
<1> HIDE DEF new
<1>3. QED
  BY <1>1, <1>2, ChangeMoves

\* So is a transfer, on the version of the shelf the copies leave.
LEMMA TransferStockMoves ==
  ASSUME IInv, NEW c \in Clients, NEW from \in Shelves, NEW to \in Shelves,
         NEW q \in Quantities, TransferStock(c, from, to, q)
  PROVE  CheckVersion(c, from) /\ Moves(from)
<1> DEFINE less == WithQuantity(level[from], level[from].quantity - q)
<1>1. level[from].quantity - q \in Int
  BY ShelfFacts, RequestFacts, SMT
<1>2. less.version = level[from].version + 1
  BY <1>1, ShelfFacts, WithQuantitySound
<1>3. level'[from] = less
  BY DEF TransferStock, MoveBetween, IInv, ShelvesTyped
<1> HIDE DEF less
<1>4. level'[from].version > level[from].version
  BY <1>2, <1>3, ShelfFacts, SMT
<1>5. QED
  BY <1>4 DEF TransferStock, Moves

\* So is stock received by hand.
LEMMA StockInMoves ==
  ASSUME IInv, NEW c \in Clients, NEW s \in Shelves, NEW q \in Quantities, NEW cost \in Costs,
         StockIn(c, s, q, cost)
  PROVE  CheckVersion(c, s) /\ Moves(s)
<1> DEFINE new == Received(level[s], q, cost)
<1>1. CheckVersion(c, s) /\ Change(s, new, q, Alerts(s, level[s].quantity, new))
  BY DEF StockIn, ReceiveStock
<1>2. Follows(s, new, q)
  BY RequestFacts, ArrivalFollows
<1> HIDE DEF new
<1>3. QED
  BY <1>1, <1>2, ChangeMoves

\* So is stock issued by hand.
LEMMA StockOutMoves ==
  ASSUME IInv, NEW c \in Clients, NEW s \in Shelves, NEW q \in Quantities, StockOut(c, s, q)
  PROVE  CheckVersion(c, s) /\ Moves(s)
<1> DEFINE new == WithQuantity(level[s], level[s].quantity - q)
<1>1. CheckVersion(c, s) /\ Change(s, new, -q, Alerts(s, level[s].quantity, new))
  BY DEF StockOut, Issue
<1>2. level[s].quantity - q = level[s].quantity + (-q) /\ -q \in Int
  BY ShelfFacts, RequestFacts, SMT
<1>3. Follows(s, new, -q)
  BY <1>2, QuantityFollows
<1> HIDE DEF new
<1>4. QED
  BY <1>1, <1>3, ChangeMoves

\* So are the forms for damaged copies, where they name a version.
LEMMA DamagedFormsMove ==
  ASSUME IInv, NEW c \in Clients, NEW s \in Shelves, NEW q \in Quantities,
         WriteOffDamaged(c, s, q, TRUE) \/ RepairDamaged(c, s, q, TRUE)
  PROVE  CheckVersion(c, s) /\ Moves(s)
<1>1. CASE WriteOffDamaged(c, s, q, TRUE)
  <2> DEFINE new == TakeDamaged(level[s], q)
  <2>1. CheckVersion(c, s) /\ q <= level[s].damaged /\ Change(s, new, 0, {})
    BY <1>1 DEF WriteOffDamaged, VersionGiven
  <2>2. Follows(s, new, 0)
    BY <2>1, RequestFacts, TakingFollows
  <2> HIDE DEF new
  <2>3. QED
    BY <2>1, <2>2, ChangeMoves
<1>2. CASE RepairDamaged(c, s, q, TRUE)
  <2> DEFINE unitCost == DivRound(DamagedShare(level[s].damaged, level[s].damagedValue, q), q)
             new == Received(TakeDamaged(level[s], q), q, unitCost)
  <2>1. /\ CheckVersion(c, s)
        /\ q <= level[s].damaged
        /\ Change(s, new, q, Alerts(s, level[s].quantity, new))
    BY <1>2 DEF RepairDamaged, VersionGiven
  <2>2. Follows(s, new, q)
    BY <2>1, RepairFollows
  <2> HIDE DEF new
  <2>3. QED
    BY <2>1, <2>2, ChangeMoves
<1>3. QED
  BY <1>1, <1>2

\* So is a new average cost.
LEMMA RevalueMoves ==
  ASSUME IInv, NEW c \in Clients, NEW s \in Shelves, NEW cost \in Costs, Revalue(c, s, cost)
  PROVE  CheckVersion(c, s) /\ Moves(s)
<1> DEFINE new == SetAverageCost(level[s], cost)
<1>1. CheckVersion(c, s) /\ level' = [level EXCEPT ![s] = new] /\ seen' = seen
  BY DEF Revalue, Change
<1>2. new.version = level[s].version + 1
  BY RequestFacts, ShelfFacts, SetAverageCostSound
<1> HIDE DEF new
<1>3. level'[s] = new
  BY <1>1 DEF IInv, ShelvesTyped
<1>4. level'[s].version > level[s].version
  BY <1>2, <1>3, ShelfFacts, SMT
<1>5. QED
  BY <1>1, <1>4 DEF Moves

\* A form with a version is refused unless its author saw the goods as they are, and
\* once booked its version is used up: this is what checkVersion is for.
THEOREM FormsAreNotStale == Spec => FormsSeeWhatTheyChange
<1> DEFINE Form(c, s, q) ==
             \/ \E d \in Deltas, r \in {"damage", "loss", "correction"} : AdjustStock(c, s, d, r)
             \/ \E to \in Shelves : TransferStock(c, s, to, q)
             \/ StockOut(c, s, q)
             \/ WriteOffDamaged(c, s, q, TRUE)
             \/ RepairDamaged(c, s, q, TRUE)
             \/ \E cost \in Costs : StockIn(c, s, q, cost) \/ Revalue(c, s, cost)
           Seen(c, s) == /\ Goods(seen[c][s]) = Goods(level[s])
                         /\ seen'[c][s].version < level'[s].version
<1>1. ASSUME IInv, NEW c \in Clients, NEW s \in Shelves, NEW q \in Quantities, Form(c, s, q)
      PROVE  Seen(c, s)
  <2>1. CheckVersion(c, s) /\ Moves(s)
    BY <1>1, AdjustStockMoves, TransferStockMoves, StockInMoves, StockOutMoves,
       DamagedFormsMove, RevalueMoves
  <2>2. Goods(seen[c][s]) = Goods(level[s])
    BY <1>1, <2>1 DEF CheckVersion, IInv, VersionTellsChange
  <2>3. seen'[c][s].version = level[s].version
    BY <2>1 DEF CheckVersion, Moves
  <2>4. level'[s].version > level[s].version
    BY <2>1 DEF Moves
  <2>5. QED
    BY <2>2, <2>3, <2>4
<1>2. IInv => [\A c \in Clients, s \in Shelves, q \in Quantities : Form(c, s, q) => Seen(c, s)]_vars
  BY <1>1
<1>3. QED
  BY <1>2, InvariantHolds, PTL DEF FormsSeeWhatTheyChange
-----------------------------------------------------------------------------
(* Average costs.                                                          *)

\* What each write does to the fields of a level.
LEMMA WriteFields ==
  ASSUME NEW l \in Level, NEW quantity, NEW value, NEW unitCost
  PROVE  /\ LET new == WithQuantity(l, quantity)
            IN /\ new.quantity = quantity /\ new.averageCost = l.averageCost
               /\ new.damaged = l.damaged /\ new.reorderPoint = l.reorderPoint
         /\ LET new == AddDamaged(l, quantity, value)
            IN /\ new.quantity = l.quantity /\ new.averageCost = l.averageCost
               /\ new.damaged = l.damaged + quantity /\ new.reorderPoint = l.reorderPoint
         /\ LET new == TakeDamaged(l, quantity)
            IN /\ new.quantity = l.quantity /\ new.averageCost = l.averageCost
               /\ new.damaged = l.damaged - quantity /\ new.reorderPoint = l.reorderPoint
         /\ LET new == SetAverageCost(l, unitCost)
            IN new.quantity = l.quantity /\ new.averageCost = unitCost
<1>1. LET new == WithQuantity(l, quantity)
      IN /\ new.quantity = quantity /\ new.averageCost = l.averageCost
         /\ new.damaged = l.damaged /\ new.reorderPoint = l.reorderPoint
  BY DEF WithQuantity, Level
<1>2. LET new == AddDamaged(l, quantity, value)
      IN /\ new.quantity = l.quantity /\ new.averageCost = l.averageCost
         /\ new.damaged = l.damaged + quantity /\ new.reorderPoint = l.reorderPoint
  BY DEF AddDamaged, Level
<1>3. LET new == TakeDamaged(l, quantity)
      IN /\ new.quantity = l.quantity /\ new.averageCost = l.averageCost
         /\ new.damaged = l.damaged - quantity /\ new.reorderPoint = l.reorderPoint
  BY DEF TakeDamaged, Level
<1>4. LET new == SetAverageCost(l, unitCost)
      IN new.quantity = l.quantity /\ new.averageCost = unitCost
  BY DEF SetAverageCost, Level
<1> QED BY <1>1, <1>2, <1>3, <1>4

LEMMA ReceivedFields ==
  ASSUME NEW l \in Level, NEW quantity, NEW unitCost
  PROVE  LET new == Received(l, quantity, unitCost)
         IN /\ new.quantity = l.quantity + quantity
            /\ new.averageCost = AverageCostAfterReceipt(l.quantity, l.averageCost, quantity, unitCost)
            /\ new.damaged = l.damaged /\ new.reorderPoint = l.reorderPoint
  BY DEF Received, WithQuantity, Level

\* Rounding does not fall below a whole quotient the division reaches.
LEMMA DivRoundAtLeast ==
  ASSUME NEW a \in Nat, NEW b \in Nat \ {0}, NEW m \in Nat, m * b <= a
  PROVE  m <= DivRound(a, b)
<1> DEFINE q == DivRound(a, b)
<1>1. q \in Nat
  BY DivRoundNat
<1>2. 2 * a + b < (2 * b) * (q + 1)
  BY SMT DEF DivRound
<1> HIDE DEF q
<1> SUFFICES ASSUME q + 1 <= m PROVE FALSE
  BY <1>1 DEF q
<1>3. (2 * b) * (q + 1) <= (2 * b) * m
  BY <1>1, SMT
<1>4. (2 * b) * m = 2 * (m * b)
  BY SMT
<1> QED BY <1>1, <1>2, <1>3, <1>4, SMT

\* An average of two costs, however weighted and rounded, is between them.
LEMMA AverageBetween ==
  ASSUME NEW quantity \in Nat \ {0}, NEW averageCost \in Nat, NEW received \in Nat \ {0}, NEW unitCost \in Nat,
         NEW lo \in Nat, NEW hi \in Nat, lo <= averageCost, lo <= unitCost, averageCost <= hi, unitCost <= hi
  PROVE  LET average == AverageCostAfterReceipt(quantity, averageCost, received, unitCost)
         IN lo <= average /\ average <= hi
<1> DEFINE a == averageCost * quantity
           c == unitCost * received
           n == quantity + received
<1>1. a \in Nat /\ lo * quantity <= a /\ a <= hi * quantity
  BY SMT
<1>2. c \in Nat /\ lo * received <= c /\ c <= hi * received
  BY SMT
<1>3. lo * n = lo * quantity + lo * received /\ hi * n = hi * quantity + hi * received
  BY SMT
<1>4. n \in Nat \ {0}
  BY SMT
<1>5. lo * quantity \in Nat /\ lo * received \in Nat /\ hi * quantity \in Nat /\ hi * received \in Nat
  BY SMT
<1> HIDE DEF a, c
<1>6. lo * n <= a + c /\ a + c <= hi * n /\ a + c \in Nat
  BY <1>1, <1>2, <1>3, <1>5, SMT
<1>7. AverageCostAfterReceipt(quantity, averageCost, received, unitCost) = DivRound(a + c, n)
  BY DEF AverageCostAfterReceipt, a, c
<1> HIDE DEF n
<1> QED BY <1>4, <1>6, <1>7, DivRoundAtLeast, DivRoundAtMost

\* The cost is between two of those that were paid.
Within(cost, costs) ==
  /\ costs \in SUBSET Nat /\ IsFiniteSet(costs)
  /\ \E lo, hi \in costs : lo <= cost /\ cost <= hi

AveragesWithin == \A s \in Shelves : Within(level[s].averageCost, paid[s])

LEMMA OneCost == ASSUME NEW cost \in Nat PROVE Within(cost, {cost})
<1>1. IsFiniteSet({cost})
  BY FS_Singleton
<1>2. {cost} \in SUBSET Nat /\ cost <= cost
  OBVIOUS
<1> QED BY <1>1, <1>2 DEF Within

\* What arrives is averaged with what is there, or replaces it.
LEMMA ArrivalWithin ==
  ASSUME IInv, AveragesWithin, NEW s \in Shelves, NEW received \in Nat \ {0}, NEW unitCost \in Nat
  PROVE  Within(AverageCostAfterReceipt(level[s].quantity, level[s].averageCost, received, unitCost),
                PaidAfter(s, unitCost))
<1>1. PICK quantity \in Int, averageCost \in Nat :
        quantity = level[s].quantity /\ averageCost = level[s].averageCost
  BY ShelfFacts DEF Level
<1>2. CASE quantity <= 0
  BY <1>1, <1>2, OneCost DEF AverageCostAfterReceipt, PaidAfter
<1>3. CASE ~(quantity <= 0)
  <2>1. quantity \in Nat \ {0}
    BY <1>3
  <2>2. PaidAfter(s, unitCost) = paid[s] \cup {unitCost}
    BY <1>1, <1>3 DEF PaidAfter
  <2>3. Within(averageCost, paid[s])
    BY <1>1 DEF AveragesWithin
  <2>4. PICK lo \in paid[s], hi \in paid[s] : lo <= averageCost /\ averageCost <= hi
    BY <2>3 DEF Within
  <2>5. lo \in Nat /\ hi \in Nat
    BY <2>3 DEF Within
  <2>6. PICK low \in {lo, unitCost}, high \in {hi, unitCost} :
          low <= averageCost /\ low <= unitCost /\ averageCost <= high /\ unitCost <= high
    BY <2>4, <2>5
  <2>7. LET average == AverageCostAfterReceipt(quantity, averageCost, received, unitCost)
        IN low <= average /\ average <= high
    BY <2>1, <2>5, <2>6, AverageBetween
  <2>8. IsFiniteSet(paid[s] \cup {unitCost}) /\ paid[s] \cup {unitCost} \in SUBSET Nat
    BY <2>3, FS_AddElement DEF Within
  <2> QED BY <1>1, <2>2, <2>4, <2>6, <2>7, <2>8 DEF Within
<1> QED BY <1>2, <1>3

\* A transaction that changes one shelf and what was paid there
LEMMA OneShelfWithin ==
  ASSUME IInv, AveragesWithin, NEW s \in Shelves, NEW new, NEW costs,
         level' = [level EXCEPT ![s] = new], paid' = [paid EXCEPT ![s] = costs],
         Within(new.averageCost, costs)
  PROVE  AveragesWithin'
  BY DEF IInv, ShelvesTyped, AveragesWithin

LEMMA SameAverageWithin ==
  ASSUME IInv, AveragesWithin, NEW s \in Shelves, NEW new,
         level' = [level EXCEPT ![s] = new], new.averageCost = level[s].averageCost, UNCHANGED paid
  PROVE  AveragesWithin'
  BY DEF IInv, ShelvesTyped, AveragesWithin
LEMMA ReceivingWithin ==
  ASSUME IInv, AveragesWithin, NEW s \in Shelves, NEW q \in Quantities, NEW unitCost \in Costs, NEW zero,
         ReceiveStock(s, q, unitCost, zero)
  PROVE  AveragesWithin'
<1> DEFINE new == Received(level[s], q, unitCost)
<1>1. level' = [level EXCEPT ![s] = new] /\ paid' = [paid EXCEPT ![s] = PaidAfter(s, unitCost)]
  BY DEF ReceiveStock, Change
<1>2. Within(new.averageCost, PaidAfter(s, unitCost))
  BY ShelfFacts, RequestFacts, ReceivedFields, ArrivalWithin
<1> HIDE DEF new
<1> QED BY <1>1, <1>2, OneShelfWithin

LEMMA SpecialOrderWithin ==
  ASSUME IInv, AveragesWithin, NEW s \in Shelves, NEW q \in Quantities, NEW take \in Quantities,
         NEW unitCost \in Costs, ArriveForSpecialOrder(s, q, take, unitCost)
  PROVE  AveragesWithin'
<1> DEFINE arrived == Received(level[s], q, unitCost)
           new == WithQuantity(arrived, arrived.quantity - take)
<1>1. level' = [level EXCEPT ![s] = new] /\ paid' = [paid EXCEPT ![s] = PaidAfter(s, unitCost)]
  BY DEF ArriveForSpecialOrder, Change
<1>2. Within(arrived.averageCost, PaidAfter(s, unitCost)) /\ arrived \in Level
  <2>1. Sound(level[s]) /\ level[s] \in Level /\ q \in Nat \ {0} /\ unitCost \in Nat
    BY ShelfFacts, RequestFacts DEF Sound
  <2>2. arrived \in Level
    <3>1. Sound(arrived)
      BY <2>1, ReceivedSound
    <3> QED BY <3>1 DEF Sound
  <2>3. arrived.averageCost = AverageCostAfterReceipt(level[s].quantity, level[s].averageCost, q, unitCost)
    BY <2>1, ReceivedFields
  <2>4. Within(AverageCostAfterReceipt(level[s].quantity, level[s].averageCost, q, unitCost), PaidAfter(s, unitCost))
    BY <2>1, ArrivalWithin
  <2> QED BY <2>2, <2>3, <2>4
<1> HIDE DEF arrived
<1>3. new.averageCost = arrived.averageCost
  BY <1>2, WriteFields
<1> HIDE DEF new
<1> QED BY <1>1, <1>2, <1>3, OneShelfWithin

\* Repaired copies come in at their share of the damaged value.
LEMMA RepairWithin ==
  ASSUME IInv, AveragesWithin, NEW c \in Clients, NEW s \in Shelves, NEW q \in Quantities, NEW given,
         RepairDamaged(c, s, q, given)
  PROVE  AveragesWithin'
<1> DEFINE unitCost == DivRound(DamagedShare(level[s].damaged, level[s].damagedValue, q), q)
           taken == TakeDamaged(level[s], q)
           new == Received(taken, q, unitCost)
<1>1. /\ q <= level[s].damaged
      /\ level' = [level EXCEPT ![s] = new] /\ paid' = [paid EXCEPT ![s] = PaidAfter(s, unitCost)]
  BY DEF RepairDamaged, Change
<1>2. unitCost \in Nat /\ q \in Nat \ {0}
  BY <1>1, RepairFollows, RequestFacts
<1> HIDE DEF unitCost
<1>3. taken \in Level /\ taken.quantity = level[s].quantity /\ taken.averageCost = level[s].averageCost
  BY <1>1, <1>2, ShelfFacts, WriteFields, TakeDamagedSound DEF Sound
<1> HIDE DEF taken
<1>4. Within(new.averageCost, PaidAfter(s, unitCost))
  BY <1>2, <1>3, ReceivedFields, ArrivalWithin
<1> HIDE DEF new
<1> QED BY <1>1, <1>4, OneShelfWithin

\* Copies moved to another shelf take the average they had along.
LEMMA TransferWithin ==
  ASSUME IInv, AveragesWithin, NEW c \in Clients, NEW from \in Shelves, NEW to \in Shelves,
         NEW q \in Quantities, TransferStock(c, from, to, q)
  PROVE  AveragesWithin'
<1> DEFINE less == WithQuantity(level[from], level[from].quantity - q)
           more == Received(level[to], q, level[from].averageCost)
           costs == PaidAfter(to, level[from].averageCost)
<1>1. /\ from # to
      /\ level' = [level EXCEPT ![from] = less, ![to] = more]
      /\ paid' = [paid EXCEPT ![to] = costs]
  BY DEF TransferStock, MoveBetween, IInv, ShelvesTyped
<1>2. less.averageCost = level[from].averageCost
  BY ShelfFacts, WriteFields
<1>3. Within(more.averageCost, costs)
  BY ShelfFacts, RequestFacts, ReceivedFields, ArrivalWithin
<1> HIDE DEF less, more, costs
<1>4. /\ level'[from] = less /\ level'[to] = more
      /\ \A s \in Shelves \ {from, to} : level'[s] = level[s]
      /\ paid'[to] = costs /\ \A s \in Shelves \ {to} : paid'[s] = paid[s]
  BY <1>1 DEF IInv, ShelvesTyped
<1> QED BY <1>2, <1>3, <1>4 DEF AveragesWithin

LEMMA RevalueWithin ==
  ASSUME IInv, AveragesWithin, NEW c \in Clients, NEW s \in Shelves, NEW cost \in Costs, Revalue(c, s, cost)
  PROVE  AveragesWithin'
<1> DEFINE new == SetAverageCost(level[s], cost)
<1>1. level' = [level EXCEPT ![s] = new] /\ paid' = [paid EXCEPT ![s] = {cost}]
  BY DEF Revalue, Change
<1>2. Within(new.averageCost, {cost})
  BY ShelfFacts, RequestFacts, WriteFields, OneCost
<1> HIDE DEF new
<1> QED BY <1>1, <1>2, OneShelfWithin

\* Copies that go, or are found, or found damaged, leave the average as it is.
LEMMA LeavingWithin ==
  ASSUME IInv, AveragesWithin, NEW s \in Shelves, NEW x, NEW delta, NEW alerts,
         Change(s, WithQuantity(level[s], x), delta, alerts), UNCHANGED paid
  PROVE  AveragesWithin'
<1> DEFINE new == WithQuantity(level[s], x)
<1>1. new.averageCost = level[s].averageCost /\ level' = [level EXCEPT ![s] = new]
  BY ShelfFacts, WriteFields DEF Change
<1> HIDE DEF new
<1> QED BY <1>1, SameAverageWithin

LEMMA TakingWithin ==
  ASSUME IInv, AveragesWithin, NEW s \in Shelves, NEW q, NEW delta, NEW alerts,
         Change(s, TakeDamaged(level[s], q), delta, alerts), UNCHANGED paid
  PROVE  AveragesWithin'
<1> DEFINE new == TakeDamaged(level[s], q)
<1>1. new.averageCost = level[s].averageCost /\ level' = [level EXCEPT ![s] = new]
  BY ShelfFacts, WriteFields DEF Change
<1> HIDE DEF new
<1> QED BY <1>1, SameAverageWithin

LEMMA SettingAsideWithin ==
  ASSUME IInv, AveragesWithin, NEW s \in Shelves, NEW l \in Level, l.averageCost = level[s].averageCost,
         NEW q, NEW value, NEW delta, NEW alerts, Change(s, AddDamaged(l, q, value), delta, alerts), UNCHANGED paid
  PROVE  AveragesWithin'
<1> DEFINE new == AddDamaged(l, q, value)
<1>1. new.averageCost = level[s].averageCost /\ level' = [level EXCEPT ![s] = new]
  BY WriteFields DEF Change
<1> HIDE DEF new
<1> QED BY <1>1, SameAverageWithin

LEMMA AdjustWithin ==
  ASSUME IInv, AveragesWithin, NEW c \in Clients, NEW s \in Shelves, NEW d \in Deltas, NEW reason,
         AdjustStock(c, s, d, reason)
  PROVE  AveragesWithin'
<1> DEFINE moved == WithQuantity(level[s], level[s].quantity + d)
<1>1. UNCHANGED paid
  BY DEF AdjustStock
<1>2. CASE reason # "damage"
  BY <1>1, <1>2, LeavingWithin DEF AdjustStock
<1>3. CASE reason = "damage"
  <2>1. moved \in Level /\ moved.averageCost = level[s].averageCost
    <3>1. level[s].quantity + d \in Int
      BY ShelfFacts, RequestFacts
    <3> QED BY <3>1, ShelfFacts, WriteFields, WithQuantitySound DEF Sound
  <2>2. Change(s, AddDamaged(moved, -d, RoundToCent(level[s].averageCost * (-d))), d,
               Alerts(s, level[s].quantity, AddDamaged(moved, -d, RoundToCent(level[s].averageCost * (-d)))))
    BY <1>3 DEF AdjustStock
  <2> HIDE DEF moved
  <2> QED BY <1>1, <2>1, <2>2, SettingAsideWithin
<1> QED BY <1>2, <1>3

LEMMA NextWithin == IInv /\ AveragesWithin /\ [Next]_vars => AveragesWithin'
<1> SUFFICES ASSUME IInv, AveragesWithin, [Next]_vars PROVE AveragesWithin'
  OBVIOUS
<1>1. ASSUME NEW s \in Shelves, NEW q \in Quantities, NEW cost \in Costs, NEW take \in Quantities, NEW zero,
             \/ ReceiveStock(s, q, cost, zero) \/ ReceiveDamaged(s, q, cost)
             \/ ArriveForSpecialOrder(s, q, take, cost)
      PROVE  AveragesWithin'
  <2>1. CASE ReceiveDamaged(s, q, cost)
    BY <2>1, ShelfFacts, SettingAsideWithin DEF ReceiveDamaged
  <2> QED BY <1>1, <2>1, ReceivingWithin, SpecialOrderWithin
<1>2. ASSUME NEW s \in Shelves, NEW q \in Quantities,
             NEW allowed,
             \/ IssueDamaged(s, q) \/ Issue(s, q, allowed)
             \/ TakeOutAtCost(s, q) \/ ReturnDamagedToSupplier(s, q)
      PROVE  AveragesWithin'
  BY <1>2, LeavingWithin, TakingWithin DEF IssueDamaged, Issue, TakeOutAtCost, ReturnDamagedToSupplier
<1>3. CASE Documents
  BY <1>1, <1>2, <1>3 DEF Documents
<1>4. CASE UNCHANGED <<level, paid>>
  BY <1>4 DEF AveragesWithin
<1>5. CASE Forms
  <2>1. PICK c \in Clients, s \in Shelves :
          \/ Read(c, s)
          \/ ReadSetting(c, s)
          \/ \E q \in Quantities : IssueStock(c, s, q)
          \/ \E d \in Deltas, reason \in {"damage", "loss", "correction"} : AdjustStock(c, s, d, reason)
          \/ \E to \in Shelves, q \in Quantities : TransferStock(c, s, to, q)
          \/ \E q \in Quantities, cost \in Costs : StockIn(c, s, q, cost)
          \/ \E q \in Quantities : StockOut(c, s, q)
          \/ \E q \in Quantities, given \in BOOLEAN : WriteOffDamaged(c, s, q, given)
          \/ \E q \in Quantities, given \in BOOLEAN : RepairDamaged(c, s, q, given)
          \/ \E cost \in Costs : Revalue(c, s, cost)
    BY <1>5 DEF Forms
  <2>2. CASE Read(c, s) \/ ReadSetting(c, s)
    BY <1>4, <2>2 DEF Read, ReadSetting
  <2>3. CASE \E q \in Quantities : StockOut(c, s, q) \/ IssueStock(c, s, q)
    BY <1>2, <2>3 DEF StockOut, IssueStock
  <2>4. CASE \E q \in Quantities, given \in BOOLEAN : WriteOffDamaged(c, s, q, given)
    BY <2>4, TakingWithin DEF WriteOffDamaged
  <2>5. CASE \E q \in Quantities, cost \in Costs : StockIn(c, s, q, cost)
    BY <2>5, ReceivingWithin DEF StockIn
  <2> QED BY <2>1, <2>2, <2>3, <2>4, <2>5, AdjustWithin, TransferWithin, RepairWithin, RevalueWithin
<1>6. CASE \E s \in Shelves, d \in Deltas : PostCountDifference(s, d)
  BY <1>6, LeavingWithin DEF PostCountDifference
<1>7. CASE \E s \in Shelves, rp \in ReorderPoints : SetReorderPoint(s, rp)
  <2>1. PICK s \in Shelves, rp \in ReorderPoints : SetReorderPoint(s, rp)
    BY <1>7
  <2> DEFINE new == [level[s] EXCEPT !.reorderPoint = rp]
  <2>2. level' = [level EXCEPT ![s] = new] /\ UNCHANGED paid
    BY <2>1 DEF SetReorderPoint
  <2>3. new.averageCost = level[s].averageCost
    BY ShelfFacts DEF Level
  <2> HIDE DEF new
  <2> QED BY <2>2, <2>3, SameAverageWithin
<1>8. CASE \E b \in Branches : ToggleNegative(b)
  BY <1>4, <1>8 DEF ToggleNegative
<1>9. CASE \E c \in Clients : RollBack(c)
  BY <1>4, <1>9 DEF RollBack
<1>10. CASE UNCHANGED vars
  BY <1>4, <1>10 DEF vars
<1> QED BY <1>3, <1>5, <1>6, <1>7, <1>8, <1>9, <1>10 DEF Next

LEMMA InitWithin == Init => AveragesWithin
<1> SUFFICES ASSUME Init, NEW s \in Shelves PROVE Within(level[s].averageCost, paid[s])
  BY DEF AveragesWithin
<1>1. level[s].averageCost = 0 /\ paid[s] = {0}
  BY DEF Init, EmptyLevel
<1> QED BY <1>1, OneCost

\* No use case leaves an average outside what was paid for the copies on hand: neither a
\* receipt on a shelf sold below zero, nor a repair, nor a transfer, however it was rounded.
THEOREM AveragesStayWithinPaid == Spec => []AverageWithinPaid
<1>1. ASSUME IInv, AveragesWithin PROVE AverageWithinPaid
  <2> SUFFICES ASSUME NEW s \in Shelves
               PROVE  Min(paid[s]) <= level[s].averageCost /\ level[s].averageCost <= Max(paid[s])
    BY DEF AverageWithinPaid
  <2>1. paid[s] \in SUBSET Nat /\ IsFiniteSet(paid[s])
    BY <1>1 DEF AveragesWithin, Within
  <2>2. PICK lo \in paid[s], hi \in paid[s] : lo <= level[s].averageCost /\ level[s].averageCost <= hi
    BY <1>1 DEF AveragesWithin, Within
  <2>3. /\ Min(paid[s]) \in Nat /\ Max(paid[s]) \in Nat
        /\ Min(paid[s]) <= lo /\ Max(paid[s]) >= hi
    BY <2>1, SmallestIsThere, LargestIsThere
  <2>4. lo \in Nat /\ hi \in Nat /\ level[s].averageCost \in Nat
    BY <1>1, <2>1, ShelfFacts
  <2> QED BY <2>2, <2>3, <2>4
<1>2. QED
  BY <1>1, InitWithin, NextWithin, InvariantHolds, PTL DEF Spec

-----------------------------------------------------------------------------
(* Stock below zero, and alerts.                                           *)

AlertsFor(s, alerts) == {a.alert : a \in {b \in alerts : b.shelf = s}}

Permitted(s) ==
  level'[s].quantity < level[s].quantity /\ level'[s].quantity < 0 =>
    HasLeave(s) /\ level'[s].damaged = level[s].damaged

Told(s) ==
  level'[s].quantity # level[s].quantity =>
    AlertsFor(s, raised') = StockAlert(level[s].quantity, level'[s].quantity, level[s].reorderPoint)

RulesFollowed == \A s \in Shelves : Permitted(s) /\ Told(s)

\* The alerts of a transaction, read back shelf by shelf.
LEMMA AlertsOfShelf ==
  ASSUME NEW s, NEW alerts, NEW A, A = [shelf : {s}, alert : alerts]
  PROVE  AlertsFor(s, A) = alerts
<1>1. ASSUME NEW x \in alerts PROVE \E a \in {b \in A : b.shelf = s} : a.alert = x
  <2>1. [shelf |-> s, alert |-> x] \in {b \in A : b.shelf = s}
    OBVIOUS
  <2> QED BY <2>1
<1>2. \A a \in {b \in A : b.shelf = s} : a.alert \in alerts
  OBVIOUS
<1> QED BY <1>1, <1>2 DEF AlertsFor

\* No threshold is crossed by copies coming in.
LEMMA RisingIsQuiet ==
  ASSUME NEW before \in Int, NEW after \in Int, NEW reorderPoint \in Int, before <= after
  PROVE  StockAlert(before, after, reorderPoint) = {}
  BY DEF StockAlert

\* A transaction that leaves the copies for sale as they are
LEMMA NothingMovedFollows ==
  ASSUME IInv, \A s \in Shelves : level'[s].quantity = level[s].quantity
  PROVE  RulesFollowed
<1> SUFFICES ASSUME NEW s \in Shelves PROVE Permitted(s) /\ Told(s)
  BY DEF RulesFollowed
<1>1. level[s].quantity \in Int /\ level'[s].quantity = level[s].quantity
  BY ShelfFacts
<1> QED BY <1>1 DEF Permitted, Told

\* One that moves those of a single shelf
LEMMA OneShelfFollows ==
  ASSUME IInv, NEW s \in Shelves, NEW new, new.quantity \in Int, level' = [level EXCEPT ![s] = new],
         raised' = [shelf : {s}, alert : StockAlert(level[s].quantity, new.quantity, level[s].reorderPoint)],
         new.quantity < level[s].quantity /\ new.quantity < 0 =>
           HasLeave(s) /\ new.damaged = level[s].damaged
  PROVE  RulesFollowed
<1>1. level'[s] = new /\ \A t \in Shelves \ {s} : level'[t] = level[t]
  BY DEF IInv, ShelvesTyped
<1>2. Permitted(s)
  BY <1>1 DEF Permitted
<1>3. Told(s)
  <2>1. AlertsFor(s, raised') = StockAlert(level[s].quantity, new.quantity, level[s].reorderPoint)
    BY AlertsOfShelf
  <2> QED BY <1>1, <2>1 DEF Told
<1>4. ASSUME NEW t \in Shelves \ {s} PROVE Permitted(t) /\ Told(t)
  <2>1. level'[t] = level[t] /\ level[t].quantity \in Int
    BY <1>1, ShelfFacts
  <2> QED BY <2>1 DEF Permitted, Told
<1> QED BY <1>2, <1>3, <1>4 DEF RulesFollowed

\* Copies counted, taken or put back on a shelf: what may leave it negative is the branch's
\* setting, as it is or as the transaction had read it.
LEMMA QuantityChangeFollows ==
  ASSUME IInv, NEW s \in Shelves, NEW x \in Int, NEW delta,
         Change(s, WithQuantity(level[s], x), delta, Alerts(s, level[s].quantity, WithQuantity(level[s], x))),
         x < level[s].quantity /\ x < 0 => HasLeave(s)
  PROVE  RulesFollowed
<1> DEFINE new == WithQuantity(level[s], x)
<1>1. /\ new.quantity = x /\ new.damaged = level[s].damaged
      /\ new.reorderPoint = level[s].reorderPoint
  <2>1. level[s] \in Level
    BY ShelfFacts
  <2> QED BY <2>1 DEF WithQuantity, Level
<1>2. level' = [level EXCEPT ![s] = new] /\ raised' = Alerts(s, level[s].quantity, new)
  BY DEF Change
<1> HIDE DEF new
<1>3. raised' = [shelf : {s}, alert : StockAlert(level[s].quantity, new.quantity, level[s].reorderPoint)]
  BY <1>1, <1>2 DEF Alerts
<1> QED BY <1>1, <1>2, <1>3, OneShelfFollows

\* Copies that come in, at whatever cost
LEMMA ArrivalObeys ==
  ASSUME IInv, NEW s \in Shelves, NEW l \in Level, l.quantity = level[s].quantity,
         l.reorderPoint = level[s].reorderPoint, NEW q \in Nat, NEW unitCost, NEW delta,
         Change(s, Received(l, q, unitCost), delta, Alerts(s, level[s].quantity, Received(l, q, unitCost)))
  PROVE  RulesFollowed
<1> DEFINE new == Received(l, q, unitCost)
<1>1. new.quantity = level[s].quantity + q /\ new.reorderPoint = level[s].reorderPoint
  BY ReceivedFields
<1>2. level' = [level EXCEPT ![s] = new] /\ raised' = Alerts(s, level[s].quantity, new)
  BY DEF Change
<1> HIDE DEF new
<1>3. raised' = [shelf : {s}, alert : StockAlert(level[s].quantity, new.quantity, level[s].reorderPoint)]
  BY <1>1, <1>2 DEF Alerts
<1>4. level[s].quantity \in Int
  BY ShelfFacts
<1>5. new.quantity \in Int /\ ~(new.quantity < level[s].quantity)
  BY <1>1, <1>4
<1> QED BY <1>2, <1>3, <1>5, OneShelfFollows

\* Damaged copies that come, go or are revalued, and costs: no copy for sale moves.
LEMMA SameQuantityFollows ==
  ASSUME IInv, NEW s \in Shelves, NEW new, new.quantity = level[s].quantity, level' = [level EXCEPT ![s] = new]
  PROVE  RulesFollowed
<1>1. \A t \in Shelves : level'[t].quantity = level[t].quantity
  BY DEF IInv, ShelvesTyped
<1> QED BY <1>1, NothingMovedFollows

LEMMA ReceiveDamagedObeys ==
  ASSUME IInv, NEW s \in Shelves, NEW q, NEW cost, ReceiveDamaged(s, q, cost)
  PROVE  RulesFollowed
<1> DEFINE new == AddDamaged(level[s], q, RoundToCent(cost * q))
<1>1. level' = [level EXCEPT ![s] = new]
  BY DEF ReceiveDamaged, Change
<1>2. new.quantity = level[s].quantity
  BY ShelfFacts DEF AddDamaged, Level
<1> HIDE DEF new
<1> QED BY <1>1, <1>2, SameQuantityFollows

LEMMA TakingObeys ==
  ASSUME IInv, NEW s \in Shelves, NEW q, NEW delta, NEW alerts, Change(s, TakeDamaged(level[s], q), delta, alerts)
  PROVE  RulesFollowed
<1> DEFINE new == TakeDamaged(level[s], q)
<1>1. level' = [level EXCEPT ![s] = new]
  BY DEF Change
<1>2. new.quantity = level[s].quantity
  BY ShelfFacts DEF TakeDamaged, Level
<1> HIDE DEF new
<1> QED BY <1>1, <1>2, SameQuantityFollows

LEMMA RevalueObeys ==
  ASSUME IInv, NEW c \in Clients, NEW s \in Shelves, NEW cost, Revalue(c, s, cost)
  PROVE  RulesFollowed
<1> DEFINE new == SetAverageCost(level[s], cost)
<1>1. level' = [level EXCEPT ![s] = new]
  BY DEF Revalue, Change
<1>2. new.quantity = level[s].quantity
  BY ShelfFacts DEF SetAverageCost, Level
<1> HIDE DEF new
<1> QED BY <1>1, <1>2, SameQuantityFollows

LEMMA ReceiveStockObeys ==
  ASSUME IInv, NEW s \in Shelves, NEW q \in Quantities, NEW cost \in Costs, NEW zero, ReceiveStock(s, q, cost, zero)
  PROVE  RulesFollowed
<1>1. Change(s, Received(level[s], q, cost), q, Alerts(s, level[s].quantity, Received(level[s], q, cost)))
  BY DEF ReceiveStock
<1>2. level[s] \in Level /\ q \in Nat
  BY ShelfFacts, RequestFacts
<1> QED BY <1>1, <1>2, ArrivalObeys

LEMMA RepairObeys ==
  ASSUME IInv, NEW c \in Clients, NEW s \in Shelves, NEW q \in Quantities, NEW given, RepairDamaged(c, s, q, given)
  PROVE  RulesFollowed
<1> DEFINE unitCost == DivRound(DamagedShare(level[s].damaged, level[s].damagedValue, q), q)
           taken == TakeDamaged(level[s], q)
<1>1. /\ q <= level[s].damaged
      /\ Change(s, Received(taken, q, unitCost), q, Alerts(s, level[s].quantity, Received(taken, q, unitCost)))
  BY DEF RepairDamaged
<1>2. Sound(level[s]) /\ level[s] \in Level /\ q \in Nat \ {0}
  BY ShelfFacts, RequestFacts
<1>3. Sound(taken)
  BY <1>1, <1>2, TakeDamagedSound
<1>4. taken \in Level /\ taken.quantity = level[s].quantity /\ taken.reorderPoint = level[s].reorderPoint
  BY <1>2, <1>3 DEF Sound, TakeDamaged, Level
<1> HIDE DEF taken, unitCost
<1> QED BY <1>1, <1>2, <1>4, ArrivalObeys

\* The copies a special order waits for leave no fewer than there were.
LEMMA SpecialOrderObeys ==
  ASSUME IInv, NEW s \in Shelves, NEW q \in Quantities, NEW take \in Quantities, NEW cost \in Costs,
         ArriveForSpecialOrder(s, q, take, cost)
  PROVE  RulesFollowed
<1> DEFINE arrived == Received(level[s], q, cost)
           new == WithQuantity(arrived, arrived.quantity - take)
<1>1. take <= q /\ level' = [level EXCEPT ![s] = new] /\ raised' = Alerts(s, level[s].quantity, arrived)
  BY DEF ArriveForSpecialOrder, Change
<1>2. Sound(level[s]) /\ level[s] \in Level /\ q \in Nat \ {0} /\ take \in Nat \ {0} /\ cost \in Nat
  BY ShelfFacts, RequestFacts
<1>3. Sound(arrived)
  BY <1>2, ReceivedSound
<1>4. arrived \in Level /\ arrived.quantity = level[s].quantity + q /\ arrived.reorderPoint = level[s].reorderPoint
  BY <1>2, <1>3, ReceivedFields DEF Sound
<1> HIDE DEF arrived
<1>5. new.quantity = level[s].quantity + q - take
  <2> DEFINE left == arrived.quantity - take
  <2> HIDE DEF left
  <2>1. WithQuantity(arrived, left).quantity = left
    BY <1>4 DEF WithQuantity, Level
  <2>2. left = level[s].quantity + q - take
    BY <1>2, <1>4 DEF left, Level
  <2> QED BY <2>1, <2>2 DEF left
<1> HIDE DEF new
<1>6. level[s].quantity \in Int /\ level[s].reorderPoint \in Int
  BY <1>2 DEF Level
<1>7. new.quantity \in Int /\ level[s].quantity <= new.quantity /\ level[s].quantity <= arrived.quantity
      /\ arrived.quantity \in Int /\ ~(new.quantity < level[s].quantity)
  BY <1>1, <1>2, <1>4, <1>5, <1>6
<1>8. StockAlert(level[s].quantity, arrived.quantity, arrived.reorderPoint) = {}
  BY <1>4, <1>6, <1>7, RisingIsQuiet
<1>9. StockAlert(level[s].quantity, new.quantity, level[s].reorderPoint) = {}
  BY <1>6, <1>7, RisingIsQuiet
<1>10. raised' = [shelf : {s}, alert : StockAlert(level[s].quantity, new.quantity, level[s].reorderPoint)]
  BY <1>1, <1>8, <1>9 DEF Alerts
<1> QED BY <1>1, <1>6, <1>7, <1>10, OneShelfFollows

\* Copies sold, sent away or counted
LEMMA IssueObeys ==
  ASSUME IInv, NEW s \in Shelves, NEW q \in Quantities, NEW allowed, allowed => HasLeave(s),
         Issue(s, q, allowed) \/ TakeOutAtCost(s, q)
  PROVE  RulesFollowed
<1> DEFINE x == level[s].quantity - q
           new == WithQuantity(level[s], x)
<1>1. /\ Change(s, new, -q, Alerts(s, level[s].quantity, new))
      /\ allowed \/ Available(level[s].quantity) >= q
  BY DEF Issue, TakeOutAtCost, CanIssue
<1>2. x \in Int /\ (x < 0 => HasLeave(s))
  <2>1. level[s].quantity \in Int /\ q \in Nat \ {0}
    BY ShelfFacts, RequestFacts
  <2> QED BY <1>1, <2>1 DEF Available
<1> HIDE DEF x
<1> QED BY <1>1, <1>2, QuantityChangeFollows

\* A transaction that ends with the answer "yes" it had read has leave.
LEMMA ReadingGivesLeave ==
  ASSUME NEW c \in Clients, NEW s \in Shelves, HasRead(c, s, TRUE), AskedTyped,
         asked' = [asked EXCEPT ![c] = {}]
  PROVE  HasLeave(s)
<1>1. asked'[c] = {}
  BY DEF AskedTyped
<1> QED BY <1>1 DEF HasLeave, OnItsReading

LEMMA IssueStockObeys ==
  ASSUME IInv, AskedTyped, NEW c \in Clients, NEW s \in Shelves, NEW q \in Quantities, IssueStock(c, s, q)
  PROVE  RulesFollowed
<1>1. PICK allowed \in BOOLEAN : HasRead(c, s, allowed) /\ Issue(s, q, allowed)
  BY DEF IssueStock
<1>2. allowed => HasLeave(s)
  <2> SUFFICES ASSUME allowed PROVE HasLeave(s)
    OBVIOUS
  <2>1. HasRead(c, s, TRUE)
    BY <1>1
  <2> QED BY <2>1, ReadingGivesLeave DEF IssueStock
<1> QED BY <1>1, <1>2, IssueObeys

LEMMA PostCountObeys ==
  ASSUME IInv, NEW s \in Shelves, NEW d \in Deltas, PostCountDifference(s, d)
  PROVE  RulesFollowed
<1> DEFINE x == level[s].quantity + d
           new == WithQuantity(level[s], x)
<1>1. /\ Change(s, new, d, Alerts(s, level[s].quantity, new))
      /\ QuantityAllowed(new.quantity, NegativeAllowedAt(s))
  BY DEF PostCountDifference
<1>2. level[s] \in Level /\ x \in Int
  BY ShelfFacts, RequestFacts
<1>3. new.quantity = x
  BY <1>2 DEF WithQuantity, Level
<1>4. x < 0 => HasLeave(s)
  BY <1>1, <1>2, <1>3 DEF QuantityAllowed, HasLeave
<1> HIDE DEF x
<1> QED BY <1>1, <1>2, <1>4, QuantityChangeFollows

LEMMA AdjustStockObeys ==
  ASSUME IInv, AskedTyped, NEW c \in Clients, NEW s \in Shelves, NEW d \in Deltas, NEW reason, AdjustStock(c, s, d, reason)
  PROVE  RulesFollowed
<1> DEFINE x == level[s].quantity + d
           moved == WithQuantity(level[s], x)
<1>1. level[s] \in Level /\ x \in Int
  BY ShelfFacts, RequestFacts
<1>2. moved \in Level /\ moved.quantity = x /\ moved.reorderPoint = level[s].reorderPoint
  <2>1. Sound(moved)
    BY <1>1, ShelfFacts, WithQuantitySound
  <2> QED BY <1>1, <2>1 DEF Sound, WithQuantity, Level
<1>3. CASE reason # "damage"
  <2>1. /\ Change(s, moved, d, Alerts(s, level[s].quantity, moved))
        /\ QuantityAllowed(moved.quantity, MayGoNegative(c, s, reason))
    BY <1>3 DEF AdjustStock
  <2>2. x < 0 => HasLeave(s)
    <3>1. ASSUME x < 0 PROVE HasRead(c, s, TRUE)
      <4>1. ~(moved.quantity >= 0)
        BY <1>1, <1>2, <3>1
      <4>2. MayGoNegative(c, s, reason)
        BY <2>1, <4>1, Zenon DEF QuantityAllowed
      <4> QED BY <4>2, Zenon DEF MayGoNegative
    <3>2. asked' = [asked EXCEPT ![c] = {}]
      BY <1>3 DEF AdjustStock
    <3> QED BY <3>1, <3>2, ReadingGivesLeave
  <2> HIDE DEF x
  <2> QED BY <1>1, <2>1, <2>2, QuantityChangeFollows
<1>4. CASE reason = "damage"
  <2> DEFINE new == AddDamaged(moved, -d, RoundToCent(level[s].averageCost * (-d)))
  <2>1. /\ level' = [level EXCEPT ![s] = new] /\ raised' = Alerts(s, level[s].quantity, new)
        /\ QuantityAllowed(new.quantity, MayGoNegative(c, s, reason))
    BY <1>4 DEF AdjustStock, Change
  <2> HIDE DEF moved
  <2>2. new.quantity = x /\ new.reorderPoint = level[s].reorderPoint
    BY <1>2 DEF AddDamaged, Level
  <2> HIDE DEF new
  <2>3. new.quantity \in Int /\ ~(new.quantity < 0)
    BY <1>1, <1>4, <2>1, <2>2 DEF QuantityAllowed, MayGoNegative
  <2>4. raised' = [shelf : {s}, alert : StockAlert(level[s].quantity, new.quantity, level[s].reorderPoint)]
    BY <2>1, <2>2 DEF Alerts
  <2> QED BY <2>1, <2>3, <2>4, OneShelfFollows
<1> QED BY <1>3, <1>4

\* What a transfer leaves at its two ends.
LEMMA TransferEnds ==
  ASSUME IInv, NEW c \in Clients, NEW from \in Shelves, NEW to \in Shelves,
         NEW q \in Quantities, TransferStock(c, from, to, q)
  PROVE  /\ from # to /\ q \in Nat /\ level[from].quantity \in Int /\ level[to].quantity \in Int
         /\ Book[from] = Book[to] /\ Branch[from] = Branch[to]
         /\ level'[from].quantity = level[from].quantity - q
         /\ level'[to].quantity = level[to].quantity + q
         /\ level'[from].damaged = level[from].damaged
         /\ level'[to].damaged = level[to].damaged
         /\ level'[from].reorderPoint = level[from].reorderPoint
         /\ level'[from].quantity >= 0
         /\ \A s \in Shelves \ {from, to} : level'[s] = level[s]
<1> DEFINE less == WithQuantity(level[from], level[from].quantity - q)
           more == Received(level[to], q, level[from].averageCost)
<1>1. /\ from # to /\ Book[from] = Book[to] /\ Branch[from] = Branch[to]
      /\ Available(level[from].quantity) >= q
      /\ level' = [level EXCEPT ![from] = less, ![to] = more]
  BY DEF TransferStock, MoveBetween, IInv, ShelvesTyped
<1>2. /\ level[from] \in Level /\ level[to] \in Level /\ q \in Nat \ {0}
      /\ level[from].quantity \in Int /\ level[to].quantity \in Int
  BY ShelfFacts, RequestFacts
<1>3. /\ less.quantity = level[from].quantity - q /\ less.damaged = level[from].damaged
      /\ less.reorderPoint = level[from].reorderPoint
  BY <1>2 DEF WithQuantity, Level
<1>4. more.quantity = level[to].quantity + q /\ more.damaged = level[to].damaged
  BY <1>2, ReceivedFields
<1> HIDE DEF less, more
<1>5. /\ level'[from] = less /\ level'[to] = more
      /\ \A s \in Shelves \ {from, to} : level'[s] = level[s]
  BY <1>1 DEF IInv, ShelvesTyped
<1>6. level[from].quantity - q >= 0
  BY <1>1, <1>2 DEF Available
<1> QED BY <1>1, <1>2, <1>3, <1>4, <1>5, <1>6

LEMMA TransferObeys ==
  ASSUME IInv, NEW c \in Clients, NEW from \in Shelves, NEW to \in Shelves,
         NEW q \in Quantities, TransferStock(c, from, to, q)
  PROVE  RulesFollowed
<1>1. /\ from # to /\ q \in Nat /\ level[from].quantity \in Int /\ level[to].quantity \in Int
      /\ level'[from].quantity = level[from].quantity - q
      /\ level'[to].quantity = level[to].quantity + q
      /\ level'[from].reorderPoint = level[from].reorderPoint
      /\ level'[from].quantity >= 0
      /\ \A s \in Shelves \ {from, to} : level'[s] = level[s]
  BY TransferEnds
<1>2. raised' = Alerts(from, level[from].quantity, level'[from])
  BY DEF TransferStock
<1>3. Permitted(from) /\ Told(from)
  <2>1. AlertsFor(from, raised') = StockAlert(level[from].quantity, level'[from].quantity, level[from].reorderPoint)
    <3>1. raised' = [shelf : {from},
                     alert : StockAlert(level[from].quantity, level'[from].quantity, level[from].reorderPoint)]
      BY <1>1, <1>2 DEF Alerts
    <3> QED BY <3>1, AlertsOfShelf
  <2> QED BY <1>1, <2>1 DEF Permitted, Told
<1>4. Permitted(to) /\ Told(to)
  <2>1. AlertsFor(to, raised') = {}
    BY <1>1, <1>2 DEF Alerts, AlertsFor
  <2>2. level[to].reorderPoint \in Int
    BY ShelfFacts DEF Level
  <2>3. level'[to].quantity \in Int /\ level[to].quantity <= level'[to].quantity
    BY <1>1
  <2>4. StockAlert(level[to].quantity, level'[to].quantity, level[to].reorderPoint) = {}
    BY <1>1, <2>2, <2>3, RisingIsQuiet
  <2> QED BY <1>1, <2>1, <2>3, <2>4 DEF Permitted, Told
<1>5. ASSUME NEW s \in Shelves \ {from, to} PROVE Permitted(s) /\ Told(s)
  <2>1. level'[s] = level[s] /\ level[s].quantity \in Int
    BY <1>1, ShelfFacts
  <2> QED BY <2>1 DEF Permitted, Told
<1> QED BY <1>3, <1>4, <1>5 DEF RulesFollowed

LEMMA NextFollowsRules == IInv /\ AskedTyped /\ [Next]_vars => RulesFollowed
<1> SUFFICES ASSUME IInv, AskedTyped, [Next]_vars PROVE RulesFollowed
  OBVIOUS
<1>1. CASE Documents
  <2>1. PICK s \in Shelves, q \in Quantities :
          \/ \E cost \in Costs, zero \in BOOLEAN : ReceiveStock(s, q, cost, zero)
          \/ \E cost \in Costs : ReceiveDamaged(s, q, cost)
          \/ IssueDamaged(s, q)
          \/ \E take \in Quantities, cost \in Costs : ArriveForSpecialOrder(s, q, take, cost)
          \/ TakeOutAtCost(s, q)
          \/ ReturnDamagedToSupplier(s, q)
    BY <1>1 DEF Documents
  <2>2. CASE \E cost \in Costs, zero \in BOOLEAN : ReceiveStock(s, q, cost, zero)
    BY <2>2, ReceiveStockObeys
  <2>3. CASE \E cost \in Costs : ReceiveDamaged(s, q, cost)
    BY <2>3, ReceiveDamagedObeys
  <2>4. CASE IssueDamaged(s, q) \/ ReturnDamagedToSupplier(s, q)
    BY <2>4, TakingObeys DEF IssueDamaged, ReturnDamagedToSupplier
  <2>5. CASE TakeOutAtCost(s, q)
    BY <2>5, IssueObeys
  <2>6. CASE \E take \in Quantities, cost \in Costs : ArriveForSpecialOrder(s, q, take, cost)
    BY <2>6, SpecialOrderObeys
  <2> QED BY <2>1, <2>2, <2>3, <2>4, <2>5, <2>6
<1>2. CASE UNCHANGED level
  BY <1>2, NothingMovedFollows
<1>3. CASE Forms
  <2>1. PICK c \in Clients, s \in Shelves :
          \/ Read(c, s)
          \/ ReadSetting(c, s)
          \/ \E q \in Quantities : IssueStock(c, s, q)
          \/ \E d \in Deltas, reason \in {"damage", "loss", "correction"} : AdjustStock(c, s, d, reason)
          \/ \E to \in Shelves, q \in Quantities : TransferStock(c, s, to, q)
          \/ \E q \in Quantities, cost \in Costs : StockIn(c, s, q, cost)
          \/ \E q \in Quantities : StockOut(c, s, q)
          \/ \E q \in Quantities, given \in BOOLEAN : WriteOffDamaged(c, s, q, given)
          \/ \E q \in Quantities, given \in BOOLEAN : RepairDamaged(c, s, q, given)
          \/ \E cost \in Costs : Revalue(c, s, cost)
    BY <1>3 DEF Forms
  <2>2. CASE Read(c, s) \/ ReadSetting(c, s)
    BY <1>2, <2>2 DEF Read, ReadSetting
  <2>3. CASE \E d \in Deltas, reason \in {"damage", "loss", "correction"} : AdjustStock(c, s, d, reason)
    BY <2>3, AdjustStockObeys
  <2>4. CASE \E to \in Shelves, q \in Quantities : TransferStock(c, s, to, q)
    BY <2>4, TransferObeys
  <2>5. CASE \E q \in Quantities, cost \in Costs : StockIn(c, s, q, cost)
    BY <2>5, ReceiveStockObeys DEF StockIn
  <2>6. CASE \E q \in Quantities : StockOut(c, s, q)
    BY <2>6, IssueObeys DEF StockOut, HasLeave
  <2>7. CASE \E q \in Quantities, given \in BOOLEAN : WriteOffDamaged(c, s, q, given)
    BY <2>7, TakingObeys DEF WriteOffDamaged
  <2>8. CASE \E q \in Quantities, given \in BOOLEAN : RepairDamaged(c, s, q, given)
    BY <2>8, RepairObeys
  <2>9. CASE \E cost \in Costs : Revalue(c, s, cost)
    BY <2>9, RevalueObeys
  <2>10. CASE \E q \in Quantities : IssueStock(c, s, q)
    BY <2>10, IssueStockObeys
  <2> QED BY <2>1, <2>2, <2>3, <2>4, <2>5, <2>6, <2>7, <2>8, <2>9, <2>10
<1>4. CASE \E s \in Shelves, d \in Deltas : PostCountDifference(s, d)
  BY <1>4, PostCountObeys
<1>5. CASE \E s \in Shelves, rp \in ReorderPoints : SetReorderPoint(s, rp)
  <2>1. PICK s \in Shelves, rp \in ReorderPoints : SetReorderPoint(s, rp)
    BY <1>5
  <2> DEFINE new == [level[s] EXCEPT !.reorderPoint = rp]
  <2>2. level' = [level EXCEPT ![s] = new]
    BY <2>1 DEF SetReorderPoint
  <2>3. new.quantity = level[s].quantity
    BY ShelfFacts DEF Level
  <2> HIDE DEF new
  <2> QED BY <2>2, <2>3, SameQuantityFollows
<1>6. CASE \E b \in Branches : ToggleNegative(b)
  BY <1>2, <1>6 DEF ToggleNegative
<1>7. CASE \E c \in Clients : RollBack(c)
  BY <1>2, <1>7 DEF RollBack
<1>8. CASE UNCHANGED vars
  BY <1>2, <1>8 DEF vars
<1> QED BY <1>1, <1>3, <1>4, <1>5, <1>6, <1>7, <1>8 DEF Next

\* Nothing is sold, sent, moved or set aside that is not there unless the branch allows it or
\* allowed it when the transaction asked; and every threshold a use case crosses is told,
\* once: for every shelf and every use case.
THEOREM RulesAreFollowed == Spec => ChangesFollowTheRules
<1> DEFINE Kept(s) ==
             /\ HasLeave(s)
             /\ level'[s].damaged = level[s].damaged
             /\ \A c \in Clients, q \in Quantities, to \in Shelves :
                  ~TransferStock(c, s, to, q) /\ ~TakeOutAtCost(s, q)
           Lowered == \A s \in Shelves :
             level'[s].quantity < level[s].quantity /\ level'[s].quantity < 0 => Kept(s)
           Alerted == \A s \in Shelves : level'[s].quantity # level[s].quantity =>
             {a.alert : a \in {b \in raised' : b.shelf = s}} =
               StockAlert(level[s].quantity, level'[s].quantity, level[s].reorderPoint)
<1>1. ASSUME IInv, NEW s \in Shelves, NEW c \in Clients, NEW q \in Quantities, NEW to \in Shelves,
             TransferStock(c, s, to, q)
      PROVE  level'[s].quantity \in Int /\ ~(level'[s].quantity < 0)
  BY <1>1, TransferEnds
<1>2. ASSUME IInv, NEW s \in Shelves, NEW q \in Quantities, TakeOutAtCost(s, q)
      PROVE  ~(level'[s].quantity < 0)
  <2>1. level[s] \in Level /\ level[s].quantity \in Int /\ q \in Nat \ {0}
    BY <1>2, ShelfFacts, RequestFacts
  <2> DEFINE x == level[s].quantity - q
             new == WithQuantity(level[s], x)
  <2>2. level'[s] = new /\ Available(level[s].quantity) >= q
    BY <1>2 DEF TakeOutAtCost, Change, IInv, ShelvesTyped
  <2>3. new.quantity = x
    BY <2>1 DEF WithQuantity, Level
  <2>4. ~(x < 0)
    BY <2>1, <2>2 DEF Available
  <2> HIDE DEF x, new
  <2> QED BY <2>2, <2>3, <2>4
<1>3. IInv /\ AskedTyped /\ [Next]_vars => Lowered
  <2> SUFFICES ASSUME IInv, AskedTyped, [Next]_vars, NEW s \in Shelves,
                      level'[s].quantity < level[s].quantity /\ level'[s].quantity < 0
               PROVE  Kept(s)
    OBVIOUS
  <2>1. Permitted(s)
    BY NextFollowsRules DEF RulesFollowed
  <2> QED BY <1>1, <1>2, <2>1 DEF Permitted
<1>4. IInv /\ AskedTyped /\ [Next]_vars => Alerted
  BY NextFollowsRules DEF RulesFollowed, Told, AlertsFor
<1>5. Spec => NegativeOnlyByPermission
  BY <1>3, InvariantHolds, AskedStaysTyped, PTL DEF Spec, NegativeOnlyByPermission
<1>6. Spec => AlertsOnCrossing
  BY <1>4, InvariantHolds, AskedStaysTyped, PTL DEF Spec, AlertsOnCrossing
<1> QED BY <1>5, <1>6 DEF ChangesFollowTheRules

-----------------------------------------------------------------------------
(* Copies moved.                                                           *)

PerShelf(l, S) == [s \in S |-> l[s].quantity + l[s].damaged]

LEMMA CopiesSum ==
  ASSUME NEW l, NEW b, NEW k
  PROVE  LET S == {s \in Shelves : Branch[s] = b /\ Book[s] = k}
         IN Copies(l, b, k) = SumFunctionOnSet(PerShelf(l, S), S)
  BY DEF Copies, PerShelf, SumFunction

LEMMA ShelvesFinite ==
  ASSUME NEW S \in SUBSET Shelves
  PROVE  IsFiniteSet(S)
  BY InventoryAssumption, FS_Subset

\* Copies set aside as damaged, or repaired: the shelf keeps as many as it had.
LEMMA SameShelfConserves ==
  ASSUME IInv, NEW s \in Shelves, NEW new, level' = [level EXCEPT ![s] = new],
         new.quantity + new.damaged = level[s].quantity + level[s].damaged,
         NEW b, NEW k
  PROVE  Copies(level', b, k) = Copies(level, b, k)
<1> DEFINE S == {t \in Shelves : Branch[t] = b /\ Book[t] = k}
<1>1. IsFiniteSet(S)
  BY ShelvesFinite
<1>2. \A t \in S : PerShelf(level', S)[t] = PerShelf(level, S)[t]
  BY DEF IInv, ShelvesTyped, PerShelf
<1>3. SumFunctionOnSet(PerShelf(level', S), S) = SumFunctionOnSet(PerShelf(level, S), S)
  <2> HIDE DEF S
  <2> QED BY <1>1, <1>2, SumEqual
<1> QED BY <1>3, CopiesSum

LEMMA DamageConserves ==
  ASSUME IInv, NEW c \in Clients, NEW s \in Shelves, NEW d \in Deltas, AdjustStock(c, s, d, "damage"),
         NEW b, NEW k
  PROVE  Copies(level', b, k) = Copies(level, b, k)
<1> DEFINE x == level[s].quantity + d
           moved == WithQuantity(level[s], x)
           new == AddDamaged(moved, -d, RoundToCent(level[s].averageCost * (-d)))
<1>1. level' = [level EXCEPT ![s] = new]
  BY DEF AdjustStock, Change
<1>2. level[s] \in Level /\ d \in Int /\ x \in Int /\ level[s].quantity \in Int /\ level[s].damaged \in Int
  BY ShelfFacts, RequestFacts
<1>3. moved \in Level /\ moved.quantity = x /\ moved.damaged = level[s].damaged
  <2>1. Sound(moved)
    BY <1>2, ShelfFacts, WithQuantitySound
  <2> QED BY <1>2, <2>1 DEF Sound, WithQuantity, Level
<1> HIDE DEF moved
<1>4. new.quantity = x /\ new.damaged = level[s].damaged + (-d)
  BY <1>3 DEF AddDamaged, Level
<1> HIDE DEF new
<1>5. new.quantity + new.damaged = level[s].quantity + level[s].damaged
  BY <1>2, <1>4
<1> QED BY <1>1, <1>5, SameShelfConserves

LEMMA RepairConserves ==
  ASSUME IInv, NEW c \in Clients, NEW s \in Shelves, NEW q \in Quantities, NEW given,
         RepairDamaged(c, s, q, given), NEW b, NEW k
  PROVE  Copies(level', b, k) = Copies(level, b, k)
<1> DEFINE unitCost == DivRound(DamagedShare(level[s].damaged, level[s].damagedValue, q), q)
           taken == TakeDamaged(level[s], q)
           new == Received(taken, q, unitCost)
<1>1. q <= level[s].damaged /\ level' = [level EXCEPT ![s] = new]
  BY DEF RepairDamaged, Change
<1>2. Sound(level[s]) /\ level[s] \in Level /\ q \in Nat \ {0} /\ level[s].quantity \in Int /\ level[s].damaged \in Int
  BY ShelfFacts, RequestFacts
<1>3. Sound(taken)
  BY <1>1, <1>2, TakeDamagedSound
<1>4. taken \in Level /\ taken.quantity = level[s].quantity /\ taken.damaged = level[s].damaged - q
  BY <1>2, <1>3 DEF Sound, TakeDamaged, Level
<1> HIDE DEF taken, unitCost
<1>5. new.quantity = taken.quantity + q /\ new.damaged = taken.damaged
  BY <1>4, ReceivedFields
<1> HIDE DEF new
<1>6. new.quantity + new.damaged = level[s].quantity + level[s].damaged
  BY <1>2, <1>4, <1>5
<1> QED BY <1>1, <1>6, SameShelfConserves

LEMMA TransferConserves ==
  ASSUME IInv, NEW c \in Clients, NEW from \in Shelves, NEW to \in Shelves,
         NEW q \in Quantities, TransferStock(c, from, to, q), NEW b, NEW k
  PROVE  Copies(level', b, k) = Copies(level, b, k)
<1> DEFINE S == {t \in Shelves : Branch[t] = b /\ Book[t] = k}
           before == PerShelf(level, S)
           after == PerShelf(level', S)
<1>1. /\ from # to /\ q \in Nat /\ level[from].quantity \in Int /\ level[to].quantity \in Int
      /\ Book[from] = Book[to] /\ Branch[from] = Branch[to]
      /\ level'[from].quantity = level[from].quantity - q
      /\ level'[to].quantity = level[to].quantity + q
      /\ level'[from].damaged = level[from].damaged
      /\ level'[to].damaged = level[to].damaged
      /\ \A s \in Shelves \ {from, to} : level'[s] = level[s]
  BY TransferEnds
<1>2. IsFiniteSet(S)
  BY ShelvesFinite
<1>3. \A s \in S : before[s] = level[s].quantity + level[s].damaged
                /\ after[s] = level'[s].quantity + level'[s].damaged
  BY DEF PerShelf
<1>4. \A s \in Shelves : level[s].quantity \in Int /\ level[s].damaged \in Int
  BY ShelfFacts
<1>5. \A s \in S : before[s] \in Int
  BY <1>3, <1>4
<1>6. (from \in S <=> to \in S) /\ S \subseteq Shelves
  BY <1>1
<1>7. \A s \in S \ {from, to} : after[s] = before[s]
  BY <1>1, <1>3
<1>8. ASSUME from \in S, to \in S
      PROVE  after[from] = before[from] - q /\ after[to] = before[to] + q
  <2>1. level[from].damaged \in Int /\ level[to].damaged \in Int
    BY <1>4
  <2> QED BY <1>1, <1>3, <1>8, <2>1
<1> HIDE DEF S, before, after
<1>9. SumFunctionOnSet(after, S) = SumFunctionOnSet(before, S)
  <2>1. CASE from \in S /\ to \in S
    <3>1. MovedPart(before, after, S, from, to, q)
      BY <1>1, <1>5, <1>7, <1>8, <2>1 DEF MovedPart
    <3> QED BY <1>2, <3>1, SumMove
  <2>2. CASE from \notin S /\ to \notin S
    BY <1>2, <1>7, <2>2, SumEqual
  <2> QED BY <1>6, <2>1, <2>2
<1> QED BY <1>9, CopiesSum DEF S, before, after

\* Copies are made by receipts and lost by sales, never by moving them about: no transfer,
\* no damage found and no repair changes how many a branch has of a book.
THEOREM MovesConserve == Spec => MovesConserveCopies
<1> DEFINE Move(c, s) ==
             \/ \E to \in Shelves, q \in Quantities : TransferStock(c, s, to, q)
             \/ \E d \in Deltas : AdjustStock(c, s, d, "damage")
             \/ \E q \in Quantities, given \in BOOLEAN : RepairDamaged(c, s, q, given)
           Kept == \A b \in Branches, t \in Shelves : Copies(level', b, Book[t]) = Copies(level, b, Book[t])
<1>1. ASSUME IInv, NEW c \in Clients, NEW s \in Shelves, Move(c, s)
      PROVE  Kept
  <2> SUFFICES ASSUME NEW b \in Branches, NEW t \in Shelves
               PROVE  Copies(level', b, Book[t]) = Copies(level, b, Book[t])
    OBVIOUS
  <2> QED BY <1>1, TransferConserves, DamageConserves, RepairConserves
<1>2. IInv => [\A c \in Clients, s \in Shelves : Move(c, s) => Kept]_vars
  BY <1>1
<1>3. QED
  BY <1>2, InvariantHolds, PTL DEF MovesConserveCopies
===============================================================================
