------------------------------ MODULE Inventory ------------------------------
(***************************************************************************)
(* The stock levels of the shop: modules/inventory (service, repository).  *)
(*                                                                         *)
(* A shelf is a pair of a book and a location: one row of the inventory    *)
(* table.  Every use case locks the rows it changes (SELECT ... FOR        *)
(* UPDATE), checks them, writes them with the history rows and the alerts, *)
(* and commits: here it is one action.  A use case that is refused rolls   *)
(* back and is no step.  What interleaves are the staff's screens: a form  *)
(* is filled in from a level read some time ago, and is sent with the      *)
(* version that level had (optimistic locking).  And two use cases read    *)
(* the branch's allow_negative_stock, on a connection of their own, before *)
(* they wait for the row: reading and writing are two actions there.  The  *)
(* others read it once they hold the row, which nobody else changes then.  *)
(***************************************************************************)
EXTENDS StockRules, FiniteSets, FiniteSetsExt, Functions

CONSTANTS
  Shelves,         \* (book, location) pairs that may have a stock row
  Book,            \* [Shelves -> books]
  Branch,          \* [Shelves -> branches]
  Clients,         \* staff screens
  Quantities,      \* numbers of copies a request may name
  Costs,           \* what one copy may cost
  ReorderPoints,   \* reorder points a request may set
  DefaultReorderPoint,
  MaxVersion       \* bound: no row changes more often than this

ASSUME InventoryAssumption ==
  /\ IsFiniteSet(Shelves)
  /\ Quantities \subseteq Nat \ {0}
  /\ Costs \subseteq Nat
  /\ ReorderPoints \subseteq Nat
  /\ DefaultReorderPoint \in Nat
  /\ MaxVersion \in Nat

VARIABLES
  rows,            \* the shelves that have a row in the inventory table
  level,           \* [Shelves -> Level], a shelf without a row being empty
  history,         \* per shelf: qty_after of its last history row, sum of all deltas
  seen,            \* [Clients -> [Shelves -> Level]]: what each screen last read
  negativeAllowed, \* the branches whose allow_negative_stock is on
  asked,           \* per client: the setting as its transaction read it before the row
  raised,          \* the alerts the last transaction put in the outbox
  paid             \* per shelf: unit costs of the copies on hand (observation only)

vars == <<rows, level, history, seen, negativeAllowed, asked, raised, paid>>

Branches == {Branch[s] : s \in Shelves}

Level == [quantity : Int, averageCost : Nat, damaged : Int, damagedValue : Int,
          reorderPoint : Nat, version : Nat]

\* What a transaction that waits for a shelf's row read of the setting before.
Reading == [shelf : Shelves, allowed : BOOLEAN]

\* ensureLevel's new row.
EmptyLevel == [quantity |-> 0, averageCost |-> 0, damaged |-> 0, damagedValue |-> 0,
               reorderPoint |-> DefaultReorderPoint, version |-> 0]

ShelvesTyped ==
  /\ rows \subseteq Shelves
  /\ level \in [Shelves -> Level]
  /\ history \in [Shelves -> [last : Int, sum : Int]]
  /\ seen \in [Clients -> [Shelves -> Level]]
  /\ negativeAllowed \subseteq Branches
  /\ raised \subseteq [shelf : Shelves, alert : {"low_stock", "out_of_stock"}]
  /\ paid \in [Shelves -> SUBSET Nat]

TypeOK == ShelvesTyped /\ asked \in [Clients -> SUBSET Reading]

Init ==
  /\ rows = {}
  /\ level = [s \in Shelves |-> EmptyLevel]
  /\ history = [s \in Shelves |-> [last |-> 0, sum |-> 0]]
  /\ seen = [c \in Clients |-> level]
  /\ negativeAllowed \in SUBSET Branches
  /\ asked = [c \in Clients |-> {}]
  /\ raised = {}
  /\ paid = [s \in Shelves |-> {0}]

-----------------------------------------------------------------------------
(* The repository's writes, each on a level as the transaction sees it.    *)

\* Mutant: the quantity stops at zero instead of going below it.
MutantQuantityStopsAtZero(l, quantity) ==
  [l EXCEPT !.quantity = Available(quantity), !.version = @ + 1]

\* updateLevel
WithQuantity(l, quantity) == [l EXCEPT !.quantity = quantity, !.version = @ + 1]

\* updateLevel as receiveStock calls it
Received(l, quantity, unitCost) ==
  [WithQuantity(l, l.quantity + quantity) EXCEPT
     !.averageCost = AverageCostAfterReceipt(l.quantity, @, quantity, unitCost)]

SetAverageCost(l, unitCost) == [l EXCEPT !.averageCost = unitCost, !.version = @ + 1]

\* addDamaged
AddDamaged(l, quantity, value) ==
  [l EXCEPT !.damaged = @ + quantity, !.damagedValue = @ + value, !.version = @ + 1]

\* takeDamaged: the copies leave with their share of the value.
TakeDamaged(l, quantity) ==
  [l EXCEPT !.damaged = @ - quantity,
            !.damagedValue = @ - DamagedShare(l.damaged, l.damagedValue, quantity),
            !.version = @ + 1]

\* insertMovement: one more row in the history of a shelf.
Movement(row, before, after) == [last |-> after, sum |-> row.sum + (after - before)]

\* alertOnThreshold: reads the row again, after the change.
Alerts(s, before, l) ==
  [shelf : {s}, alert : StockAlert(before, l.quantity, l.reorderPoint)]

\* Observation: what the copies on hand were bought at, after an arrival.
PaidAfter(s, unitCost) ==
  IF level[s].quantity <= 0 THEN {unitCost} ELSE paid[s] \cup {unitCost}

\* A transaction that changes one shelf and writes one history row for it, with
\* the number of copies that moved.
Change(s, new, delta, alerts) ==
  /\ level[s].version < MaxVersion
  /\ rows' = rows \cup {s}
  /\ level' = [level EXCEPT ![s] = new]
  /\ history' = [history EXCEPT ![s] = Movement(@, level[s].quantity, level[s].quantity + delta)]
  /\ raised' = alerts
  /\ UNCHANGED <<seen, negativeAllowed>>

\* Mutant: any version the row has had will do.
MutantOldVersionWillDo(c, s) == seen[c][s].version <= level[s].version

\* checkVersion: the form names the version its screen showed.
CheckVersion(c, s) == seen[c][s].version = level[s].version

\* negativeStockAllowedAt: uncached, and of no transaction.
NegativeAllowedAt(s) == Branch[s] \in negativeAllowed

\* What c's transaction will use once it has the row of s: its earlier reading.
HasRead(c, s, allowed) == [shelf |-> s, allowed |-> allowed] \in asked[c]

\* The first statement of issueStock and adjustLevel; the row comes after it.
ReadSetting(c, s) ==
  /\ asked[c] = {}
  /\ asked' = [asked EXCEPT ![c] = {[shelf |-> s, allowed |-> NegativeAllowedAt(s)]}]
  /\ UNCHANGED <<rows, level, history, seen, negativeAllowed, raised, paid>>

\* The transaction is refused, or fails, after the reading: it rolls back.
RollBack(c) ==
  /\ asked[c] # {}
  /\ asked' = [asked EXCEPT ![c] = {}]
  /\ UNCHANGED <<rows, level, history, seen, negativeAllowed, raised, paid>>

-----------------------------------------------------------------------------
(* Stock movements booked with another module's document.                  *)

\* A purchase, a return, a cancelled order: costMayBeZero is the caller's.
ReceiveStock(s, quantity, unitCost, costMayBeZero) ==
  LET l == level[s]
      new == Received(l, quantity, unitCost)
  IN /\ unitCost > 0 \/ costMayBeZero
     /\ Change(s, new, quantity, Alerts(s, l.quantity, new))
     /\ paid' = [paid EXCEPT ![s] = PaidAfter(s, unitCost)]
     /\ UNCHANGED asked

ReceiveDamaged(s, quantity, unitCost) ==
  LET l == level[s]
      value == RoundToCent(unitCost * quantity)
  IN /\ Change(s, AddDamaged(l, quantity, value), 0, {})
     /\ UNCHANGED <<asked, paid>>

\* A voided exchange (issueDamaged).
IssueDamaged(s, quantity) ==
  LET l == level[s]
  IN /\ s \in rows
     /\ quantity <= l.damaged
     /\ Change(s, TakeDamaged(l, quantity), 0, {})
     /\ UNCHANGED <<asked, paid>>

\* issueStock from the lock of the row on.
Issue(s, quantity, allowed) ==
  LET l == level[s]
      new == WithQuantity(l, l.quantity - quantity)
  IN /\ s \in rows
     /\ CanIssue(Available(l.quantity), quantity, allowed)
     /\ Change(s, new, -quantity, Alerts(s, l.quantity, new))
     /\ UNCHANGED paid

\* A sale, a confirmed order, an exchange: the setting was read before the row.
IssueStock(c, s, quantity) ==
  /\ \E allowed \in BOOLEAN : HasRead(c, s, allowed) /\ Issue(s, quantity, allowed)
  /\ asked' = [asked EXCEPT ![c] = {}]

\* A purchase arriving for a special order: the copies come in, and those the
\* order waits for go out again in the same transaction, with no alert.  Its two
\* history rows follow each other, so they add up like one.
ArriveForSpecialOrder(s, quantity, take, unitCost) ==
  LET l == level[s]
      arrived == Received(l, quantity, unitCost)
      new == WithQuantity(arrived, arrived.quantity - take)
  IN /\ unitCost > 0
     /\ take <= quantity
     /\ CanIssue(Available(arrived.quantity), take, NegativeAllowedAt(s))
     /\ Change(s, new, quantity - take, Alerts(s, l.quantity, arrived))
     /\ paid' = [paid EXCEPT ![s] = PaidAfter(s, unitCost)]
     /\ UNCHANGED asked

\* sendStock, and returnToSupplier from stock for sale (takeOutAtCost).
TakeOutAtCost(s, quantity) ==
  LET l == level[s]
      new == WithQuantity(l, l.quantity - quantity)
  IN /\ Available(l.quantity) >= quantity
     /\ Change(s, new, -quantity, Alerts(s, l.quantity, new))
     /\ UNCHANGED <<asked, paid>>

\* returnToSupplier from damaged copies.
ReturnDamagedToSupplier(s, quantity) ==
  LET l == level[s]
  IN /\ quantity <= l.damaged
     /\ Change(s, TakeDamaged(l, quantity), 0, {})
     /\ UNCHANGED <<asked, paid>>

\* A difference a posted stock count found.
PostCountDifference(s, delta) ==
  LET l == level[s]
      new == WithQuantity(l, l.quantity + delta)
  IN /\ QuantityAllowed(new.quantity, NegativeAllowedAt(s))
     /\ Change(s, new, delta, Alerts(s, l.quantity, new))
     /\ UNCHANGED <<asked, paid>>

-----------------------------------------------------------------------------
(* Forms of the inventory screens, sent by a client.                       *)

Read(c, s) ==
  /\ seen' = [seen EXCEPT ![c][s] = level[s]]
  /\ UNCHANGED <<rows, level, history, negativeAllowed, asked, raised, paid>>

\* Mutant: damaged copies follow the branch's setting like any correction.
MutantDamageMayGoNegative(c, s, reason) ==
  IF reason = "damage" THEN NegativeAllowedAt(s) ELSE HasRead(c, s, TRUE)

\* Only copies on hand can be found damaged, whatever the branch allows.
MayGoNegative(c, s, reason) == reason # "damage" /\ HasRead(c, s, TRUE)

\* adjustStock; copies found damaged are set aside, never sold short, and the
\* setting is not read for them.
AdjustStock(c, s, delta, reason) ==
  LET l == level[s]
      moved == WithQuantity(l, l.quantity + delta)
      new == IF reason = "damage"
             THEN AddDamaged(moved, -delta, RoundToCent(l.averageCost * (-delta)))
             ELSE moved
  IN /\ s \in rows
     /\ DirectionAllowed(reason, delta)
     /\ CheckVersion(c, s)
     /\ reason # "damage" => \E allowed \in BOOLEAN : HasRead(c, s, allowed)
     /\ QuantityAllowed(new.quantity, MayGoNegative(c, s, reason))
     /\ Change(s, new, delta, Alerts(s, l.quantity, new))
     /\ asked' = IF reason = "damage" THEN asked ELSE [asked EXCEPT ![c] = {}]
     /\ UNCHANGED paid

\* Mutant: the destination's row starts afresh (an upsert that overwrites it).
MutantDestinationOverwritten(from, to, quantity) ==
  [level EXCEPT ![from] = WithQuantity(@, @.quantity - quantity),
                ![to] = Received(EmptyLevel, quantity, level[from].averageCost)]

\* Both rows of a transfer; the copies carry the source's average cost along.
MoveBetween(from, to, quantity) ==
  [level EXCEPT ![from] = WithQuantity(@, @.quantity - quantity),
                ![to] = Received(@, quantity, level[from].averageCost)]

\* transferStock (moveStock): both rows are locked, in id order.
TransferStock(c, from, to, quantity) ==
  LET source == level[from]
      target == level[to]
  IN /\ from \in rows
     /\ from # to
     /\ Book[from] = Book[to]
     /\ Branch[from] = Branch[to]
     /\ CheckVersion(c, from)
     /\ Available(source.quantity) >= quantity
     /\ source.version < MaxVersion /\ target.version < MaxVersion
     /\ rows' = rows \cup {to}
     /\ level' = MoveBetween(from, to, quantity)
     /\ history' = [history EXCEPT
                      ![from] = Movement(@, source.quantity, source.quantity - quantity),
                      ![to] = Movement(@, target.quantity, target.quantity + quantity)]
     /\ raised' = Alerts(from, source.quantity, level'[from])
     /\ paid' = [paid EXCEPT ![to] = PaidAfter(to, source.averageCost)]
     /\ UNCHANGED <<seen, negativeAllowed, asked>>

StockIn(c, s, quantity, unitCost) ==
  /\ CheckVersion(c, s)
  /\ ReceiveStock(s, quantity, unitCost, FALSE)

\* stockOut locks the row itself, so issueStock reads the setting under the lock.
StockOut(c, s, quantity) ==
  /\ CheckVersion(c, s)
  /\ Issue(s, quantity, NegativeAllowedAt(s))
  /\ UNCHANGED asked

\* The version is optional on the two forms for damaged copies.
VersionGiven(c, s, given) == given => CheckVersion(c, s)

WriteOffDamaged(c, s, quantity, given) ==
  LET l == level[s]
  IN /\ s \in rows
     /\ VersionGiven(c, s, given)
     /\ quantity <= l.damaged
     /\ Change(s, TakeDamaged(l, quantity), 0, {})
     /\ UNCHANGED <<asked, paid>>

RepairDamaged(c, s, quantity, given) ==
  LET l == level[s]
      unitCost == DivRound(DamagedShare(l.damaged, l.damagedValue, quantity), quantity)
      new == Received(TakeDamaged(l, quantity), quantity, unitCost)
  IN /\ s \in rows
     /\ VersionGiven(c, s, given)
     /\ quantity <= l.damaged
     /\ Change(s, new, quantity, Alerts(s, l.quantity, new))
     /\ paid' = [paid EXCEPT ![s] = PaidAfter(s, unitCost)]
     /\ UNCHANGED asked

\* No version is asked for and none is bumped; no alert is raised either.
SetReorderPoint(s, reorderPoint) ==
  /\ s \in rows
  /\ level' = [level EXCEPT ![s].reorderPoint = reorderPoint]
  /\ raised' = {}
  /\ UNCHANGED <<rows, history, seen, negativeAllowed, asked, paid>>

Revalue(c, s, unitCost) ==
  LET l == level[s]
  IN /\ s \in rows
     /\ unitCost > 0
     /\ CheckVersion(c, s)
     /\ l.quantity > 0
     /\ unitCost # l.averageCost
     /\ Change(s, SetAverageCost(l, unitCost), 0, {})
     /\ paid' = [paid EXCEPT ![s] = {unitCost}]
     /\ UNCHANGED asked

\* An administrator turns a branch's allow_negative_stock on or off.
ToggleNegative(b) ==
  /\ negativeAllowed' = IF b \in negativeAllowed THEN negativeAllowed \ {b}
                                                 ELSE negativeAllowed \cup {b}
  /\ UNCHANGED <<rows, level, history, seen, asked, raised, paid>>

-----------------------------------------------------------------------------
Deltas == Quantities \cup {-q : q \in Quantities}

Documents ==
  \E s \in Shelves, q \in Quantities :
    \/ \E cost \in Costs, zero \in BOOLEAN : ReceiveStock(s, q, cost, zero)
    \/ \E cost \in Costs : ReceiveDamaged(s, q, cost)
    \/ IssueDamaged(s, q)
    \/ \E take \in Quantities, cost \in Costs : ArriveForSpecialOrder(s, q, take, cost)
    \/ TakeOutAtCost(s, q)
    \/ ReturnDamagedToSupplier(s, q)

Forms ==
  \E c \in Clients, s \in Shelves :
    \/ Read(c, s)
    \/ ReadSetting(c, s)
    \/ \E q \in Quantities : IssueStock(c, s, q)
    \/ \E d \in Deltas, reason \in {"damage", "loss", "correction"} : AdjustStock(c, s, d, reason)
    \/ \E to \in Shelves, q \in Quantities : TransferStock(c, s, to, q)
    \/ \E q \in Quantities, cost \in Costs : StockIn(c, s, q, cost)
    \/ \E q \in Quantities : StockOut(c, s, q)
    \/ \E q \in Quantities, given \in BOOLEAN : WriteOffDamaged(c, s, q, given)
    \/ \E q \in Quantities, given \in BOOLEAN : RepairDamaged(c, s, q, given)
    \/ \E cost \in Costs : Revalue(c, s, cost)

Next ==
  \/ Documents
  \/ Forms
  \/ \E s \in Shelves, d \in Deltas : PostCountDifference(s, d)
  \/ \E s \in Shelves, rp \in ReorderPoints : SetReorderPoint(s, rp)
  \/ \E c \in Clients : RollBack(c)
  \/ \E b \in Branches : ToggleNegative(b)

Spec == Init /\ [][Next]_vars

-----------------------------------------------------------------------------
(* Safety.                                                                  *)

\* The quantity of a shelf is the qty_after of its last history row, and the
\* deltas of its history add up to it (consistency check stock.matches-history):
\* no use case writes a level and its history row from different readings.
MatchesHistory ==
  \A s \in Shelves : history[s].last = level[s].quantity
                  /\ history[s].sum = level[s].quantity

\* Damaged copies are never fewer than none, their value is never negative, and
\* no value is left behind when the last one goes: the constraint
\* inventory_damaged_value_check never has to refuse a use case, however the
\* shares of the earlier copies were rounded.
DamagedConsistent ==
  \A s \in Shelves : LET l == level[s] IN
    /\ l.damaged >= 0
    /\ l.damagedValue >= 0
    /\ l.damaged = 0 => l.damagedValue = 0

\* What a screen shows of the goods (the reorder point is not protected).
Goods(l) == [quantity |-> l.quantity, averageCost |-> l.averageCost,
             damaged |-> l.damaged, damagedValue |-> l.damagedValue]

\* A screen is never newer than the row, and one whose version is still the
\* row's shows the goods as they are: every write to the goods, of whatever
\* use case, moves the version, or checkVersion would let a stale form through.
VersionTellsChange ==
  \A c \in Clients, s \in Shelves :
    /\ seen[c][s].version <= level[s].version
    /\ seen[c][s].version = level[s].version => Goods(seen[c][s]) = Goods(level[s])

\* A shelf with copies on it carries an average between the lowest and the
\* highest cost they came in at, also after the shelf was sold below zero.
AverageWithinPaid ==
  \A s \in Shelves : level[s].quantity > 0 =>
    /\ Min(paid[s]) <= level[s].averageCost
    /\ level[s].averageCost <= Max(paid[s])

\* A form that names a version changes a shelf only as its author saw it: two
\* screens open on the same shelf cannot overwrite each other, nor can one
\* form sent twice be booked twice.
FormsSeeWhatTheyChange ==
  [][\A c \in Clients, s \in Shelves, q \in Quantities :
       (\/ \E d \in Deltas, r \in {"damage", "loss", "correction"} : AdjustStock(c, s, d, r)
        \/ \E to \in Shelves : TransferStock(c, s, to, q)
        \/ StockOut(c, s, q)
        \/ WriteOffDamaged(c, s, q, TRUE)
        \/ RepairDamaged(c, s, q, TRUE)
        \/ \E cost \in Costs : StockIn(c, s, q, cost) \/ Revalue(c, s, cost))
       => /\ Goods(seen[c][s]) = Goods(level[s])
          /\ seen'[c][s].version < level'[s].version]_vars

\* c's transaction ends with this step and had found the branch to allow it.
OnItsReading(c, s) == HasRead(c, s, TRUE) /\ asked'[c] = {}

HasLeave(s) == NegativeAllowedAt(s) \/ \E c \in Clients : OnItsReading(c, s)

\* A shelf goes (further) below zero only in a branch that allows it, or allowed
\* it when the transaction that takes the copies asked, before it waited for the
\* row; each such answer is used once, and never to set copies aside as damaged,
\* to move them, or to send them away.
NegativeOnlyByPermission ==
  [][\A s \in Shelves :
       level'[s].quantity < level[s].quantity /\ level'[s].quantity < 0 =>
         /\ HasLeave(s)
         /\ level'[s].damaged = level[s].damaged
         /\ \A c \in Clients, q \in Quantities, to \in Shelves :
              ~TransferStock(c, s, to, q) /\ ~TakeOutAtCost(s, q)]_vars

\* Not so (no run checks it): the setting applies at once to the next stock
\* movement, as isNegativeStockAllowed says (config.service.ts:255).  A sale that
\* waits for the row while the setting is turned off still goes below zero.
SettingAppliesAtOnce ==
  [][\A s \in Shelves :
       level'[s].quantity < level[s].quantity /\ level'[s].quantity < 0 => NegativeAllowedAt(s)]_vars

\* An alert is raised exactly when the stock a transaction leaves behind has
\* crossed a threshold since the stock it found, once, whatever happened to
\* the row in between.
AlertsOnCrossing ==
  [][\A s \in Shelves : level'[s].quantity # level[s].quantity =>
       {a.alert : a \in {b \in raised' : b.shelf = s}} =
         StockAlert(level[s].quantity, level'[s].quantity, level[s].reorderPoint)]_vars

Copies(l, b, k) ==
  LET shelves == {s \in Shelves : Branch[s] = b /\ Book[s] = k}
  IN SumFunction([s \in shelves |-> l[s].quantity + l[s].damaged])

\* What a change may do to a shelf, and what it has to tell: a shelf goes below zero only
\* by permission, and the branch hears of every threshold crossed (quantityAfterAdjustment, stockAlert).
ChangesFollowTheRules == NegativeOnlyByPermission /\ AlertsOnCrossing

\* Moving copies between shelves, setting them aside as damaged and putting
\* repaired ones back neither make nor lose a copy of a book in a branch.
MovesConserveCopies ==
  [][\A c \in Clients, s \in Shelves :
       (\/ \E to \in Shelves, q \in Quantities : TransferStock(c, s, to, q)
        \/ \E d \in Deltas : AdjustStock(c, s, d, "damage")
        \/ \E q \in Quantities, given \in BOOLEAN : RepairDamaged(c, s, q, given))
       => \A b \in Branches, t \in Shelves : Copies(level', b, Book[t]) = Copies(level, b, Book[t])]_vars
=============================================================================
