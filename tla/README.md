# Standard Bookstore ERP: specification in TLA+

The server of the ERP is a modular monolith: Express controllers call the use
cases of `apps/api/src/modules/*/*.service.ts`, which call pure rules
(`*.policy.ts`) and SQL (`*.repository.ts`). Nearly every use case is one
PostgreSQL transaction (`db/tx.ts`) that first locks the rows it is about. What
makes the system hard is not inside one use case but between them: forms sent
long after they were read, the same money written down in five tables by a dozen
use cases, events handled after the fact by server processes that may die, and
requests that are sent twice.

Paths below are under `src/apps/api/src/` unless they say otherwise.

## The system's parts

| Part | State | Operations | Talks to | What makes it hard |
|---|---|---|---|---|
| Inventory `modules/inventory` | `inventory` rows (quantity, average cost, damaged copies and value, reorder point, version), `inventory_movements` | receive, issue, adjust, transfer, damaged in/out/repair, count posting, revalue, reorder point | called by every document's transaction; alerts to the outbox | optimistic versions over row locks, moving average, rounding shares, negative stock by a setting read before the lock |
| Orders `modules/orders` | orders, lines, reservations | create, edit, confirm, deliver, fulfil, cancel, cancel the rest, delete | inventory, payments, receivables, points, services, special orders | status told three times (status, lines, reservations); a read before the lock |
| Payments `modules/payments` | payments, refunds, the order's payment status | pay, refund, refund everything | accounts, drawer, bank accounts, receivables, points | partial refunds in several methods |
| Receivables `modules/receivables` | one receivable per credit sale | open, pay, reopen, credit, cancel, write off, due date, overdue job | orders, POS, exchanges, returns | many writers, each with figures of its own |
| Customer accounts `modules/customer` | store credit, points | credit, debit, adjust | orders, POS, returns, loyalty worker | balance checked under lock |
| Cash sessions `modules/cashSessions` | session, movements | open, pay in/out, close, review | every counter flow | the close against money still being taken |
| Point of sale `modules/pos` | sales, lines, payments | sell, collect, void | inventory, receivables, outbox | void against what was already earned |
| Outbox and workers `lib/outbox.ts`, `workers/` | `outbox`, `loyalty_history`, notifications | insert, poll, handle, mark | every publisher | at-least-once delivery, two pollers, crashes |
| Idempotency `lib/idempotency.ts` | `idempotency_keys` | look up, run, store, expire | payments, orders, exchanges | three statements, nothing held between |
| Returns, exchanges | returns, credit notes, exchanges | initiate, approve, complete, void | inventory, payments, receivables | copies and money shared over several returns |
| Special orders, procurement, supplier returns and payables | purchase orders, links, receipts, ledger | order, receive, pay, credit | inventory, orders | partial receipts against links that end meanwhile |
| Branch transfers, stock counts | notes, sheets | dispatch, receive, approve | inventory | copies on the way; stock that moves during a count |
| Business days and months | day and month closes, advisory locks | close, reopen | every dated write | a write for a day being closed |
| Authentication | sessions, refresh tokens, lockout | sign in, refresh, revoke, switch branch | every request | rotation, grace period, reuse |
| Services and jobs | binding jobs | open, start, finish, collect, cancel | orders, POS, returns | life beside a sale |
| Document numbers, event streams, rate limits | counters in the database or in memory | next, publish, count | everything | gaps and duplicates; slow clients |
| The rest: catalogue, staff, branches, suppliers, configuration, imports, reports, audit, backups, the web application | records | edit, query | | little besides unique keys |

What makes each part correct:

- **Inventory.** A level agrees with its history; a version vouches for the goods;
  the average cost stays between the costs paid; damaged value never goes below zero
  and never stays without a copy; stock goes below zero only where the branch allows
  it; an alert is raised exactly on a crossing; a move makes no copy.
- **Orders.** No copy is sold twice; copies are on the shelf, waiting or handed over;
  reservations, lines and status tell the same story; only an open order reserves.
- **Payments, receivables, accounts.** Drawer and accounts hold what payments less
  refunds say; no order holds more than its total; the status and the receivable agree
  with the payments; a closed debt stays closed; points are earned once.
- **Outbox.** A published event had its effect, once; every event is handled in the
  end; what a voided sale earned is taken back.
- **Idempotency.** An operation runs once per key, as long as its answer is kept and nobody
  asks twice at once; all who ask again get the same answer.
- **Counter, returns, exchanges, binding jobs.** Nothing goes back that was not sold, and
  the last copy brings the last cent; what the customer paid and owes is what the kept
  copies cost; a void leaves nothing; bound copies come back as their job says.
- **Cash sessions, business days and months.** A count is set against everything that was
  in the drawer; the report of a closed day holds all of its counter money, that of a
  month all of its days; a manager who closes a day gets their turn.
- **Special orders, procurement.** No line is promised or given more than it ordered, no
  closed order holds copies, every copy bought is somewhere.
- **Supplier ledger, supplier returns.** What is sent back had arrived and is credited
  once; payments and credits stay within the order, refunds within what is due.
- **Authentication.** Tabs that refresh at the same moment never end their session; the
  unused token is not lost as long as every answer that carries one arrives; a session that ended is dropped by every tab.
- **Branch transfers, stock counts.** Every copy of a note is on the way, on a shelf,
  damaged, lost or back, once; a posted count leaves the record at what is on the shelf.

## The modules

| Module | Models | State | Actions |
|---|---|---|---|
| `StockRules` | `inventory.policy.ts`, rounding of `packages/shared/src/money.ts` | none: pure operators | |
| `Inventory` | `inventory.service.ts`, `inventory.repository.ts` | `rows`, `level` (one `LockedLevel` per shelf, a pair of book and location), `history`, `seen` (what each screen read), `negativeAllowed`, `asked` (the setting as a transaction read it), `raised` | one per exported use case; `Change` is the shape they share (lock, write, history, alert); `ReadSetting` and `RollBack` for the two that read the setting before the lock |
| `Orders` | `orders.service.ts`, `payments.service.ts`, the receivable of an order, accounts and drawer | `order` (with lines and receivable), `payments`, `rows` (reservations by status), `stock`, `funds`, `fulfilling` | one per use case; `fulfill` is two, its read and its commit |
| `Outbox` | `lib/outbox.ts`, `workers/*`, the events of `modules/pos` | `place` and `status` of each event, the poll transaction of each process (`locked`, `written`), the handler's progress (`checked`), `accruals`, `balance`, `notices` | publishers; poll, check, accrue, notify, commit, fail, crash |
| `Idempotency` | `lib/idempotency.ts` | `table`, `runs` (which attempts ran), `attempt`, and counts of `failures`, `expiries`, `overlaps` | look up, run, refuse, store, fail to store, die, expire, clean up |
| `AnswerOnce` | what `withIdempotency` promises | `served`, `crowded`, `ran`, `kept`, `given` | enter, run, leave, replay, forget |
| `TradingDay` | `modules/cashSessions`, `modules/businessDays`, the day triggers of migration `1700000094`, supplier payments as far as they are dated | `dayState`, `report`, `monthState`, `summary`, `closing`, `taken`, `paid`, `session`, one transaction `tx` per worker, `today` | the statements of each transaction: begin, take the day lock, lock the session, commit; close and reopen of days and months |
| `CounterRules` | `pos.policy.ts`, `returns.policy.ts`, `exchanges.policy.ts`, `saleServices.policy.ts` | none: pure operators | |
| `Counter` | `modules/pos`, `modules/returns`, `modules/exchanges`, `modules/services` and the receivable of a sale | `sale`, `tenders`, `debt`, `back` (all its returns together), `job`, `shelf`, `drawer`, `customer`, `accrual`, `tx` | sell, exchange, collect, write off, accrue, spend; each step of the job; void, return and cancelled binding in two steps |
| `ProcurementRules` | `procurement.policy.ts` and the rules of links | none: pure operators | |
| `SpecialOrders` | purchase orders, links and receipts, and what `orders.service.ts` does to a special-order line | `order`, `line`, `po`, `link`, `stock`, `away`, `tx` | purchasing and selling, each from its first lock to its commit |
| `SupplierLedger` | `supplierPayables.service.ts`, `supplierReturns.service.ts`, receipts | `purchase`, `fin`, `payment`, `credited`, `returned`, `refunded`, `return`, `onHand`, `refunding` (the refunds that wait) | one per use case; a refund is two, its sums and its commit |
| `Sessions` | `modules/auth`, `middleware/auth.ts`, the web application's `lib/auth.ts`, `lib/api.ts`, `app/useSession.ts` | `session`, `grace`, `cookie`, `tab`, `req` | sign in, reload, timer, serve a refresh, apply its answer, call, sign out, end elsewhere, lose a message |
| `StockDocuments` | `modules/transfers`, `modules/stockCounts` | `stock`, `missing` (what the record has and the shelf has not), `note`, `count`, `look`, `gone`, `damaged` | one per use case; a look at the shelf, a copy that goes astray |
| `InventoryProofs`, `OrdersProofs`, `CounterProofs`, `TradingDayProofs`, `StockDocumentsProofs` | theorems about the module they are named for | | |
| `PlatformProofs` | theorems about `Sessions`, `Idempotency` and `Outbox` | | |
| `ProcurementProofs` | theorems about `SpecialOrders` and `SupplierLedger` | | |
| `SumTheorems` | lemmas the other proofs share: sums over finite sets, the larger and the smaller of two numbers, the largest and the smallest of a set, positions of a sequence | | |
| `MC…` | small instances for TLC | | |

How they fit together: `Inventory` has every way a stock row changes, with costs,
history and versions, for one caller at a time; `Orders`, `Counter`, `SpecialOrders`,
`SupplierLedger` and `StockDocuments` are its callers and keep of it the number of
copies. `Outbox` runs the events `Counter` and `Orders` publish; what it does to a sale
is the step `Accrue` of `Counter`. `TradingDay` has the locks every dated write of the
others takes. `CounterRules`, `ProcurementRules` and `StockRules` are the pure rules,
used by the modules next to them.

A use case is one action where its transaction locks the row it decides on
(`SELECT … FOR UPDATE`) before it reads it, and commits once; a use case that is
refused rolls back and is no step. The models split it where the code really lets others
in:

- a form filled in from an earlier read (`Read` in `Inventory`), the setting that `issueStock`
  and `adjustLevel` read on another connection before they wait for the row (`ReadSetting`), the order `fulfill()`
  loads before its transaction (`FulfillRead`), the steps of a handler that commits on a
  connection of its own (`Outbox`), the three statements of `withIdempotency`;
- a statement that both waits for a lock and sums rows of other tables: its sums are from
  when it began, not from when it got the lock (`AskLink`, `AskRefund`, the void of
  `Counter`). What it reads of the row it locked is read again and is current. `lockLine` counts the cancelled
  copies of a line in such a sum, so these may be old when the line's own figures are new;
- transactions that take several locks in an order of their own (`TradingDay`, `Counter`,
  `SpecialOrders`), where others run between two locks and a cycle of waits is ended by
  refusing one of the transactions (`Rollback`);
- a request, its service and its answer, and what `rotate` still does after its transaction
  (`Deny`, in `Sessions`); a look at the shelf and its entry
  (`StockDocuments`).

What is abstracted:

- **Inventory.** Copies are integers, money integers in minor units, `Cent` of them to
  a cent, so that rounding is the real `divRound` on a small scale. Titles, notes,
  staff and document references are left out. `history` keeps the last quantity and
  the sum of the deltas: what the consistency check `stock.matches-history` reads.
  `paid` only observes the unit costs that came in since the shelf was last empty.
- **Orders.** Money is in whole units, because the code's tolerance of 0.01 tells
  nothing apart there; `cash` stands for every method that goes to no customer account.
  Stock is a number per book. `rows` counts reservation rows by status, which is all that
  `deductReserved` and `releaseReservations` tell apart.
- **Outbox.** A sale earns one point. The table is a status and a place in the order of creation for each
  event; the batch is locked and handled in that order.
- **Idempotency.** An answer is named by the attempt whose operation gave it; the hash of a
  request is not modelled, as nothing compares it. `AnswerOnce` is the abstract specification:
  no table, no statements, no failures.
- **TradingDay.** Every amount is one unit; one kind of counter money stands for sales,
  returns, exchanges and collections, which all take the same locks. A report is what the
  properties compare of it, and the summary of a month is the reports it adds up. `late` only observes which days a transaction ran over.
- **Counter.** One line, whose copies may be bound, in cents with the real rounding. Points are
  divided with Money's own rounding, on a scale of `PointScale` parts (10,000 in the code). All
  returns are one running sum, as the code reads them. Approvals are left out, points as
  a means of payment too. `raced` only observes a void that missed a return.
- **SpecialOrders.** One line per customer order, one book, one shop and one other
  location. `raced` observes a link made over figures that were no longer true.
- **SupplierLedger.** One line; amounts are multiples of its price. `valued` observes what had
  arrived when the financial status was last set.
- **Sessions.** Of branches and roles there is only that a refresh may be refused for them, or
  fail over them, once its rotation has committed (`unsent` counts those). Tokens are numbered; time is only whether a replaced token is still in
  its grace period. Access tokens do not expire by themselves: the timer comes first.
- **StockDocuments.** One note of several books, one count at a time. A note may be sent whose
  copies are in the record and not on the shelf: they are then under way on paper only (`OnPaper`); `missing` and
  `disturbed` are what the program cannot know: whether the record is true.

External code is not mapped as such: PostgreSQL appears only as atomic transactions,
row and advisory locks, `SKIP LOCKED`, foreign keys and `ON CONFLICT`.

## What is checked

| Run | Instance | What it shows |
|---|---|---|
| `inventory` | one shelf, one clerk, 1–2 copies, costs 0 and 3, `Cent = 2`, 4 changes, the setting switched at any time | all use cases against the rules of a level |
| `transfers` | two shelves, 1 copy, 3 changes of each | no copy is made or lost when it moves |
| `orders_stock` | two orders, two books, lines of 1–2 copies, two lines of one book, a stock of 0, 1 or 3 | every copy is accounted for while orders compete |
| `orders_money` | one order of 1 or 3, three methods, deposits of 2 and 3, amounts 1–3, 3 payments, requests to fulfil a draft | money across payments, accounts, drawer, receivable, points |
| `outbox` | one sale, two processes, 2 crashes, 1 failing handler | delivery across processes and crashes, and that it ends |
| `idempotency` | four attempts of one key, two bodies, 1 failure, 1 expiry | what a client may rely on who retries, after its first attempt or beside it; the refinement of `AnswerOnce` |
| `trading_day` | two workers, two days, each a month of its own, 1 session, 1 payment | what is closed holds everything, and a close gets its turn |
| `counter` | a sale of three copies, two of them bound, that earns 4 points divided to a fifth (`PointScale`); two exchanges, one to pay and one to give back; two workers; 3 payments | money, copies, points, debt and job of one sale, in any order |
| `special_orders` | two orders (2 and 1 copies), two purchase orders (up to 2 and 1), two workers | copies between purchasing and selling |
| `supplier_ledger` | an order of 1 or 2 copies, on cash or credit terms, two payments, two returns, two requests for a refund | goods and money between the shop and its supplier |
| `sessions` | two tabs, two sign-ins, two tokens each, 1 message lost or token not sent | refresh, reuse, grace and the end of sessions |
| `stock_documents` | two books (2 and 1 copies), 1 sold and 1 astray of the first, counts of the receiving branch | notes and counts that overlap |

A property of a run is often a conjunction of named parts (`CopiesAgree`,
`PaymentsAgree`, `ClosedDaysStand`, `VoidsAreWhole`, `ReturnsWithinTheSale` …): the parts
say what the code promises one by one, each with its own comment, and TLC checks them
together. The type invariants of `Orders`, `Outbox`, `TradingDay`, `Counter`, `SpecialOrders`
and `SupplierLedger` are such parts; those of `Inventory`, `Idempotency`, `Sessions` and
`StockDocuments` are proved and not checked.

**Bounds.** They are guards or ranges of inputs, and each is named. `MaxVersion` (changes
of a stock row): four changes of a shelf let it be filled at one cost, oversold, filled
at another, and damaged or repaired; two are enough for a stale form. Two orders are
enough for stock to be taken twice, and a basket with two lines of one book for a
reservation row to be split. `MaxPayments`: three payments let a deposit be refunded,
replaced by a smaller payment and completed. `MaxCrashes`, `MaxErrors`: two processes,
two crashes and two events per sale are enough for an event to be handed out a third
time. `MaxFailures`, `MaxExpiries` (attempts that die or do not store, keys that expire).
`LastDay`, `MaxSessions`, `MaxTaken`, `MaxCash`: two days let a transaction begin on one
and commit on the other, with a close in between; a month of one day makes every close of
a day meet its month. `MaxCopies`, `Elsewhere`: two purchase orders for one line, one of
which may bring its copies to another location, and two lines for one purchase order. `MaxCredited`,
`MaxRefunded`: as much as the order costs. `MaxTokens`, `MaxLost`: two tokens let a
token be replaced and then expire with its session; `MaxLost` counts lost messages and tokens
no answer brings together. `PointScale`, `Earned`: with four points and a fifth of a point as the
smallest part, dividing rounds up past the exact share, as with the code's 10,000 parts and larger
sums; the code's own scale would need amounts TLC cannot enumerate. `MaxSold`, `MaxAstray`: one copy is
enough for a count to be wrong.

**Switches.** `DraftRequests` (`Orders`) names the requests a client may send for a draft
though no screen offers them; `orders_money` has one, `orders_stock` none. `Required` (`TradingDay`) and `NegativeAllowed` are settings of the branch.

**Deadlock** is checked in `trading_day` and `sessions`: there is always a step, however the
locks fall. In the others it is not (`CHECK_DEADLOCK FALSE`): a voided sale has no next
step (`Counter`); all orders, returns, notes and counts may be closed (`Orders`,
`SpecialOrders`, `SupplierLedger`, `StockDocuments`); with nobody at the counter the shop
stops, and the bounds run out (`Inventory`, `Outbox`, `Idempotency`).

**Fairness.**

- `Outbox`: weak fairness of each process's `PollerStep`. `startOutboxPoller` sets its
  timer again after every tick, failed or not, and a crashed process is started again.
  Nothing is asked of customers, of crashes, or of failures, which are bounded.
- `TradingDay`: weak fairness of the steps of every transaction under way, its rollback
  among them, and of a close once it was asked for: they are functions that are running, on
  connections of their own. Nobody has to begin anything. That PostgreSQL serves those who
  wait for an advisory lock in order is in the guards (`SharedGranted`).
- `Sessions`: weak fairness of each tab's timer, of serving its request and of applying
  the answer: a timer that is set fires, a request not lost is served.

**Observations on the properties.** `ReceivableIsWhatIsOwed` has two exceptions. A balance is
held at the original amount after a deposit is refunded: `reopenOnRefund` caps it on
purpose. And a sale whose deposit paid all of it has no receivable, then or after a refund. That
every other one has, and for what the deposit left, is part of the property. `AccruedOncePerProcess` is what the worker's look at the history is good for:
with one process it says that a sale is accrued once. `RunAgainOnlyIfForgotten`
counts the attempts that found nothing while another one was under way (`overlaps`): each of them may run
the operation once more, and nothing else may.
`SettledWithinOrder` counts payments as `procurement.paid-within-total` does, and bounds what a cash
order pays twice by what arrived. `PostedCountsAreTrue` is checked with the receiving branch
counted; that it also holds where the note is sent from is proved.
Observation variables (`raced`, `late`, `stale`, `disturbed`, `crowded`, `unsent`) name the one interleaving
under which the code does not keep a property; the property says that it is the only one,
and the section "What the code does not keep" says what then happens.

## What is proved

For every value of the constants, as theorems of `Spec` (`SessionsSpec`, `KeysSpec` and
`LedgerSpec` in the modules that share a proof module with another one):

| Module | Theorem | Says |
|---|---|---|
| `InventoryProofs` | `TypeCorrect` | `TypeOK` |
| | `HistoryMatches` | a level is what its history says |
| | `VersionsTell` | a version that still stands vouches for the goods |
| | `DamagedStaysConsistent` | damaged copies and their value never go below zero, and end together |
| | `FormsAreNotStale` | a form that names a version is booked only on the goods its author saw, and uses that version up (`FormsSeeWhatTheyChange`, an action property) |
| | `AveragesStayWithinPaid` | the average cost of a shelf is between the lowest and the highest its copies came in at (`AverageWithinPaid`) |
| | `RulesAreFollowed` | a shelf goes below zero only in a branch that allows it, or allowed it when the use case asked, and every threshold crossed is told (`ChangesFollowTheRules`, an action property) |
| | `MovesConserve` | moving, damaging or repairing copies makes and loses none (`MovesConserveCopies`, an action property) |
| `OrdersProofs` | `OrdersTypeCorrect` | `TypeOK` |
| | `CopiesAlwaysAgree` | no copy is sold twice; shelf, reservation rows, lines and status agree on where each copy is (`CopiesAgree`) |
| | `OrdersConserveCopies` | no step makes a copy appear or disappear (`CopiesConserved`, an action property) |
| | `MoneyAlwaysAddsUp` | drawer and accounts hold what payments, refunds and points say (`MoneyAddsUp`) |
| | `PaymentsAlwaysAgree` | an order keeps no more than it costs, its stored payment status is right, points are earned once (`PaymentsAgree`) |
| | `DebtAlwaysAgrees` | a receivable is opened for what the deposit leaves, and is open just as long as something is left to pay, for that much or at most for all of it (`DebtAgrees`) |
| | `ClosedDebtsRemainClosed` | a debt written off or cancelled stays so (`ClosedDebtsStayClosed`, an action property) |
| `CounterProofs` | `BoundCopiesAlwaysFollowTheirJob` | bound copies and their fee go back only as their job says |
| | `VoidsOverReturnsRaced` | a void over a return is one that raced it (a part of `VoidsAreWhole`) |
| | `VoidedSalesStay` | nothing changes a voided sale any more (`NothingAfterVoid`, an action property) |
| | `VoidsAreAlwaysWhole` | a void that raced no return leaves nothing of its sale (`VoidsAreWhole`) |
| | `CustomersAlwaysPayForWhatTheyKeep` | what was paid and is owed is what the kept copies and their binding cost, up to a cent (`PaysForWhatIsKept`) |
| | `ReturnsStayWithinTheSale` | no more copies, value, fee or cash come back than the sale had, and no more points than their share of it, rounded (`ReturnsWithinTheSale`) |
| | `AccountsAlwaysAgree` | no account goes below zero, and an open receivable is what its sale is due (`AccountsAgree`) |
| `ProcurementProofs` | `NoLineGetsMoreThanItOrdered` | `TypeOK`; no line gets more than it ordered |
| | `ClosedOrdersHoldNothing` | only an open order has copies reserved |
| | `CopiesAreConserved` | every copy that was there or was bought is somewhere, once (`EveryCopyAccounted`) |
| | `LinksStayRight` | no line waits for more than it has on order, nor on more than its purchase order brings (`LinksAreKept`) |
| | `ReturnsAlwaysAddUp` | what was sent back was received, credited once, and is gone (`ReturnsAddUp`) |
| | `PaymentsStayWithinOrder` | payments and credits less refunds stay within the order, but for what a cash order pays for itself; its financial status is that of its money and of the goods it was last set for (`PaymentsWithinOrder`) |
| | `RefundsStayWithinDue` | the supplier paid back too much only over figures that were stale or a payment since reversed (`RefundsWithinDueUnlessUndone`) |
| `TradingDayProofs` | `ClosedDaysAlwaysStand` | the report of a closed day holds all its counter money and sessions, and its payments but for a reversal that raced the close |
| | `ClosesNeverWaitInACircle` | while the close of a day waits, some transaction need not (the safety half of `CloseGetsItsTurn`) |
| | `ClosedMonthsAlwaysStand` | a closed month covers closed days and is the sum of their reports |
| | `SessionsAreCountedInFull` | a counted session was expected to hold its float and all its movements |
| | `DrawersAlwaysAddUp` | no drawer is overdrawn; where sessions are required all counter money is in one (`DrawersAddUp`) |
| `StockDocumentsProofs` | `TypeCorrect` | `TypeOK` |
| | `NotesAddUp` | every copy of a note is somewhere, once, and its status says so |
| | `PostedCountsStayTrue` | a posted count leaves the record at what is on the shelf |
| `PlatformProofs` | `SessionsTypeCorrect` | `SessionsTypeOK` |
| | `OnlyLateTokensEndSessions` | a session ends for a token used again only if that token was late |
| | `SessionsCanGoOn` | the unused token of the only open session is in the cookie or on its way there while nothing was lost and no refresh refused after its rotation (`SessionCanGoOn`) |
| | `KeysTypeCorrect` | `KeysTypeOK` |
| | `RunsAgainOnlyIfForgotten` | a key runs again only after an attempt that died or did not store, beside another attempt, or after its expiry |
| | `ReplaysAlwaysAgree` | until the key expires all replays give one answer, that of an operation that ran (`ReplaysAgree`) |
| | `AnswersOnce` | `Idempotency` implements `AnswerOnce` (`ImplementsAnswerOnce`) |
| | `OutboxRepeatsWithinBounds` | `TypeOK`; points once for every process at most, a notification again only after a crash |
| | `PublishedHasBeenAccrued` | a published event had its effect |
| | `StatusesAreFinal` | what a poll committed is never written again (the safety half of `HandledInTheEnd`) |

The assumptions are those the modules name (`CentAssumption`, `InventoryAssumption`,
`SessionsAssumption`, …): sets of shelves, orders and the like that are summed over are finite, and
quantities, costs and bounds are natural numbers, which the schemas of the requests ensure. Some theorems assume more, each because it is false without:

- `CopiesAlwaysAgree` assumes that nobody asks to fulfil a draft (`"fulfill" \notin
  DraftRequests`), and `MoneyAlwaysAddsUp`, `PaymentsAlwaysAgree` and `DebtAlwaysAgrees` that
  nobody asks to pay one. No screen offers either; the API would take them. `OrdersTypeCorrect`,
  `OrdersConserveCopies` and `ClosedDebtsRemainClosed` do without.
- `CustomersAlwaysPayForWhatTheyKeep`, `ReturnsStayWithinTheSale` and `AccountsAlwaysAgree` assume
  `OffersCostEnough`: of a line (or of a binding fee) of `n` copies, a copy costs nothing, or some
  `n - 1` half cents. That is, rounding up the shares of all copies but the last leaves something
  for the last. It is a fact about prices, which no line of the code checks; the offers of
  `Counter.cfg` satisfy it. `VoidsAreAlwaysWhole` does without.

What TLC finds where these fail is in "What the code does not keep".

**Inventory.** The inductive invariant `IInv` is the first four properties, the last of them
in a stronger form. `DamagedConsistent` is not inductive alone. A share of the damaged
value is rounded to the cent, and with a value of half a cent the share of one copy out of
two would be rounded up to more than there is. `Sound` adds what keeps this from
happening: the value is a whole number of cents (`WholeCents`), because every amount added
to it was rounded (`damage` in `adjustLevel`, `receiveDamaged`), and a difference of whole
cents is one too. `RoundToCentAtMost` then shows that no share passes the value it is a
share of. The proof has two layers: each write of the repository leaves one level sound
(`…Sound`), and a transaction of the shape of `Change` to a sound level with a later
version keeps `IInv` (`ChangeKeepsIInv`); one lemma per use case (`…Keeps`) brings it to
that shape. `FormsAreNotStale` needs no induction of its own: `CheckVersion` and
`VersionTellsChange` give that the goods are as seen, the lemmas `…Moves` that the version is
used up.

The average is between two costs that were paid (`Within`): a weighted average of numbers between two
bounds is between them, and rounding does not pass a whole number (`AverageBetween`, from
`DivRoundAtMost` and `DivRoundAtLeast`). It holds of an empty shelf too, as `Init` starts every shelf with
the cost zero, and what was paid is a finite set, so that it has a least and a greatest element. For the
rules, `RulesFollowed` says of a step what each shelf may do and must tell; one lemma per use case
(`…Obeys`) shows it from the condition the use case checked, which for a sale and a
correction is what it read of the setting before; that such a reading is used up with the change
rests on `asked` having its type (`AskedTyped`). Copies that come in cross no threshold
(`RisingIsQuiet`), which is why a special order and the receiving end of a transfer need no alert.
Copies of a branch are a sum over its shelves; a transfer takes from one summand what it adds to another
(`SumMove`), or both its ends are in another branch or of another book.

**Sums.** `SumFunctionOnSet` is a recursive function on the subsets of its index set. Nothing can be
said of it before it is known to exist, which `FunctionExists` shows: functions on the
subsets of smaller sets are extended to larger ones. `SumEquation` is then its equation, and
`SumTakeOut` that any element may be the one taken out; changes of one summand, sums of sums and of
differences, and bounds follow. The provers do not take a predicate as a parameter, so that
induction is stated for a set of sets (`SetInduction`), from the fact that strict inclusion of
finite sets is well-founded.

**Orders.** A step writes one order, its payments and its reservation rows, and everything that must
be true of the copies can be said of these three alone: `Sound` says that the lines tell the
status, that the rows are what the lines wait for and what they were given, and that nothing is owed
on an order before it is confirmed. `IInv` is that, `NeverOversold`, and that an order which
`fulfill()` read with nothing waiting is over (its commit finds a changed row). For the money
`MInv` has `Paying`, the same for the payments, the stored payment status, the points and the debt
of one order, and one equation between all orders and the accounts: what drawer and customers
lost or gained (`Holdings`) is what the orders book (`Booked`). Each use case is proved in
three lemmas: what it writes, field by field (`…Does`), that it keeps the copies right
(`…Keeps`) and the money (`…Pays`). `OneOrderWritten` and `OneOrderPays` take these from one order to
the sums over all.

**Idempotency.** What an attempt found when it looked its key up may be old when it runs and
when it stores. `RunsCounted` says how often: the runs of a key, and the attempts that may still run,
are at most its overlaps and failures, and one more while an answer is stored or an attempt under way.
It is inductive because an attempt that finds nothing and nobody under way finds the answer gone,
which takes an expiry or a failure. `ReplayedIsStored` and `StoredIsRun` follow an answer from its run to the
row, which no later attempt overwrites, and from the row to whoever is told it. For the refinement an answer is
kept (`Kept`) from the commit of its operation: first by the attempt that has yet to store it, then by
the row. Attempts under way together are crowded (`TogetherIsCrowded`), and one that is alone finds the
table as it was when it looked (`AloneFindsNothing`), so that each step is an `Enter`, a `Run`, a `Leave`,
a `Replay` or a `Forget` of `AnswerOnce`, or changes nothing there (`…Refines`, one lemma per step).

**Sessions.** That a token used again is late must be known while it is still on its way:
`CarriedIsKnown` says that a token in the cookie or under way is its session's last one, in
its grace period, or late. `PromisedIsLast` says that the token an answer brings is the last
one and nowhere else yet, so that a rotation makes nothing of it late; `OpenedFirst`, that
sessions to come have no tokens. Most steps only forget tokens or end sessions, and
one lemma does for all of them (`ForgettingKeepsIInv`).
That the only session can go on needs two facts more (`GoesOn`): an answer brings a token only if it grants
the refresh (`RefusalsBringNothing`), and while that session has not ended no refresh was refused
(`NothingRefused`), so that no answer under way clears the cookie: one that denies the branch clears only
the tab's access token. Both rest on the tokens under way being
those of a session that was opened (`TokensAreOfSessions`).

**StockDocuments.** That a count is true when it is posted rests on what an entry means until
then: the number entered and the number it was set against are as far apart as the record
and the shelf still are (`EntriesAreTrue`), whatever was sold or received since. That rests
on what someone saw and has not entered (`LooksAreTrue`), and on shelves never holding less
than nothing (`ShelvesHold`): a note takes from its shelf only what is there (`OnPaperFacts`). For the note, `EveryCopySomewhere` and `NoteTellsItsLines` are
inductive with `TypeOK`; the lemma `StatusAfterTells` relates the status to the lines.

**TradingDay.** What a close promises rests on what a transaction under way may still rely on:
`Transaction` says, for each stage, which locks it has and that what it read under them is as
it was: the day whose lock it took is not closed, and the session it locked has the status and, for
the count, the cash it had then. `LockedAlone` adds that two transactions never hold one session.
So a step that commits adds to a day that no report was drawn up for, and a close, which has
the day to itself, reports what stays. `MonthsOver` says the same of a month that is closed or
about to be; its exception, `late`, is why `NoSessionLeftBehind` has one too. A second invariant on
top of it, `Drawers`, has the amounts: each within its bound, and the sales of all sessions at most
what the counter took on all days, exactly that where a session is required. The payments of a closed
day follow from these bounds: none is added to it after its report, so a reversal, which checks the
day without holding it, is all the report may miss (`ReportMissesOnlyReversals`).

That nobody waits in a circle (`ClosesNeverWaitInACircle`) needs no induction of its own. The close waits
for a transaction that holds the day and has written. If that one waits in turn, it is for its session, and
who holds the session is about to commit, or has yet to write. Only then could there be a circle, and there
the write is let past the waiting close (`AwaitedByHolder`).

**Outbox.** It all rests on the row locks (`Locks`): an event some poll has locked is pending,
and no other poll has it; `WrittenOnce` says that the sale inserts no event twice. Then
`EffectFirst` follows an event from the handler's commit to the poll's. `AccruedOncePerProcess`
is not inductive: `AccrualsCounted` counts the points of a sale and the processes that found
none and may still add one (`CheckedFor`), which together are never more than there are
processes once one has accrued. In the same way `NoticesCounted` says that the notification of an
event not yet handled was sent at most once for every crash.

**Counter.** Locks again (`IInv`): a sale and its job have each one holder, and what the holder read is
still so (`LocksHold`): the sale is completed, the job only requested. A void leaves no debt to collect and
no job to move on (`VoidedIsOver`), which gives `VoidedSalesStay`: whoever takes the lock after the void
reads the new status. `UnseenReturnsRaced` follows a void from its statement, which looks for returns, to
its commit. Of amounts only the binding fee counts there (`FeeFollowsTheJob`): none of it comes back before
a bound copy does or the job is cancelled.

A void that raced nothing undoes what the sale did because nothing else has: `NothingBackYet` says what
drawer, account and shelf hold of a sale of which nothing came back.

The amounts have an invariant of their own, `MInv`. What came back of a line is not a function of how many
copies came back, as every refund is rounded by itself; `GoodsFit` bounds it by so many shares and as many
half cents (`Fits`), and pins it when all are back. `Balanced` says that what was paid or is owed, less
what the kept copies cost, is at most a cent, *and nothing at all while a sale is owed for*: without
the second half a sale a cent short could be settled a cent shorter with every return.
`CashBackOnlyForCash` and `PointsFit` follow the methods and the points, which one rounding
takes at most half a part beyond their share. A return and a cancelled
binding share one lemma, `SettleKeepsMoney`: what is given back lowers the debt first, and the rest is
handed out. `CostsEnough` is needed at one place only, where the last copy takes what is left of the price.

**SpecialOrders.** `Transaction` says what the locks are good for: what a seller read of its order and line
is still so, and what a receipt is about to give to a line is still on order, the order being open.
A receipt does not lock the order; that a seller does not change it in between follows from
the reference of the reservation, which is why `CommitReceive` waits for `OrderKeyFree`. `OneOfEach` adds
that no two receipts give to one line and no two sellers hold one order, so that a commit which
changes a line changes nothing another transaction relies on (`Committed`). The cancelled copies that
`lockLine` may have read before its wait are none as long as the order is open
(`NothingCancelledWhileOpen`). That is `IInv`. `LInv`, on top
of it, adds up copies and links: a purchase order has one transaction that links or receives, and
a line being linked gets nothing meanwhile (`Apart`); what such a transaction read of the purchase order
is still so while the order of its line is open (`Purchase`); and what lines wait for on a purchase order is still to come or at the other
location (`Brings`). A line that raced may wait for more than comes, so `Brings` has a second case: when
all has come, every other line has its copies.

**SupplierLedger.** Every property of the run is inductive together with the types and
`AsksForSomething`: the refund that waits asks for more than nothing (`Ledger`). The sums over payments and
returns change by one row at a time. Why a refund beyond what is due implies stale sums or a
reversal is the last conjunct: with neither, the commit checked the sums that still hold.

**Only model-checked.** Every invariant and every action property of the runs is a theorem. Left to
TLC is liveness under fairness (`HandledInTheEnd`, `CloseGetsItsTurn`, `EndedSessionsAreDropped`), which
is out of the prover's reach (`StatusesAreFinal` and `ClosesNeverWaitInACircle` are the safety halves of the
first two), as are `ENABLED` and theorems that take an operator as a parameter. No
module declares a `RECURSIVE` operator.

## What the code does not keep

The following was met while modelling. Where a property is named, it states what a
comment or a consistency check of the repository says, it is in no run with the values at
which TLC refutes it: add it as an `INVARIANT` to the configuration named, with the values in brackets.

| Property | Where | What happens |
|---|---|---|
| `WithinOriginal` (`OrdersMoney.cfg`) | `receivables.service.ts:98` | a deposit is refunded and a smaller payment made: the receivable owes more than its original amount, which `db/checks/rules.ts:127` calls an error |
| `ReservedOnlyWhileOpen` (`OrdersMoney.cfg`) | `orders.service.ts:412` | a request to fulfil that read a draft completes the order confirmed meanwhile, its copies still reserved, against `rules.ts:115` |
| `NeverOverpaid` (`OrdersMoney.cfg`, `DraftRequests = {"pay"}`) | `payments.policy.ts` `checkCanPay` | a draft credit order is paid, then confirmed with a deposit or edited to a lower total |
| `AccruedOnce` (`Outbox.cfg`) | `loyaltyWorker.ts:25` | two processes handle the two events of one sale and accrue its points twice |
| `PointsOfStandingSales` (`Outbox.cfg`) | `pos.service.ts:337` | a sale voided before its points were accrued keeps them |
| `RunOnce` (`Idempotency.cfg`) | `lib/idempotency.ts:38` | two requests with one key under way at once both run, against `exchanges.controller.ts`, "a retried request with the same Idempotency-Key gets the first answer, not a second exchange" |
| `AnswersItsRequest` (`Idempotency.cfg`) | `lib/idempotency.ts:39` | another request under a key used before is given the answer of the first one: `request_hash` is read and never compared, though line 15 says it is "for collision detection" |
| `SettingAppliesAtOnce` (`Inventory.cfg`, as a `PROPERTY`) | `inventory.service.ts:307`, `:349` | a sale or a correction that waits for the row while the negative-stock setting is turned off still goes below zero, though `config.service.ts:255` says a change "applies at once to the next stock movement" |
| `LiveSessionsGoOn` (`Sessions.cfg`) | `auth.service.ts:201` | the branch or the roles of a session are refused, or their query fails, after the rotation committed: the browser keeps the replaced token, and a refresh after the grace period is taken for reuse |
| `VoidOnlyUnreturned` (`Counter.cfg`) | `pos.service.ts:306` | a void whose statement began before a return committed does not see it, and both happen |
| `PointsInProportion` (`Counter.cfg`) | `returns.policy.ts:132` | the points to take back are rounded to four decimals before they are made whole, so a return may take one more than its share: 7 copies for 300.00 that earned 7 points, 3 of them returned, lose 3 points for 2.99997 |
| `VoidReturnsWhatWasPaid` (`Counter.cfg`) | `exchanges.service.ts` `voidExchange` | what was collected on an exchange's debt is not handed back when the exchange is voided |
| `ReportIsTheDay` (`TradingDay.cfg`) | `supplierPayables.service.ts:86` | a payment of a day is reversed while that day is being closed: its report keeps the payment (`businessDays.service.ts:40`). That nothing else can be off is part of `ClosedDaysStand` |
| `NoMoreBackThanSold` (`Counter.cfg` with a sale of 4 copies for 200, which is two cents, one of them bound for 500, and `Earned = 0`) | `returns.policy.ts:47` | many copies of a few cents in all come back one at a time: each share is rounded, up if need be, and their sum passes what the line cost (such an offer is what `OffersCostEnough` leaves out of three theorems of `CounterProofs`), against the comment at line 34, "so the line never refunds more than it cost" |
| `RefundsWithinDue` (`SupplierLedger.cfg`) | `supplierPayables.service.ts:139` | a refund that waited for a delivery or another refund is checked against the sums of before; or a payment is reversed after the refund. The supplier has then paid back more than is due (`rules.ts:232`) |
| `PaidWithinTotal` (`SupplierLedger.cfg`) | `procurement.service.ts:380` | a cash order paid in advance is paid again for its goods as they arrive, against the check `procurement.paid-within-total` (`rules.ts:212`) |
| `StatusFollowsDeliveries` (`SupplierLedger.cfg`) | `procurement.service.ts:392` | on credit terms a delivery does not set the financial status, which line 59 sets "from what was received, paid and credited": goods paid in advance stay unpaid until the next movement of money |
| `RefundedDebtIsOnRecord` (`OrdersMoney.cfg`) | `receivables.service.ts:113` | a credit sale is confirmed with a deposit of its whole total, so it gets no receivable; when that deposit is refunded `reopenOnRefund` finds none and returns, though it "records what is owed again after a payment was refunded" (line 104) |

Also seen while reading, without a property of its own:

- Two links of one line made at once may promise a copy twice: `lockLine` waits in the statement
  that sums the other links (`rules.ts:462`). `LinksWithinOnOrder` leaves such lines out.
- `arrive` reserves copies without the lock on the order that `reserveForLine` asks of its
  caller. What keeps a cancelled order from getting them is the foreign key of
  `inventory_reservations.order_id`.
- Copies that arrived at another location keep their line linked to a purchase order that is
  received in full.
- A sale may be paid a cent short, and then not all of it can be returned: the last refund
  is a cent more than its payments hold.
- A cancelled binding locks the job and then its sale, a void or a return the sale and then
  the job. PostgreSQL refuses one of the two.
- A failed refresh without an answer leaves the page signed in without an access token
  until its next request (`apps/web/src/lib/auth.ts:131`). A refresh answered after a new
  sign-in may replace its cookie.
- A sale between the look at the shelf and the entry of its number becomes a difference, though
  `stockCounts.service.ts:95` says "a sale during the count is never a shortage"; a record
  set right by hand between entry and posting is set right twice. `PostedCountsAreTrue`
  leaves both out (`disturbed`).
- A note may be sent whose copies are in the record and not on the shelf, as nothing but the record is
  asked: they then arrive on paper.
- An expired key not yet cleaned up keeps the next answer from being stored.

## What is not modelled

- **Parts.** Reports, audit, notifications' texts, imports, backups, catalogue, staff,
  branch, supplier and configuration records edit one record at a time or only read;
  their correctness is unique keys, queries and wording. Document numbers come from one
  atomic upsert. Rate limits, event streams and roles are request plumbing. Row-level
  security is outside: the models look at one tenant.
- **Of the modelled parts.** Opening balances; movements of bank accounts; manual adjustments
  and merges of customers; discounts, several lines and held baskets at the counter;
  returns without a receipt; returns on an order; services on an order line; the lockout
  and the switch of branches; the statement of a supplier.
- **Row locks of orders.** Use cases of `Orders` are single actions, so that the order in which
  two of them lock stock rows or payments is not there; PostgreSQL refuses one of two
  that wait for each other, and a refused transaction leaves nothing behind. Where the
  order of locks decides what is read, it is modelled (`TradingDay`, `Counter`, `SpecialOrders`).

Most lines of the repository are screens, the description of the API, generated types,
queries of reports and tests, which keep no state of their own; the models cover the use
cases and rules that do.
