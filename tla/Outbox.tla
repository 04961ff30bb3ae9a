-------------------------------- MODULE Outbox --------------------------------
(***************************************************************************)
(* The events a counter sale writes and how they are delivered:            *)
(* lib/outbox.ts, workers/outboxPoller.ts, workers/loyaltyWorker.ts,       *)
(* workers/notificationWorker.ts, with the parts of modules/pos that write *)
(* events or take points back.                                             *)
(*                                                                         *)
(* An event is inserted by the transaction of the sale.  Each server       *)
(* process polls: one transaction locks a batch (FOR UPDATE SKIP LOCKED),  *)
(* runs the handlers one after the other, each on a connection and in a    *)
(* transaction of its own, and writes the new statuses when it commits.    *)
(* A process may die at any moment: its poll transaction is rolled back,   *)
(* what its handlers committed stays.                                      *)
(*                                                                         *)
(* A sale earns one point; one customer makes all of them.                 *)
(***************************************************************************)
EXTENDS Integers, FiniteSetsExt

CONSTANTS
  Sale,       \* counter sales with a customer
  Poller,     \* server processes
  BatchSize,  \* BATCH_SIZE
  MaxCrashes, \* bound: crashes of processes
  MaxErrors   \* bound: handlers that fail

ASSUME OutboxAssumption ==
  /\ IsFiniteSet(Sale) /\ IsFiniteSet(Poller)
  /\ BatchSize \in Nat \ {0}
  /\ MaxCrashes \in Nat
  /\ MaxErrors \in Nat

\* LoyaltyAccrualRequested from the sale and from the collection that pays it, and
\* pos.transaction_voided, which becomes a notification.
Event == Sale \X {"earn_sold", "earn_collected", "voided"}
SaleOf(e) == e[1]
IsEarn(e) == e[2] # "voided"

VARIABLES
  sale,       \* [Sale -> payment status]
  place,      \* [Event -> its place in the order of creation]
  status,     \* [Event -> status of its row]; "none": not in the table
  locked,     \* [Poller -> the events its poll transaction has locked, not yet handled]
  written,    \* [Poller -> statuses written in that transaction, not committed]
  checked,    \* [Poller -> the event whose loyalty handler has found no accrual: none or one]
  accruals,   \* [Sale -> ACCRUAL rows of loyalty_history]
  takenBack,  \* [Sale -> points taken back by the void]
  balance,    \* the customer's points
  notices,    \* [Sale -> notifications of its void]
  crashes, errors

vars == <<sale, place, status, locked, written, checked, accruals, takenBack, balance,
          notices, crashes, errors>>

saleVars == <<sale, place, accruals, takenBack, balance>>
pollVars == <<locked, written, checked>>

Writings == UNION {[events -> {"published", "failed"}] : events \in SUBSET Event}

TypeOK ==
  /\ sale \in [Sale -> {"none", "paid", "partial", "credit", "voided"}]
  /\ place \in [Event -> Nat]
  /\ status \in [Event -> {"none", "pending", "published", "failed"}]
  /\ locked \in [Poller -> SUBSET Event] /\ checked \in [Poller -> SUBSET Event]
  /\ written \in [Poller -> Writings]
  /\ accruals \in [Sale -> Nat] /\ takenBack \in [Sale -> Nat] /\ notices \in [Sale -> Nat]
  /\ balance \in Nat
  /\ crashes \in 0..MaxCrashes /\ errors \in 0..MaxErrors

Init ==
  /\ sale = [s \in Sale |-> "none"]
  /\ place = [e \in Event |-> 0]
  /\ status = [e \in Event |-> "none"]
  /\ locked = [p \in Poller |-> {}]
  /\ written = [p \in Poller |-> <<>>]
  /\ checked = [p \in Poller |-> {}]
  /\ accruals = [s \in Sale |-> 0]
  /\ takenBack = [s \in Sale |-> 0]
  /\ notices = [s \in Sale |-> 0]
  /\ balance = 0
  /\ crashes = 0 /\ errors = 0

-----------------------------------------------------------------------------
(* The sale (pos.service.ts); each is one transaction.                     *)

InsertOutbox(e) ==
  /\ place' = [place EXCEPT ![e] = 1 + Cardinality({f \in Event : status[f] # "none"})]
  /\ status' = [status EXCEPT ![e] = "pending"]

\* create: points are asked for as soon as something is paid.
Sell(s, paid) ==
  /\ sale[s] = "none"
  /\ sale' = [sale EXCEPT ![s] = paid]
  /\ IF paid = "credit" THEN UNCHANGED <<place, status>> ELSE InsertOutbox(<<s, "earn_sold">>)
  /\ UNCHANGED <<pollVars, accruals, takenBack, balance, notices, crashes, errors>>

\* recordPayment, of all that is due
Collect(s) ==
  /\ sale[s] \in {"partial", "credit"}
  /\ sale' = [sale EXCEPT ![s] = "paid"]
  /\ InsertOutbox(<<s, "earn_collected">>)
  /\ UNCHANGED <<pollVars, accruals, takenBack, balance, notices, crashes, errors>>

\* What a void takes back: the points accrued, as far as the balance allows.
TakeBack(earned, available) == Min({earned, available})

\* voidTransaction
Void(s) ==
  LET back == TakeBack(accruals[s], balance)
  IN /\ sale[s] \in {"paid", "partial", "credit"}
     /\ sale' = [sale EXCEPT ![s] = "voided"]
     /\ takenBack' = [takenBack EXCEPT ![s] = back]
     /\ balance' = balance - back
     /\ InsertOutbox(<<s, "voided">>)
     /\ UNCHANGED <<pollVars, accruals, notices, crashes, errors>>

\* The customer pays with a point (spendFromAccounts).
Redeem ==
  /\ balance > 0
  /\ balance' = balance - 1
  /\ UNCHANGED <<pollVars, sale, place, status, accruals, takenBack, notices, crashes, errors>>

-----------------------------------------------------------------------------
(* The poller (pollOnce).                                                  *)

\* Mutant: a process that died does not poll when it is started again.
MutantNoRestart(p) == locked[p] = {} /\ written[p] = <<>> /\ crashes = 0

\* No poll of the process is in flight.
Idle(p) == locked[p] = {} /\ written[p] = <<>>

\* Mutant: the rows of a batch are not locked.
MutantNoRowLocks(e) == FALSE

\* A row some poll transaction has locked, handled or not yet
Locked(e) == \E p \in Poller : e \in locked[p] \cup DOMAIN written[p]

\* ORDER BY created_at LIMIT BATCH_SIZE
Oldest(events) == {e \in events : Cardinality({f \in events : place[f] < place[e]}) < BatchSize}

\* SELECT ... WHERE status = 'pending' ... FOR UPDATE SKIP LOCKED
Poll(p) ==
  LET due == {e \in Event : status[e] = "pending" /\ ~Locked(e)}
  IN /\ Idle(p)
     /\ due # {}
     /\ locked' = [locked EXCEPT ![p] = Oldest(due)]
     /\ UNCHANGED <<saleVars, status, written, checked, notices, crashes, errors>>

\* The batch is handled in order, each event by its handler.
Handling(p, e) == e \in locked[p] /\ \A f \in locked[p] : place[e] <= place[f]

\* The handler of the event returned: its row is updated, uncommitted.
Handled(p, e, result) ==
  /\ locked' = [locked EXCEPT ![p] = @ \ {e}]
  /\ written' = [written EXCEPT ![p] = [x \in DOMAIN @ \cup {e} |-> IF x = e THEN result ELSE @[x]]]

\* The idempotency check of handleLoyaltyAccrual
AlreadyAccrued(s) == accruals[s] > 0

\* handleLoyaltyAccrual, first query: outside the transaction that follows.
CheckAccrual(p, e) ==
  /\ Handling(p, e) /\ IsEarn(e) /\ checked[p] = {}
  /\ IF AlreadyAccrued(SaleOf(e))
     THEN Handled(p, e, "published") /\ UNCHANGED checked
     ELSE checked' = [checked EXCEPT ![p] = {e}] /\ UNCHANGED <<locked, written>>
  /\ UNCHANGED <<saleVars, status, notices, crashes, errors>>

\* Its transaction: the account is locked, points and history row are written.
AddPoints(s) ==
  /\ accruals' = [accruals EXCEPT ![s] = @ + 1]
  /\ balance' = balance + 1

Accrue(p, e) ==
  /\ e \in checked[p]
  /\ AddPoints(SaleOf(e))
  /\ checked' = [checked EXCEPT ![p] = {}]
  /\ Handled(p, e, "published")
  /\ UNCHANGED <<sale, place, status, takenBack, notices, crashes, errors>>

\* The loyalty handler throws (the database refuses, an acknowledgement is lost):
\* the event has failed, with or without its points.
AccrualFails(p, e) ==
  /\ Handling(p, e) /\ IsEarn(e)
  /\ errors < MaxErrors /\ errors' = errors + 1
  /\ \/ UNCHANGED <<accruals, balance>>
     \/ e \in checked[p] /\ AddPoints(SaleOf(e))
  /\ checked' = [checked EXCEPT ![p] = {}]
  /\ Handled(p, e, "failed")
  /\ UNCHANGED <<sale, place, status, takenBack, notices, crashes>>

\* handleNotification: a failure is logged and swallowed.
Notify(p, e) ==
  /\ Handling(p, e) /\ ~IsEarn(e)
  /\ \/ notices' = [notices EXCEPT ![SaleOf(e)] = @ + 1] /\ UNCHANGED errors
     \/ errors < MaxErrors /\ errors' = errors + 1 /\ UNCHANGED notices
  /\ Handled(p, e, "published")
  /\ UNCHANGED <<saleVars, status, checked, crashes>>

\* Mutant: a commit publishes every row of the table.
MutantPublishesAll(p, e) == IF status[e] = "none" THEN "none" ELSE "published"

\* The status of a row once the poll transaction is committed
Committed(p, e) == IF e \in DOMAIN written[p] THEN written[p][e] ELSE status[e]

Commit(p) ==
  /\ locked[p] = {} /\ written[p] # <<>>
  /\ status' = [e \in Event |-> Committed(p, e)]
  /\ written' = [written EXCEPT ![p] = <<>>]
  /\ UNCHANGED <<saleVars, locked, checked, notices, crashes, errors>>

\* The process dies and is started again; the database rolls its poll back.
Crash(p) ==
  /\ crashes < MaxCrashes /\ crashes' = crashes + 1
  /\ ~Idle(p)
  /\ locked' = [locked EXCEPT ![p] = {}]
  /\ written' = [written EXCEPT ![p] = <<>>]
  /\ checked' = [checked EXCEPT ![p] = {}]
  /\ UNCHANGED <<saleVars, status, notices, errors>>

-----------------------------------------------------------------------------
PollerStep(p) ==
  \/ Poll(p)
  \/ \E e \in Event : CheckAccrual(p, e) \/ Accrue(p, e) \/ Notify(p, e)
  \/ Commit(p)

Next ==
  \/ \E s \in Sale :
       (\E paid \in {"paid", "partial", "credit"} : Sell(s, paid)) \/ Collect(s) \/ Void(s)
  \/ Redeem
  \/ \E p \in Poller : PollerStep(p) \/ Crash(p) \/ \E e \in Event : AccrualFails(p, e)

Spec == Init /\ [][Next]_vars

\* The poller's timer ticks every second for as long as the process runs.
FairSpec == Spec /\ \A p \in Poller : WF_vars(PollerStep(p))

-----------------------------------------------------------------------------
(* Properties.                                                             *)

\* loyaltyWorker.ts: "Idempotent: checks if accrual already recorded for this
\* transaction_ref".  A sale's two requests for points leave one accrual.
AccruedOnce == \A s \in Sale : accruals[s] <= 1

\* The look at the history before each accrual is enough within one process: a sale's
\* two requests, handled again after any number of crashes, are accrued at most once
\* for every process that polls.
AccruedOncePerProcess == \A s \in Sale : accruals[s] <= Cardinality(Poller)

\* An event published has had its effect: the points of its sale are on record.
PublishedMeansAccrued ==
  \A e \in Event : IsEarn(e) /\ status[e] = "published" => accruals[SaleOf(e)] >= 1

\* A notification is repeated only because a process died after sending it: without a
\* crash two processes never send it twice.
RepeatedOnlyByCrash == \A s \in Sale : notices[s] <= 1 + crashes

\* What the crashes of the pollers may repeat, and no more: a sale's points at most once for
\* every process, a notification only after a crash, and no account below zero.
RepeatedWithinBounds == TypeOK /\ AccruedOncePerProcess /\ RepeatedOnlyByCrash

\* pos.service.ts, voidTransaction: "points the sale earned are taken back".  When
\* no event is left to handle, the customer has no more points than the sales that
\* stand have earned.
PointsOfStandingSales ==
  (\A e \in Event : status[e] # "pending")
    => balance <= MapThenSumSet(LAMBDA s : accruals[s], {s \in Sale : sale[s] # "voided"})

\* Every event that was committed with its sale is handled in the end, across crashes
\* of the processes and failures of other events: none is skipped for ever.
EventuallyHandled == \A e \in Event : status[e] = "pending" ~> status[e] # "pending"

\* Its status is final: no later poll handles it again or loses it.
HandledForGood ==
  [][\A e \in Event : status[e] \in {"published", "failed"} => status'[e] = status[e]]_vars

\* Every event is handled, and then never again.
HandledInTheEnd == EventuallyHandled /\ HandledForGood
===============================================================================
