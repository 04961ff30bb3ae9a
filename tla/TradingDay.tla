------------------------------ MODULE TradingDay ------------------------------
(***************************************************************************)
(* One branch's cash sessions and the closing of its days and months:      *)
(* modules/cashSessions, modules/businessDays and the triggers of          *)
(* migration 1700000094, with the writes that meet them: counter money,    *)
(* supplier payments and their reversal.                                   *)
(*                                                                         *)
(* Every request is a transaction of several statements.  Its records are  *)
(* dated by the day it began.  The first statement that writes a guarded   *)
(* table takes the branch's day lock shared, keeps it to the end, and      *)
(* reads under it whether that day is closed; a close takes the lock       *)
(* alone.  Rows of cash_sessions are locked one at a time.  All amounts    *)
(* are one unit, and one staff member has the drawer.                      *)
(***************************************************************************)
EXTENDS Integers, FiniteSetsExt

CONSTANTS
  Worker,      \* requests that can be under way at once
  LastDay,     \* bound: days of the calendar
  MonthLength, \* days in a month
  MaxSessions, \* bound: cash sessions opened
  MaxTaken,    \* bound: counter payments
  MaxCash,     \* bound: cash in a drawer
  Required     \* isCashSessionRequired: cash is taken only with an open session

ASSUME TradingDayAssumption ==
  /\ LastDay \in Nat \ {0} /\ MonthLength \in Nat \ {0}
  /\ MaxSessions \in Nat /\ MaxTaken \in Nat /\ MaxCash \in Nat
  /\ Required \in BOOLEAN

Day == 1..LastDay
MonthOf(d) == (d - 1) \div MonthLength + 1
Month == {MonthOf(d) : d \in Day}
Session == 1..MaxSessions
Total(perDay) == SumFunction(perDay)

VARIABLES
  today,    \* the shop's local day
  dayState, \* [Day -> whether its business_days row says closed]
  report,   \* [Day -> what the row of a closed day keeps]
  monthState, \* [Month -> whether it is closed]
  summary,  \* [Month -> the reports its summary adds up, by day]
  closing,  \* the close under way, of a day or a month; it holds the lock on periods
  taken,    \* [Day -> counter payments and refunds dated that day, committed]
  paid,     \* [Day -> supplier payments not reversed]
  reversed, \* [Day -> supplier payments reversed]
  session,  \* [Session -> its row and movements]
  tx,       \* [Worker -> the transaction of its request]
  late      \* days some transaction began on and committed after

vars == <<today, dayState, report, monthState, summary, closing, taken, paid, reversed,
          session, tx, late>>
periodVars == <<dayState, report, monthState, summary, closing>>
bookVars == <<taken, paid, reversed, session, late>>

Op == {"counter", "move", "open", "close", "review", "pay_supplier", "reverse"}
Idle == [op |-> "none", day |-> 0, at |-> "idle", guard |-> FALSE, session |-> 0, expected |-> 0, of |-> 0]
NotClosing == [op |-> "none", of |-> 0]
NoReport == [taken |-> 0, supplier |-> 0, sessions |-> {}]
NoSession == [status |-> "none", opened |-> 0, sales |-> 0, cash |-> 0, expected |-> 0]

TypeOK ==
  /\ today \in Day
  /\ dayState \in [Day -> {"open", "closed"}]
  /\ report \in [Day -> [taken : 0..MaxTaken, supplier : 0..1, sessions : SUBSET Session]]
  /\ monthState \in [Month -> {"open", "closed"}]
  /\ \A m \in Month : DOMAIN summary[m] \subseteq Day
  /\ closing \in [op : {"none", "day", "month"}, of : 0..LastDay]
  /\ taken \in [Day -> 0..MaxTaken] /\ paid \in [Day -> 0..1] /\ reversed \in [Day -> 0..1]
  /\ session \in [Session -> [status : {"none", "open", "pending_review", "closed"},
                              opened : 0..LastDay, sales : 0..MaxTaken,
                              cash : 0..MaxCash, expected : 0..MaxCash]]
  /\ tx \in [Worker -> [op : Op \cup {"none"}, day : 0..LastDay,
                        at : {"idle", "begun", "read", "written", "recorded"}, guard : BOOLEAN,
                        session : 0..MaxSessions, expected : 0..MaxCash, of : 0..LastDay]]
  /\ late \subseteq Day

Init ==
  /\ today = 1
  /\ dayState = [d \in Day |-> "open"] /\ report = [d \in Day |-> NoReport]
  /\ monthState = [m \in Month |-> "open"] /\ summary = [m \in Month |-> <<>>]
  /\ closing = NotClosing
  /\ taken = [d \in Day |-> 0] /\ paid = [d \in Day |-> 0] /\ reversed = [d \in Day |-> 0]
  /\ session = [s \in Session |-> NoSession]
  /\ tx = [w \in Worker |-> Idle]
  /\ late = {}

-----------------------------------------------------------------------------
(* Locks and what they protect.                                            *)

Midnight ==
  /\ today < LastDay
  /\ today' = today + 1
  /\ UNCHANGED <<periodVars, bookVars, tx>>

\* closed_period: the day's month is closed, or the day is.
Closed(d) == monthState[MonthOf(d)] = "closed" \/ dayState[d] = "closed"

\* The drawer's open session; 0 when there is none (findOpenSession).  One at most: the
\* partial unique index of cash_sessions.
OpenSession == IF \E s \in Session : session[s].status = "open"
               THEN CHOOSE s \in Session : session[s].status = "open" ELSE 0

\* Mutant: the session is read without a lock.
MutantReadsUnlocked(w, s) == TRUE

\* No other transaction has the row of the session locked (SELECT ... FOR UPDATE).
MayLock(w, s) == \A v \in Worker \ {w} : tx[v].session # s

\* A transaction that holds the day lock waits for the session `w` has locked.  PostgreSQL's
\* deadlock detector then lets `w` past the close that waits in front of it.
AwaitedByHolder(w) ==
  \E v \in Worker \ {w} :
    /\ tx[v].guard /\ tx[v].at = "written"
    /\ tx[w].session # 0 /\ OpenSession = tx[w].session

\* Mutant: a write does not wait behind a close.
MutantOvertakes(w) == TRUE

\* lock_business_day(branch, false): a request queues behind a close that waits for the
\* lock; a transaction that has the lock has it.
SharedGranted(w) == tx[w].guard \/ closing.op # "day" \/ AwaitedByHolder(w)

\* Mutant: a close does not wait for the writes under way.
MutantClosesAtOnce == TRUE

\* lock_business_day(branch, true)
ExclusiveGranted == \A w \in Worker : ~tx[w].guard

-----------------------------------------------------------------------------
(* Requests.                                                               *)

\* BEGIN: now() and current_date are fixed.  What the request does shows in its first
\* statement.
Begin(w) ==
  /\ tx[w].at = "idle"
  /\ tx' = [tx EXCEPT ![w].day = today, ![w].at = "begun"]
  /\ UNCHANGED <<today, periodVars, bookVars>>

\* An error, or a connection lost: nothing of the transaction stays.
Rollback(w) ==
  /\ tx[w].at # "idle"
  /\ tx' = [tx EXCEPT ![w] = Idle]
  /\ UNCHANGED <<today, periodVars, bookVars>>

Refused(w) == tx' = [tx EXCEPT ![w] = Idle]

\* addMovement, close and review begin by locking the session and checking its status; a
\* close works out what the drawer should hold.
LockSession(w, op, s) ==
  /\ tx[w].at = "begun" /\ op \in {"move", "close", "review"}
  /\ session[s].status # "none"
  /\ MayLock(w, s)
  /\ IF session[s].status = (IF op = "review" THEN "pending_review" ELSE "open")
     THEN tx' = [tx EXCEPT ![w].op = op, ![w].at = "read", ![w].session = s,
                           ![w].expected = IF op = "close" THEN session[s].cash ELSE 0]
     ELSE Refused(w)
  /\ UNCHANGED <<today, periodVars, bookVars>>

\* assertChangeable: the day of the record, before this transaction has any lock on it
Changeable(d) == ~Closed(d)

\* reversePayment of a payment of day `d`, up to the check of that day
ReadPayment(w, d) ==
  /\ tx[w].at = "begun"
  /\ IF paid[d] = 1 /\ Changeable(d)
     THEN tx' = [tx EXCEPT ![w].op = "reverse", ![w].at = "read", ![w].of = d]
     ELSE Refused(w)
  /\ UNCHANGED <<today, periodVars, bookVars>>

\* refuse_closed_day raises: the transaction's own day is closed.
RefusedByTrigger(w) == Closed(tx[w].day)

\* The first guarded write (refuse_closed_day): the lock, then whether the day is closed.
\* It is the insert of the payment for counter money, of the session for an opening, and the
\* last statement of the others.
Write(w, op) ==
  /\ IF tx[w].at = "read" THEN op = tx[w].op
     ELSE tx[w].at = "begun" /\ op \in {"counter", "open", "pay_supplier"}
  /\ SharedGranted(w)
  \* The unique index waits for another opening to commit or roll back.
  /\ op = "open" => \A v \in Worker : tx[v].op # "open"
  /\ IF RefusedByTrigger(w) \/ (op = "open" /\ OpenSession # 0)
     THEN Refused(w)
     ELSE tx' = [tx EXCEPT ![w].op = op, ![w].guard = TRUE,
                           ![w].at = IF op = "counter" THEN "written" ELSE "recorded"]
  /\ UNCHANGED <<today, periodVars, bookVars>>

\* needsSession
NeedsSession == Required

\* recordCounterMoney: on the open session, locked (a row closed meanwhile is no longer
\* found); with none, refused where the branch requires one, else kept off every drawer.
RecordCounterMoney(w) ==
  LET t == tx[w]
  IN /\ t.at = "written"
     /\ IF OpenSession = 0
        THEN IF NeedsSession THEN Refused(w) ELSE tx' = [tx EXCEPT ![w].at = "recorded"]
        ELSE /\ MayLock(w, OpenSession)
             /\ tx' = [tx EXCEPT ![w].at = "recorded", ![w].session = OpenSession]
     /\ UNCHANGED <<today, periodVars, bookVars>>

-----------------------------------------------------------------------------
(* What a commit leaves.                                                   *)

\* insertMovement, of `amount`: in or out
WithMovement(row, op, amount) ==
  [row EXCEPT !.cash = @ + amount, !.sales = IF op = "counter" THEN @ + 1 ELSE @]

\* closeOutcome: the count is off by more than the limit, or not.
CloseOutcome == {"closed", "pending_review"}

\* A payment taken in cash
CommitMoney(w) ==
  LET t == tx[w]
  IN /\ t.op = "counter"
     /\ Total(taken) < MaxTaken /\ (t.session # 0 => session[t.session].cash < MaxCash)
     /\ taken' = [taken EXCEPT ![t.day] = @ + 1]
     /\ session' = IF t.session = 0 THEN session
                    ELSE [session EXCEPT ![t.session] = WithMovement(@, t.op, 1)]
     /\ UNCHANGED <<paid, reversed>>

\* checkCanPayOut: no more than the drawer holds
CanPayOut(s) == session[s].cash >= 1

\* addMovement: money put in, or taken out
CommitMovement(w) ==
  LET t == tx[w]
  IN /\ t.op = "move"
     /\ \E amount \in {1, -1} :
          /\ IF amount = -1 THEN CanPayOut(t.session) ELSE session[t.session].cash < MaxCash
          /\ session' = [session EXCEPT ![t.session] = WithMovement(@, t.op, amount)]
     /\ UNCHANGED <<taken, paid, reversed>>

CommitOpen(w) ==
  /\ tx[w].op = "open"
  /\ \E s \in Session :
       /\ session[s].status = "none" /\ \A r \in 1..(s - 1) : session[r].status # "none"
       /\ session' = [session EXCEPT ![s] = [NoSession EXCEPT !.status = "open", !.opened = tx[w].day]]
  /\ UNCHANGED <<taken, paid, reversed>>

CommitClose(w) ==
  /\ tx[w].op = "close"
  /\ \E status \in CloseOutcome :
       session' = [session EXCEPT ![tx[w].session].status = status, ![tx[w].session].expected = tx[w].expected]
  /\ UNCHANGED <<taken, paid, reversed>>

CommitReview(w) ==
  /\ tx[w].op = "review"
  /\ session' = [session EXCEPT ![tx[w].session].status = "closed"]
  /\ UNCHANGED <<taken, paid, reversed>>

\* recordPayment of a purchase order; one is enough to be reversed.
CommitPayment(w) ==
  /\ tx[w].op = "pay_supplier"
  /\ Total(paid) + Total(reversed) = 0
  /\ paid' = [paid EXCEPT ![tx[w].day] = 1]
  /\ UNCHANGED <<taken, reversed, session>>

\* reversePayment; the payment is locked, so it is reversed once.
CommitReversal(w) ==
  /\ tx[w].op = "reverse"
  /\ paid[tx[w].of] = 1
  /\ paid' = [paid EXCEPT ![tx[w].of] = 0]
  /\ reversed' = [reversed EXCEPT ![tx[w].of] = 1]
  /\ UNCHANGED <<taken, session>>

Commit(w) ==
  /\ tx[w].at = "recorded"
  /\ \/ CommitMoney(w) \/ CommitMovement(w) \/ CommitOpen(w) \/ CommitClose(w) \/ CommitReview(w)
     \/ CommitPayment(w) \/ CommitReversal(w)
  /\ tx' = [tx EXCEPT ![w] = Idle]
  /\ late' = IF today > tx[w].day THEN late \cup {tx[w].day} ELSE late
  /\ UNCHANGED <<today, periodVars>>

-----------------------------------------------------------------------------
(* Days and months (businessDays.service.ts); lockPeriods lets one through *)
(* at a time.                                                              *)

\* Mutant: reopening does not take the lock on periods.
MutantUnserialized == TRUE

PeriodsFree == closing.op = "none"

StartCloseDay(d) ==
  /\ PeriodsFree
  /\ d <= today
  /\ closing' = [op |-> "day", of |-> d]
  /\ UNCHANGED <<today, dayState, report, monthState, summary, bookVars, tx>>

\* openCashSessions: opened on the day or before and not closed
SessionsNotClosed(d) ==
  {s \in Session : session[s].status \in {"open", "pending_review"} /\ session[s].opened <= d}

\* checkDayClosable
DayClosable(d) ==
  /\ monthState[MonthOf(d)] # "closed"
  /\ dayState[d] # "closed"
  /\ SessionsNotClosed(d) = {}

\* dayFigures and dayReport: money of the day, and the sessions opened on it and closed
Figures(d) ==
  [taken |-> taken[d], supplier |-> paid[d],
   sessions |-> {s \in Session : session[s].status = "closed" /\ session[s].opened = d}]

\* closeDay once it has the branch's lock: the checks, the report, the row, the commit.
CloseDay ==
  /\ closing.op = "day" /\ ExclusiveGranted
  /\ IF DayClosable(closing.of)
     THEN /\ dayState' = [dayState EXCEPT ![closing.of] = "closed"]
          /\ report' = [report EXCEPT ![closing.of] = Figures(closing.of)]
     ELSE UNCHANGED <<dayState, report>>
  /\ closing' = NotClosing
  /\ UNCHANGED <<today, monthState, summary, bookVars, tx>>

\* checkReopenable and checkMonthOpenForDay.  The row keeps its report, which nothing reads
\* until the day is closed again.
ReopenDay(d) ==
  /\ PeriodsFree
  /\ dayState[d] = "closed" /\ monthState[MonthOf(d)] # "closed"
  /\ dayState' = [dayState EXCEPT ![d] = "open"]
  /\ report' = [report EXCEPT ![d] = NoReport]
  /\ UNCHANGED <<today, monthState, summary, closing, bookVars, tx>>

DaysOf(m) == {d \in Day : MonthOf(d) = m}

\* A day with anything recorded in the branch, among committed rows
Worked(d) == taken[d] > 0 \/ paid[d] + reversed[d] > 0 \/ \E s \in Session : session[s].opened = d

\* openDaysOf
OpenDaysOf(m) == {d \in DaysOf(m) : Worked(d) /\ dayState[d] # "closed"}

\* checkMonthClosable
MonthClosable(m) ==
  /\ \A d \in DaysOf(m) : d < today
  /\ monthState[m] # "closed" /\ OpenDaysOf(m) = {}

\* monthSummary of closedDaysOf: what it adds up
SummaryOf(m) == [d \in {d \in DaysOf(m) : dayState[d] = "closed"} |-> report[d]]

\* closeMonth up to its checks ...
StartCloseMonth(m) ==
  /\ PeriodsFree
  /\ MonthClosable(m)
  /\ summary' = [summary EXCEPT ![m] = SummaryOf(m)]
  /\ closing' = [op |-> "month", of |-> m]
  /\ UNCHANGED <<today, dayState, report, monthState, bookVars, tx>>

\* ... and its commit.
CloseMonth ==
  /\ closing.op = "month"
  /\ monthState' = [monthState EXCEPT ![closing.of] = "closed"]
  /\ closing' = NotClosing
  /\ UNCHANGED <<today, dayState, report, summary, bookVars, tx>>

ReopenMonth(m) ==
  /\ PeriodsFree
  /\ monthState[m] = "closed"
  /\ monthState' = [monthState EXCEPT ![m] = "open"]
  /\ summary' = [summary EXCEPT ![m] = <<>>]
  /\ UNCHANGED <<today, dayState, report, closing, bookVars, tx>>

-----------------------------------------------------------------------------
WorkerStep(w) ==
  \/ \E op \in Op : Write(w, op) \/ \E s \in Session : LockSession(w, op, s)
  \/ \E d \in Day : ReadPayment(w, d)
  \/ RecordCounterMoney(w)
  \/ Commit(w)

Next ==
  \/ Midnight
  \/ \E w \in Worker :
       \/ Begin(w)
       \/ WorkerStep(w)
       \/ Rollback(w)
  \/ \E d \in Day : StartCloseDay(d) \/ ReopenDay(d)
  \/ CloseDay
  \/ \E m \in Month : StartCloseMonth(m) \/ ReopenMonth(m)
  \/ CloseMonth

Spec == Init /\ [][Next]_vars

\* A transaction under way goes on to its end (it may fail), and so does a close: they are
\* functions that are running, on connections of their own.
FairSpec ==
  /\ Spec
  /\ \A w \in Worker : WF_vars(WorkerStep(w) \/ Rollback(w))
  /\ WF_vars(CloseDay) /\ WF_vars(CloseMonth)

-----------------------------------------------------------------------------
(* Properties.                                                             *)

\* businessDays.service.ts, closeDay: "so the report counts everything the day holds".
\* Counter money dated a closed day, and the cash sessions opened on it, are the ones in
\* its report: no transaction that began before the close adds to the day after it, on
\* either side of midnight.
ReportCountsTheDay ==
  \A d \in Day : dayState[d] = "closed"
    => report[d].taken = Figures(d).taken /\ report[d].sessions = Figures(d).sessions

\* assertChangeable: "Refuses, in the caller's transaction, a change to a record ... when
\* that day or its month is closed".  The money of a closed day stays what its report says.
ReportIsTheDay ==
  \A d \in Day : dayState[d] = "closed" => report[d].supplier = paid[d]

\* What holds of it (supplierPayables.service.ts:86): the report of a closed day is off by at
\* most the payment that was in it and has been reversed since.  No payment is added to a day
\* after its report, and none that was reversed before is in it.
ReportMissesOnlyReversals ==
  \A d \in Day : dayState[d] = "closed" =>
    \/ report[d].supplier = paid[d]
    \/ report[d].supplier = 1 /\ paid[d] = 0 /\ reversed[d] = 1

\* A day closes only over sessions that are closed, and none is opened on it afterwards.  An
\* earlier day can gain one: from a request that ran over midnight.
NoSessionLeftBehind ==
  \A d \in Day : dayState[d] = "closed"
    => \A s \in SessionsNotClosed(d) : session[s].opened \in late \ {d}

\* cashSessions.service.ts: "each locks the session, so a movement and the close take
\* turns".  What a counted session was expected to hold is its float and all its movements.
CountedInFull ==
  \A s \in Session : session[s].status \in {"pending_review", "closed"}
    => session[s].expected = session[s].cash

\* Where the branch requires a session, no counter cash is outside every drawer.
CashHasADrawer ==
  Required => Total(taken) = SumFunction([s \in Session |-> session[s].sales])

\* Drawers add up: with or without a session the counter's cash is in one drawer, none is
\* overdrawn, and a count is set against everything that was in it.
DrawersAddUp == TypeOK /\ CountedInFull /\ CashHasADrawer

\* A closed day stands: its report holds all its counter money and all its sessions, and its
\* payments but for a reversal that raced the close.
ClosedDaysStand == ReportCountsTheDay /\ NoSessionLeftBehind /\ ReportMissesOnlyReversals

\* A closed month covers only days that are closed, except a day to which a transaction
\* that ran over midnight added after the month had been worked out.
MonthMissesOnlyLateWrites ==
  \A m \in Month : monthState[m] = "closed" => OpenDaysOf(m) \subseteq late

\* A closed month's summary stays the sum of its days' reports: none of them is closed,
\* reopened or closed again with another report while the month is closed.
MonthSumsItsDays ==
  \A m \in Month : monthState[m] = "closed" => summary[m] = SummaryOf(m)

\* A closed month stands: over closed days, and as the sum of their reports.
ClosedMonthsStand == MonthMissesOnlyLateWrites /\ MonthSumsItsDays

\* A close that waits for the writes under way gets its turn: the writes that come after
\* it wait behind it, and what it waits for never waits for it.
CloseGetsItsTurn == closing.op = "day" ~> closing.op # "day"
===============================================================================
