--------------------------- MODULE TradingDayProofs ---------------------------
(***************************************************************************)
(* What the locks of TradingDay are good for, for any number of workers,   *)
(* days, months, sessions and payments: closed days and closed months      *)
(* stand, and a counted session was counted in full.                       *)
(*                                                                         *)
(* The inductive invariant is IInv.  Its core is Transaction: what a       *)
(* transaction under way has read or locked is still as it found it.       *)
(*                                                                         *)
(* On top of it a second one, Drawers, adds up the money of the drawers    *)
(* and bounds every amount; the lemmas on sums are those of SumTheorems.   *)
(*                                                                         *)
(* Two results follow from both: the payments a report may miss, and that  *)
(* the close of a day and the transactions it waits for never wait for     *)
(* each other in a circle.                                                 *)
(***************************************************************************)
EXTENDS TradingDay, SumTheorems, TLAPS

Transactions ==
  [op : Op \cup {"none"}, day : Nat, at : {"idle", "begun", "read", "written", "recorded"},
   guard : BOOLEAN, session : Nat, expected : Int, of : Nat]

SessionRows ==
  [status : {"none", "open", "pending_review", "closed"}, opened : Nat, sales : Int, cash : Int,
   expected : Int]

\* As TypeOK, without the bounds of counters.
Shape ==
  /\ today \in Day
  /\ dayState \in [Day -> {"open", "closed"}]
  /\ report \in [Day -> [taken : Nat, supplier : Nat, sessions : SUBSET Session]]
  /\ monthState \in [Month -> {"open", "closed"}]
  /\ summary = [m \in Month |-> summary[m]]
  /\ closing \in [op : {"none", "day", "month"}, of : Nat]
  /\ taken \in [Day -> Nat] /\ paid \in [Day -> Nat] /\ reversed \in [Day -> Nat]
  /\ session \in [Session -> SessionRows]
  /\ tx \in [Worker -> Transactions]
  /\ late \subseteq Day

\* Where a transaction is tells which locks it has; the day it holds is not closed, and the
\* session it has locked is as it was when it was locked.
Transaction(t) ==
  /\ t.at = "idle" => t.op = "none"
  /\ t.at # "idle" => t.day \in Day /\ t.day <= today
  /\ t.at \in {"idle", "begun"} => t.session = 0
  /\ t.at \in {"written", "recorded"} <=> t.guard
  /\ t.at = "read" => t.op # "counter"
  /\ t.at = "written" => t.op = "counter" /\ t.session = 0
  /\ t.at = "recorded" => t.op \in Op
  /\ t.op \in {"move", "close", "review"} <=> (t.session # 0 /\ t.op # "counter")
  /\ t.op = "reverse" => t.of \in Day
  /\ t.guard => dayState[t.day] # "closed"
  /\ t.session # 0 =>
       /\ t.session \in Session
       /\ session[t.session].status = IF t.op = "review" THEN "pending_review" ELSE "open"
       /\ t.op = "close" => t.expected = session[t.session].cash

TransactionsOK == \A w \in Worker : Transaction(tx[w])

LockedAlone ==
  \A v, w \in Worker : tx[v].session = tx[w].session /\ tx[v].session # 0 => v = w

OpenedOnADay ==
  \A s \in Session : IF session[s].status = "none" THEN session[s].opened = 0
                                                   ELSE session[s].opened \in Day

ClosedDaysArePast ==
  /\ \A d \in Day : dayState[d] = "closed" => d <= today
  /\ closing.op = "day" => closing.of \in Day /\ closing.of <= today

\* A month that is closed, or about to be: it is over, its days are closed but for late
\* writes, and its summary is that of their reports.
MonthOver(m) ==
  /\ \A d \in DaysOf(m) : d < today
  /\ OpenDaysOf(m) \subseteq late
  /\ summary[m] = SummaryOf(m)

MonthsOver ==
  /\ \A m \in Month : monthState[m] = "closed" => MonthOver(m)
  /\ closing.op = "month" => closing.of \in Month /\ MonthOver(closing.of)

\* The counter money and the sessions of closed days; payments follow in PaymentsReported.
DaysStand == ReportCountsTheDay /\ NoSessionLeftBehind

IInv ==
  /\ Shape
  /\ TransactionsOK
  /\ LockedAlone
  /\ OpenedOnADay
  /\ ClosedDaysArePast
  /\ DaysStand
  /\ CountedInFull
  /\ MonthsOver

-----------------------------------------------------------------------------
LEMMA MonthOfDay == \A d \in Day : MonthOf(d) \in Month
  BY DEF Month

LEMMA InitIInv == Init => IInv
<1> SUFFICES ASSUME Init PROVE IInv
  OBVIOUS
<1> USE TradingDayAssumption DEF Init
<1>1. Shape
  BY DEF Shape, Day, Session, NoReport, NotClosing, NoSession, Idle, SessionRows, Transactions, Op
<1>2. TransactionsOK /\ LockedAlone
  BY DEF TransactionsOK, Transaction, LockedAlone, Idle, Op
<1>3. OpenedOnADay /\ CountedInFull
  BY DEF OpenedOnADay, CountedInFull, NoSession
<1>4. ClosedDaysArePast /\ DaysStand /\ MonthsOver
  BY DEF ClosedDaysArePast, DaysStand, ReportCountsTheDay, NoSessionLeftBehind, MonthsOver, NotClosing
<1> QED BY <1>1, <1>2, <1>3, <1>4 DEF IInv

\* The open session is open.
LEMMA OpenSessionIsOpen ==
  OpenSession # 0 => OpenSession \in Session /\ session[OpenSession].status = "open"
  BY DEF OpenSession

-----------------------------------------------------------------------------
(* Steps of a transaction before its commit.                               *)

LEMMA OnlyTheTransaction ==
  ASSUME IInv, NEW w \in Worker, NEW r \in Transactions, tx' = [tx EXCEPT ![w] = r],
         UNCHANGED <<today, periodVars, bookVars>>,
         Transaction(r), \A v \in Worker \ {w} : r.session # 0 => tx[v].session # r.session
  PROVE  IInv'
<1> USE DEF periodVars, bookVars
<1>1. tx'[w] = r /\ \A v \in Worker \ {w} : tx'[v] = tx[v]
  BY DEF IInv, Shape
<1>2. Shape'
  BY DEF IInv, Shape
<1>3. TransactionsOK'
  BY <1>1 DEF IInv, TransactionsOK, Transaction
<1>4. LockedAlone'
  BY <1>1 DEF IInv, LockedAlone
<1>5. OpenedOnADay' /\ ClosedDaysArePast' /\ CountedInFull'
  BY DEF IInv, OpenedOnADay, ClosedDaysArePast, CountedInFull
<1>6. DaysStand'
  BY DEF IInv, DaysStand, ReportCountsTheDay, NoSessionLeftBehind, Figures, SessionsNotClosed
<1>7. MonthsOver'
  BY DEF IInv, MonthsOver, MonthOver, OpenDaysOf, SummaryOf, Worked
<1> QED BY <1>2, <1>3, <1>4, <1>5, <1>6, <1>7 DEF IInv

LEMMA IdleIsOK == Idle \in Transactions /\ Transaction(Idle) /\ Idle.session = 0
  BY DEF Idle, Transactions, Transaction, Op

LEMMA BeginKeeps == ASSUME IInv, NEW w \in Worker, Begin(w) PROVE IInv'
<1> DEFINE r == [tx[w] EXCEPT !.day = today, !.at = "begun"]
<1>1. tx[w] \in Transactions /\ Transaction(tx[w]) /\ tx[w].at = "idle" /\ today \in Day /\ Day \subseteq Nat
  BY DEF IInv, Shape, TransactionsOK, Begin, Day
<1>2. tx' = [tx EXCEPT ![w] = r]
  BY DEF Begin
<1>3. /\ r \in Transactions /\ r.op = tx[w].op /\ r.day = today /\ r.at = "begun"
      /\ r.guard = tx[w].guard /\ r.session = tx[w].session
  BY <1>1 DEF Transactions
<1> HIDE DEF r
<1>4. Transaction(r) /\ r.session = 0
  BY <1>1, <1>3 DEF Transaction, Day
<1> QED BY <1>2, <1>3, <1>4, OnlyTheTransaction DEF Begin

LEMMA RefusedKeeps ==
  ASSUME IInv, NEW w \in Worker, Refused(w), UNCHANGED <<today, periodVars, bookVars>> PROVE IInv'
  BY IdleIsOK, OnlyTheTransaction DEF Refused

LEMMA LockSessionKeeps ==
  ASSUME IInv, NEW w \in Worker, NEW op \in Op, NEW s \in Session, LockSession(w, op, s) PROVE IInv'
<1> DEFINE holds == IF op = "close" THEN session[s].cash ELSE 0
           r == [tx[w] EXCEPT !.op = op, !.at = "read", !.session = s, !.expected = holds]
<1>1. CASE Refused(w)
  BY <1>1, RefusedKeeps DEF LockSession
<1>2. CASE /\ tx' = [tx EXCEPT ![w] = r]
           /\ session[s].status = IF op = "review" THEN "pending_review" ELSE "open"
  <2>1. /\ tx[w] \in Transactions /\ Transaction(tx[w]) /\ tx[w].at = "begun"
        /\ op \in {"move", "close", "review"} /\ s \in Nat /\ s # 0 /\ session[s] \in SessionRows
    BY TradingDayAssumption DEF IInv, Shape, TransactionsOK, LockSession, Session
  <2>2. holds \in Int /\ (op = "close" => holds = session[s].cash)
    BY <2>1 DEF SessionRows
  <2> HIDE DEF holds
  <2>3. /\ r \in Transactions /\ r.op = op /\ r.at = "read" /\ r.session = s
        /\ r.day = tx[w].day /\ r.guard = tx[w].guard
        /\ op = "close" => r.expected = session[s].cash
    <3> DEFINE q == [tx[w] EXCEPT !.op = op, !.at = "read"]
    <3>1. q \in Transactions /\ q.op = op /\ q.at = "read" /\ q.day = tx[w].day /\ q.guard = tx[w].guard
      BY <2>1 DEF Transactions
    <3>2. r = [q EXCEPT !.session = s, !.expected = holds]
      OBVIOUS
    <3> HIDE DEF q, r
    <3> QED BY <2>1, <2>2, <3>1, <3>2 DEF Transactions
  <2> HIDE DEF r
  <2>4. Transaction(r)
    BY <1>2, <2>1, <2>3 DEF Transaction
  <2> QED BY <1>2, <2>3, <2>4, OnlyTheTransaction DEF LockSession, MayLock
<1> QED BY <1>1, <1>2 DEF LockSession

LEMMA ReadPaymentKeeps == ASSUME IInv, NEW w \in Worker, NEW d \in Day, ReadPayment(w, d) PROVE IInv'
<1> DEFINE r == [tx[w] EXCEPT !.op = "reverse", !.at = "read", !.of = d]
<1>1. CASE Refused(w)
  BY <1>1, RefusedKeeps DEF ReadPayment
<1>2. CASE tx' = [tx EXCEPT ![w] = r]
  <2>1. tx[w] \in Transactions /\ Transaction(tx[w]) /\ tx[w].at = "begun" /\ d \in Nat
    BY DEF IInv, Shape, TransactionsOK, ReadPayment, Day
  <2>2. r \in Transactions /\ Transaction(r) /\ r.session = 0
    BY <2>1 DEF Transactions, Transaction, Op
  <2> HIDE DEF r
  <2> QED BY <1>2, <2>2, OnlyTheTransaction DEF ReadPayment
<1> QED BY <1>1, <1>2 DEF ReadPayment

LEMMA WriteKeeps == ASSUME IInv, NEW w \in Worker, NEW op \in Op, Write(w, op) PROVE IInv'
<1> DEFINE r == [tx[w] EXCEPT !.op = op, !.guard = TRUE,
                              !.at = IF op = "counter" THEN "written" ELSE "recorded"]
<1>1. CASE Refused(w)
  BY <1>1, RefusedKeeps DEF Write
<1>2. CASE tx' = [tx EXCEPT ![w] = r] /\ ~RefusedByTrigger(w)
  <2>1. tx[w] \in Transactions /\ Transaction(tx[w]) /\ dayState[tx[w].day] # "closed"
    BY <1>2 DEF IInv, Shape, TransactionsOK, RefusedByTrigger, Closed
  <2>2. \/ tx[w].at = "read" /\ op = tx[w].op
        \/ tx[w].at = "begun" /\ op \in {"counter", "open", "pay_supplier"}
    BY DEF Write
  <2>3. r \in Transactions /\ r.session = tx[w].session /\ Transaction(r)
    BY <2>1, <2>2 DEF Transactions, Transaction, Op
  <2> HIDE DEF r
  <2>4. \A v \in Worker \ {w} : r.session # 0 => tx[v].session # r.session
    BY <2>3 DEF IInv, LockedAlone
  <2> QED BY <1>2, <2>3, <2>4, OnlyTheTransaction DEF Write
<1> QED BY <1>1, <1>2 DEF Write

LEMMA RecordKeeps == ASSUME IInv, NEW w \in Worker, RecordCounterMoney(w) PROVE IInv'
<1>1. CASE Refused(w)
  BY <1>1, RefusedKeeps DEF RecordCounterMoney
<1>2. tx[w] \in Transactions /\ Transaction(tx[w]) /\ tx[w].at = "written"
  BY DEF IInv, Shape, TransactionsOK, RecordCounterMoney
<1>3. CASE tx' = [tx EXCEPT ![w].at = "recorded"]
  <2> DEFINE r == [tx[w] EXCEPT !.at = "recorded"]
  <2>1. r \in Transactions /\ r.session = tx[w].session /\ Transaction(r)
    BY <1>2 DEF Transactions, Transaction, Op
  <2>2. tx' = [tx EXCEPT ![w] = r]
    BY <1>3
  <2> HIDE DEF r
  <2>3. \A v \in Worker \ {w} : r.session # 0 => tx[v].session # r.session
    BY <2>1 DEF IInv, LockedAlone
  <2> QED BY <2>1, <2>2, <2>3, OnlyTheTransaction DEF RecordCounterMoney
<1>4. CASE /\ OpenSession # 0 /\ MayLock(w, OpenSession)
           /\ tx' = [tx EXCEPT ![w].at = "recorded", ![w].session = OpenSession]
  <2> DEFINE s == OpenSession
             r == [tx[w] EXCEPT !.at = "recorded", !.session = s]
  <2>1. s \in Session /\ session[s].status = "open" /\ s \in Nat /\ s # 0
    BY <1>4, OpenSessionIsOpen, TradingDayAssumption DEF Session
  <2>2. tx' = [tx EXCEPT ![w] = r] /\ \A v \in Worker \ {w} : tx[v].session # s
    BY <1>4 DEF MayLock
  <2> HIDE DEF s
  <2>3. r \in Transactions /\ r.session = s /\ Transaction(r)
    BY <1>2, <2>1 DEF Transactions, Transaction, Op
  <2> HIDE DEF r
  <2> QED BY <2>2, <2>3, OnlyTheTransaction DEF RecordCounterMoney
<1> QED BY <1>1, <1>3, <1>4 DEF RecordCounterMoney

-----------------------------------------------------------------------------
(* Commits.                                                                *)

\* What a commit may do to a session: to one it has locked, or to a new one.
SessionStep(t, s) ==
  \/ session'[s] = session[s]
  \/ /\ t.session = s /\ session'[s].opened = session[s].opened
     /\ \/ session'[s].status = session[s].status /\ session[s].status = "open"
        \/ /\ session[s].status \in {"open", "pending_review"}
           /\ session'[s].status \in {"pending_review", "closed"}
           /\ session'[s].cash = session[s].cash
           /\ session'[s].expected = IF session[s].status = "open" THEN session[s].cash ELSE session[s].expected
  \/ /\ session[s].status = "none"
     /\ session'[s].status = "open" /\ session'[s].opened = t.day

LEMMA CommitFacts ==
  ASSUME IInv, NEW w \in Worker, Commit(w)
  PROVE  /\ tx[w] \in Transactions /\ Transaction(tx[w]) /\ tx[w].at = "recorded" /\ tx[w].guard
         /\ tx[w].day \in Day /\ tx[w].day <= today /\ dayState[tx[w].day] # "closed"
         /\ today \in Day /\ Day \subseteq Nat
         /\ session \in [Session -> SessionRows]
<1>1. tx[w] \in Transactions /\ Transaction(tx[w]) /\ tx[w].at = "recorded"
  BY DEF IInv, Shape, TransactionsOK, Commit
<1>2. today \in Day /\ Day \subseteq Nat /\ session \in [Session -> SessionRows]
  BY DEF IInv, Shape, Day
<1> QED BY <1>1, <1>2 DEF Transaction

LEMMA MovedRow ==
  ASSUME NEW row \in SessionRows, NEW op, NEW amount \in {1, -1}
  PROVE  /\ WithMovement(row, op, amount) \in SessionRows
         /\ WithMovement(row, op, amount).status = row.status
         /\ WithMovement(row, op, amount).opened = row.opened
<1> DEFINE q == [row EXCEPT !.cash = @ + amount]
           sales == IF op = "counter" THEN row.sales + 1 ELSE row.sales
<1>1. q \in SessionRows /\ q.status = row.status /\ q.opened = row.opened /\ sales \in Int
  BY DEF SessionRows
<1>2. WithMovement(row, op, amount) = [q EXCEPT !.sales = sales]
  BY DEF WithMovement
<1> HIDE DEF q, sales
<1>3. /\ [q EXCEPT !.sales = sales] \in SessionRows
      /\ [q EXCEPT !.sales = sales].status = q.status /\ [q EXCEPT !.sales = sales].opened = q.opened
  BY <1>1 DEF SessionRows
<1> QED BY <1>1, <1>2, <1>3

LEMMA MoneySessions ==
  ASSUME IInv, NEW w \in Worker, Commit(w), CommitMoney(w) \/ CommitMovement(w)
  PROVE  session' \in [Session -> SessionRows] /\ \A s \in Session : SessionStep(tx[w], s)
<1> DEFINE t == tx[w]
<1>1. CASE session' = session
  BY <1>1, CommitFacts DEF SessionStep
<1>2. CASE session' # session
  <2>1. PICK amount \in {1, -1} : session' = [session EXCEPT ![t.session] = WithMovement(@, t.op, amount)]
    BY <1>2 DEF CommitMoney, CommitMovement
  <2>2. t.session \in Session /\ t.op # "review" /\ session[t.session].status = "open"
    <3>1. t.session # 0
      BY <1>2, CommitFacts DEF CommitMoney, CommitMovement, Transaction
    <3>2. t.op \in {"counter", "move"}
      BY DEF CommitMoney, CommitMovement
    <3> QED BY <3>1, <3>2, CommitFacts DEF Transaction
  <2> DEFINE row == WithMovement(session[t.session], t.op, amount)
  <2>3. /\ row \in SessionRows /\ row.status = "open"
        /\ row.opened = session[t.session].opened
    BY <2>2, CommitFacts, MovedRow
  <2>4. session' = [session EXCEPT ![t.session] = row]
    BY <2>1
  <2> HIDE DEF row
  <2> QED BY <2>2, <2>3, <2>4, CommitFacts DEF SessionStep
<1> QED BY <1>1, <1>2

LEMMA CountSessions ==
  ASSUME IInv, NEW w \in Worker, Commit(w), CommitClose(w) \/ CommitReview(w)
  PROVE  session' \in [Session -> SessionRows] /\ \A s \in Session : SessionStep(tx[w], s)
<1> DEFINE t == tx[w]
           s == t.session
<1>1. /\ s \in Session /\ t.op \in {"close", "review"}
      /\ session[s].status = IF t.op = "review" THEN "pending_review" ELSE "open"
      /\ t.op = "close" => t.expected = session[s].cash
  <2>1. t.op \in {"close", "review"}
    BY DEF CommitClose, CommitReview
  <2> QED BY <2>1, CommitFacts DEF Transaction
<1>2. CASE t.op = "close"
  <2>1. PICK status \in CloseOutcome :
          session' = [session EXCEPT ![s].status = status, ![s].expected = t.expected]
    BY <1>2 DEF CommitClose, CommitReview
  <2> DEFINE row == [session[s] EXCEPT !.status = status, !.expected = t.expected]
  <2>2. /\ row \in SessionRows /\ row.status \in {"pending_review", "closed"}
        /\ row.opened = session[s].opened /\ row.cash = session[s].cash /\ row.expected = t.expected
    <3> DEFINE q == [session[s] EXCEPT !.status = status]
    <3>1. /\ q \in SessionRows /\ q.status \in {"pending_review", "closed"}
          /\ q.opened = session[s].opened /\ q.cash = session[s].cash
      BY <1>1, CommitFacts DEF SessionRows, CloseOutcome
    <3>2. t.expected \in Int
      BY CommitFacts DEF Transactions
    <3>3. row = [q EXCEPT !.expected = t.expected]
      OBVIOUS
    <3> HIDE DEF q, row, t
    <3> QED BY <3>1, <3>2, <3>3 DEF SessionRows
  <2>3. session' = [session EXCEPT ![s] = row]
    BY <1>1, <2>1, CommitFacts
  <2> HIDE DEF row
  <2> QED BY <1>1, <1>2, <2>2, <2>3, CommitFacts DEF SessionStep
<1>3. CASE t.op = "review"
  <2> DEFINE row == [session[s] EXCEPT !.status = "closed"]
  <2>1. /\ row \in SessionRows /\ row.status = "closed" /\ row.opened = session[s].opened
        /\ row.cash = session[s].cash /\ row.expected = session[s].expected
    BY <1>1, CommitFacts DEF SessionRows
  <2>2. session' = [session EXCEPT ![s] = row]
    BY <1>3 DEF CommitClose, CommitReview
  <2> HIDE DEF row
  <2> QED BY <1>1, <1>3, <2>1, <2>2, CommitFacts DEF SessionStep
<1> QED BY <1>1, <1>2, <1>3

LEMMA OpenSessions ==
  ASSUME IInv, NEW w \in Worker, Commit(w), CommitOpen(w)
  PROVE  session' \in [Session -> SessionRows] /\ \A s \in Session : SessionStep(tx[w], s)
<1>1. PICK s \in Session :
        /\ session[s].status = "none"
        /\ session' = [session EXCEPT ![s] = [NoSession EXCEPT !.status = "open", !.opened = tx[w].day]]
  BY DEF CommitOpen
<1> DEFINE row == [NoSession EXCEPT !.status = "open", !.opened = tx[w].day]
<1>2. row \in SessionRows /\ row.status = "open" /\ row.opened = tx[w].day
  <2> DEFINE q == [NoSession EXCEPT !.status = "open"]
  <2>1. q \in SessionRows /\ q.status = "open" /\ tx[w].day \in Nat
    BY CommitFacts DEF SessionRows, NoSession
  <2>2. row = [q EXCEPT !.opened = tx[w].day]
    OBVIOUS
  <2> HIDE DEF q, row
  <2> QED BY <2>1, <2>2 DEF SessionRows
<1>3. session' = [session EXCEPT ![s] = row]
  BY <1>1
<1> HIDE DEF row
<1> QED BY <1>1, <1>2, <1>3, CommitFacts DEF SessionStep

LEMMA CommitSessions ==
  ASSUME IInv, NEW w \in Worker, Commit(w)
  PROVE  session' \in [Session -> SessionRows] /\ \A s \in Session : SessionStep(tx[w], s)
<1>1. CASE CommitPayment(w) \/ CommitReversal(w)
  BY <1>1, CommitFacts DEF CommitPayment, CommitReversal, SessionStep
<1> QED BY <1>1, MoneySessions, CountSessions, OpenSessions DEF Commit

\* Amounts change on the day of the transaction; a reversal leaves its day with a payment.
LEMMA CommitAmounts ==
  ASSUME IInv, NEW w \in Worker, Commit(w)
  PROVE  /\ taken' \in [Day -> Nat] /\ paid' \in [Day -> Nat] /\ reversed' \in [Day -> Nat]
         /\ \A d \in Day \ {tx[w].day} :
              /\ taken'[d] = taken[d]
              /\ paid'[d] + reversed'[d] > 0 => paid[d] + reversed[d] > 0
<1>1. taken \in [Day -> Nat] /\ paid \in [Day -> Nat] /\ reversed \in [Day -> Nat] /\ tx[w].day \in Day
  BY CommitFacts DEF IInv, Shape
<1>2. CASE CommitMoney(w)
  BY <1>1, <1>2 DEF CommitMoney
<1>3. CASE CommitPayment(w)
  BY <1>1, <1>3 DEF CommitPayment
<1>4. CASE CommitReversal(w)
  BY <1>1, <1>4, CommitFacts DEF CommitReversal, Transaction
<1>5. CASE UNCHANGED <<taken, paid, reversed>>
  BY <1>1, <1>5
<1> QED BY <1>2, <1>3, <1>4, <1>5 DEF Commit, CommitMovement, CommitOpen, CommitClose, CommitReview

LEMMA CommitTransactions == ASSUME IInv, NEW w \in Worker, Commit(w) PROVE TransactionsOK' /\ LockedAlone'
<1>1. tx' = [tx EXCEPT ![w] = Idle] /\ tx \in [Worker -> Transactions]
  BY DEF Commit, IInv, Shape
<1>2. tx'[w] = Idle /\ \A v \in Worker \ {w} : tx'[v] = tx[v]
  BY <1>1
<1>3. LockedAlone'
  BY <1>2, IdleIsOK DEF IInv, LockedAlone
<1>4. ASSUME NEW v \in Worker \ {w} PROVE Transaction(tx[v])'
  <2>1. tx'[v] = tx[v] /\ Transaction(tx[v]) /\ today' = today /\ dayState' = dayState
    BY <1>2 DEF IInv, TransactionsOK, Commit, periodVars
  <2>2. ASSUME tx[v].session # 0 PROVE session'[tx[v].session] = session[tx[v].session]
    <3>1. tx[v].session \in Session /\ session[tx[v].session].status # "none"
      BY <2>1, <2>2 DEF Transaction
    <3>2. tx[w].session # tx[v].session
      BY <2>2 DEF IInv, LockedAlone
    <3> QED BY <3>1, <3>2, CommitSessions DEF SessionStep
  <2> QED BY <2>1, <2>2 DEF Transaction
<1>5. Transaction(tx[w])'
  BY <1>2 DEF Transaction, Idle, Op
<1> QED BY <1>3, <1>4, <1>5 DEF TransactionsOK

\* The report of a closed day is about another day than that of the transaction.
LEMMA CommitDays == ASSUME IInv, NEW w \in Worker, Commit(w) PROVE DaysStand'
<1> DEFINE t == tx[w]
<1>1. /\ dayState' = dayState /\ report' = report /\ today' = today
      /\ late \subseteq late' /\ (t.day < today => t.day \in late')
  BY CommitFacts DEF Commit, periodVars
<1>2. SUFFICES ASSUME NEW d \in Day, dayState[d] = "closed"
               PROVE  /\ report[d].taken = taken'[d]
                      /\ report[d].sessions = {s \in Session : session'[s].status = "closed" /\ session'[s].opened = d}
                      /\ \A s \in Session : /\ session'[s].status \in {"open", "pending_review"}
                                            /\ session'[s].opened <= d
                           => session'[s].opened \in late' \ {d}
  BY <1>1 DEF DaysStand, ReportCountsTheDay, NoSessionLeftBehind, Figures, SessionsNotClosed
<1>3. /\ t.day # d /\ d <= today /\ d \in Nat
      /\ report[d].taken = taken[d]
      /\ report[d].sessions = {s \in Session : session[s].status = "closed" /\ session[s].opened = d}
      /\ \A s \in Session : /\ session[s].status \in {"open", "pending_review"}
                            /\ session[s].opened <= d
           => session[s].opened \in late \ {d}
  BY <1>2, CommitFacts
     DEF IInv, ClosedDaysArePast, DaysStand, ReportCountsTheDay, NoSessionLeftBehind, Figures, SessionsNotClosed
<1>4. report[d].taken = taken'[d]
  BY <1>3, CommitAmounts
<1>5. ASSUME NEW s \in Session
      PROVE  (session'[s].status = "closed" /\ session'[s].opened = d)
               <=> (session[s].status = "closed" /\ session[s].opened = d)
  <2>1. CASE session'[s] = session[s]
    BY <2>1
  <2>2. CASE session[s].status = "none" /\ session'[s].status = "open"
    BY <2>2
  <2>3. CASE session[s].status \in {"open", "pending_review"} /\ session'[s].opened = session[s].opened
    <3>1. session[s].opened # d
      BY <1>3, <2>3
    <3> QED BY <2>3, <3>1
  <2> QED BY <2>1, <2>2, <2>3, CommitSessions DEF SessionStep
<1>6. ASSUME NEW s \in Session, session'[s].status \in {"open", "pending_review"}, session'[s].opened <= d
      PROVE  session'[s].opened \in late' \ {d}
  <2>1. CASE session'[s] = session[s]
    BY <1>1, <1>3, <1>6, <2>1
  <2>2. CASE session'[s].opened = t.day
    <3>1. t.day < today
      <4>1. t.day \in Nat /\ today \in Nat
        BY CommitFacts
      <4>2. t.day <= d /\ t.day # d /\ d <= today /\ d \in Nat
        BY <1>3, <1>6, <2>2
      <4> QED BY <4>1, <4>2
    <3> QED BY <1>1, <1>3, <2>2, <3>1
  <2>3. CASE session[s].status \in {"open", "pending_review"} /\ session'[s].opened = session[s].opened
    BY <1>1, <1>3, <1>6, <2>3
  <2> QED BY <2>1, <2>2, <2>3, CommitSessions DEF SessionStep
<1> QED BY <1>3, <1>4, <1>5, <1>6

\* A day that is over and now has something recorded is the day of the transaction, late.
LEMMA CommitMonths == ASSUME IInv, NEW w \in Worker, Commit(w) PROVE MonthsOver'
<1> DEFINE t == tx[w]
<1>1. /\ UNCHANGED <<dayState, report, today, monthState, summary, closing>>
      /\ late \subseteq late' /\ (t.day < today => t.day \in late')
  BY CommitFacts DEF Commit, periodVars
<1>2. ASSUME NEW d \in Day, d # t.day, Worked(d)' PROVE Worked(d)
  <2>1. CASE \E s \in Session : session'[s].opened = d
    <3>1. PICK s \in Session : session'[s].opened = d
      BY <2>1
    <3>2. session[s].opened = d
      BY <1>2, <3>1, CommitSessions DEF SessionStep
    <3> QED BY <3>2 DEF Worked
  <2>2. CASE taken'[d] > 0 \/ paid'[d] + reversed'[d] > 0
    BY <1>2, <2>2, CommitAmounts DEF Worked
  <2> QED BY <1>2, <2>1, <2>2 DEF Worked
<1>3. ASSUME NEW m, MonthOver(m) PROVE MonthOver(m)'
  <2>1. DaysOf(m)' = DaysOf(m) /\ SummaryOf(m)' = SummaryOf(m)
    BY <1>1 DEF DaysOf, SummaryOf
  <2>2. ASSUME NEW d \in OpenDaysOf(m)' PROVE d \in late'
    <3>1. d \in DaysOf(m) /\ d \in Day /\ Worked(d)' /\ dayState[d] # "closed"
      BY <1>1, <2>2 DEF OpenDaysOf, DaysOf
    <3>2. CASE d = t.day
      BY <1>1, <1>3, <3>1, <3>2 DEF MonthOver
    <3>3. CASE d # t.day
      BY <1>1, <1>2, <1>3, <3>1, <3>3 DEF MonthOver, OpenDaysOf
    <3> QED BY <3>2, <3>3
  <2> QED BY <1>1, <1>3, <2>1, <2>2 DEF MonthOver
<1> QED BY <1>1, <1>3 DEF IInv, MonthsOver

LEMMA CommitKeeps == ASSUME IInv, NEW w \in Worker, Commit(w) PROVE IInv'
<1>1. Shape'
  <2>1. UNCHANGED <<today, dayState, report, monthState, summary, closing>>
    BY DEF Commit, periodVars
  <2>2. late' \subseteq Day
    BY CommitFacts DEF Commit, IInv, Shape
  <2>3. tx' \in [Worker -> Transactions]
    BY IdleIsOK DEF Commit, IInv, Shape
  <2> QED BY <2>1, <2>2, <2>3, CommitSessions, CommitAmounts DEF IInv, Shape
<1>2. OpenedOnADay'
  BY CommitSessions, CommitFacts DEF IInv, OpenedOnADay, SessionStep
<1>3. CountedInFull'
  BY CommitSessions, CommitFacts DEF IInv, CountedInFull, SessionStep
<1>4. ClosedDaysArePast'
  BY DEF IInv, ClosedDaysArePast, Commit, periodVars
<1> QED BY <1>1, <1>2, <1>3, <1>4, CommitTransactions, CommitDays, CommitMonths DEF IInv

-----------------------------------------------------------------------------
(* Midnight, and the closing of days and months.                           *)

\* What the steps of this section leave alone
LEMMA NothingCommitted ==
  ASSUME IInv, UNCHANGED <<bookVars, tx>>
  PROVE  /\ OpenedOnADay' /\ LockedAlone' /\ CountedInFull'
         /\ \A d : /\ Worked(d)' = Worked(d) /\ Figures(d)' = Figures(d)
                  /\ SessionsNotClosed(d)' = SessionsNotClosed(d)
  BY DEF IInv, bookVars, OpenedOnADay, LockedAlone, CountedInFull, Worked, Figures, SessionsNotClosed

LEMMA MidnightKeeps == ASSUME IInv, Midnight PROVE IInv'
<1>1. /\ today' = today + 1 /\ today' \in Day /\ today \in Nat
      /\ UNCHANGED <<dayState, report, monthState, summary, closing, bookVars, tx>>
  BY TradingDayAssumption DEF IInv, Shape, Midnight, Day, periodVars
<1>2. Shape'
  BY <1>1 DEF IInv, Shape, bookVars
<1>3. TransactionsOK'
  BY <1>1 DEF IInv, TransactionsOK, Transaction, bookVars, Day
<1>4. ClosedDaysArePast'
  BY <1>1 DEF IInv, ClosedDaysArePast, Day
<1>5. DaysStand'
  BY <1>1, NothingCommitted DEF IInv, DaysStand, ReportCountsTheDay, NoSessionLeftBehind, bookVars
<1>6. MonthsOver'
  <2>1. ASSUME NEW m, MonthOver(m) PROVE MonthOver(m)'
    BY <1>1, <2>1, NothingCommitted DEF MonthOver, OpenDaysOf, DaysOf, SummaryOf, bookVars, Day
  <2> QED BY <1>1, <2>1 DEF IInv, MonthsOver
<1> QED BY <1>1, <1>2, <1>3, <1>4, <1>5, <1>6, NothingCommitted DEF IInv

\* Only `closing` changes: a close begins.
LEMMA StartCloseDayKeeps == ASSUME IInv, NEW d \in Day, StartCloseDay(d) PROVE IInv'
<1>1. /\ closing' = [op |-> "day", of |-> d] /\ d <= today /\ d \in Nat
      /\ UNCHANGED <<today, dayState, report, monthState, summary, bookVars, tx>>
  BY DEF StartCloseDay, Day
<1>2. closing'.op = "day" /\ closing'.of = d
  BY <1>1
<1>3. Shape' /\ TransactionsOK'
  BY <1>1 DEF IInv, Shape, TransactionsOK, Transaction, bookVars
<1>4. ClosedDaysArePast'
  BY <1>1, <1>2 DEF IInv, ClosedDaysArePast
<1>5. DaysStand'
  BY <1>1, NothingCommitted DEF IInv, DaysStand, ReportCountsTheDay, NoSessionLeftBehind, bookVars
<1>6. MonthsOver'
  BY <1>1, <1>2, NothingCommitted DEF IInv, MonthsOver, MonthOver, OpenDaysOf, SummaryOf, bookVars
<1> QED BY <1>1, <1>3, <1>4, <1>5, <1>6, NothingCommitted DEF IInv

\* A day changes whose month is not closed, nor being closed: the months that are stay over.
LEMMA OtherDays ==
  ASSUME IInv, NEW d \in Day, monthState[MonthOf(d)] # "closed", closing.op # "month",
         NEW s, NEW r, dayState' = [dayState EXCEPT ![d] = s], report' = [report EXCEPT ![d] = r],
         closing'.op # "month", UNCHANGED <<today, monthState, summary, bookVars, tx>>
  PROVE  MonthsOver'
<1>1. ASSUME NEW m \in Month, monthState[m] = "closed" PROVE MonthOver(m)'
  <2>1. MonthOver(m) /\ d \notin DaysOf(m)
    BY <1>1 DEF IInv, MonthsOver, DaysOf
  <2>2. /\ DaysOf(m)' = DaysOf(m) /\ DaysOf(m) \subseteq Day
        /\ \A e \in DaysOf(m) : dayState'[e] = dayState[e] /\ report'[e] = report[e]
    BY <2>1 DEF IInv, Shape, DaysOf
  <2>3. OpenDaysOf(m)' = OpenDaysOf(m)
    BY <2>2, NothingCommitted DEF OpenDaysOf
  <2>4. SummaryOf(m)' = SummaryOf(m)
    BY <2>2 DEF SummaryOf
  <2> QED BY <2>1, <2>2, <2>3, <2>4 DEF MonthOver, bookVars
<1> QED BY <1>1 DEF MonthsOver

LEMMA CloseDayKeeps == ASSUME IInv, CloseDay PROVE IInv'
<1> DEFINE d == closing.of
<1>1. /\ d \in Day /\ d <= today /\ closing' = NotClosing /\ closing.op = "day"
      /\ \A w \in Worker : ~tx[w].guard
      /\ UNCHANGED <<today, monthState, summary, bookVars, tx>>
  BY DEF IInv, ClosedDaysArePast, CloseDay, ExclusiveGranted
<1>2. closing' \in [op : {"none", "day", "month"}, of : Nat] /\ closing'.op = "none"
  BY <1>1 DEF NotClosing
<1>3. CASE UNCHANGED <<dayState, report>>
  <2>1. Shape' /\ TransactionsOK' /\ ClosedDaysArePast'
    BY <1>1, <1>2, <1>3 DEF IInv, Shape, TransactionsOK, Transaction, ClosedDaysArePast, bookVars
  <2>2. DaysStand'
    BY <1>1, <1>3, NothingCommitted DEF IInv, DaysStand, ReportCountsTheDay, NoSessionLeftBehind, bookVars
  <2>3. MonthsOver'
    BY <1>1, <1>2, <1>3, NothingCommitted DEF IInv, MonthsOver, MonthOver, OpenDaysOf, SummaryOf, bookVars
  <2> QED BY <1>1, <2>1, <2>2, <2>3, NothingCommitted DEF IInv
<1>4. CASE /\ DayClosable(d)
           /\ dayState' = [dayState EXCEPT ![d] = "closed"]
           /\ report' = [report EXCEPT ![d] = Figures(d)]
  <2>1. Figures(d) \in [taken : Nat, supplier : Nat, sessions : SUBSET Session]
    BY <1>1 DEF IInv, Shape, Figures
  <2>2. Shape'
    BY <1>1, <1>2, <1>4, <2>1 DEF IInv, Shape, bookVars
  <2>3. TransactionsOK'
    BY <1>1 DEF IInv, TransactionsOK, Transaction, bookVars
  <2>4. ClosedDaysArePast'
    BY <1>1, <1>2, <1>4 DEF IInv, Shape, ClosedDaysArePast
  <2>5. DaysStand'
    <3>1. \A e \in Day : /\ dayState'[e] = IF e = d THEN "closed" ELSE dayState[e]
                         /\ report'[e] = IF e = d THEN Figures(d) ELSE report[e]
      BY <1>4 DEF IInv, Shape
    <3>2. SessionsNotClosed(d) = {}
      BY <1>4 DEF DayClosable
    <3> QED BY <1>1, <3>1, <3>2, NothingCommitted
            DEF IInv, DaysStand, ReportCountsTheDay, NoSessionLeftBehind, bookVars
  <2>6. MonthsOver'
    BY <1>1, <1>2, <1>4, OtherDays DEF DayClosable
  <2> QED BY <1>1, <2>2, <2>3, <2>4, <2>5, <2>6, NothingCommitted DEF IInv
<1> QED BY <1>3, <1>4 DEF CloseDay

LEMMA ReopenDayKeeps == ASSUME IInv, NEW d \in Day, ReopenDay(d) PROVE IInv'
<1>1. /\ closing.op = "none" /\ monthState[MonthOf(d)] # "closed"
      /\ dayState' = [dayState EXCEPT ![d] = "open"] /\ report' = [report EXCEPT ![d] = NoReport]
      /\ UNCHANGED <<today, monthState, summary, closing, bookVars, tx>>
  BY DEF ReopenDay, PeriodsFree
<1>2. \A e \in Day : dayState'[e] = "closed" => dayState[e] = "closed" /\ report'[e] = report[e]
  BY <1>1 DEF IInv, Shape
<1>3. Shape'
  <2>1. NoReport \in [taken : Nat, supplier : Nat, sessions : SUBSET Session]
    BY DEF NoReport
  <2> QED BY <1>1, <2>1 DEF IInv, Shape, bookVars
<1>4. TransactionsOK'
  BY <1>1, <1>2 DEF IInv, TransactionsOK, Transaction, bookVars
<1>5. ClosedDaysArePast'
  BY <1>1, <1>2 DEF IInv, ClosedDaysArePast
<1>6. DaysStand'
  BY <1>1, <1>2, NothingCommitted DEF IInv, DaysStand, ReportCountsTheDay, NoSessionLeftBehind, bookVars
<1>7. MonthsOver'
  BY <1>1, OtherDays
<1> QED BY <1>1, <1>3, <1>4, <1>5, <1>6, <1>7, NothingCommitted DEF IInv

\* Months begin to be closed, are closed and are opened again; days and sessions stay.
LEMMA OnlyMonths ==
  ASSUME IInv, UNCHANGED <<today, dayState, report, bookVars, tx>>, closing'.op # "day",
         closing' \in [op : {"none", "day", "month"}, of : Nat],
         monthState' \in [Month -> {"open", "closed"}], summary' = [m \in Month |-> summary'[m]],
         MonthsOver'
  PROVE  IInv'
<1>1. Shape' /\ TransactionsOK' /\ ClosedDaysArePast'
  BY DEF IInv, Shape, TransactionsOK, Transaction, ClosedDaysArePast, bookVars
<1>2. DaysStand'
  BY NothingCommitted DEF IInv, DaysStand, ReportCountsTheDay, NoSessionLeftBehind, bookVars
<1> QED BY <1>1, <1>2, NothingCommitted DEF IInv

\* A month whose summary does not change stays over.
LEMMA StaysOver ==
  ASSUME IInv, UNCHANGED <<today, dayState, report, bookVars, tx>>,
         NEW m, MonthOver(m), summary'[m] = summary[m]
  PROVE  MonthOver(m)'
  BY NothingCommitted DEF MonthOver, OpenDaysOf, SummaryOf, DaysOf, bookVars

LEMMA StartCloseMonthKeeps == ASSUME IInv, NEW m \in Month, StartCloseMonth(m) PROVE IInv'
<1>1. /\ closing' = [op |-> "month", of |-> m] /\ summary' = [summary EXCEPT ![m] = SummaryOf(m)]
      /\ MonthClosable(m) /\ closing.op = "none"
      /\ UNCHANGED <<today, dayState, report, monthState, bookVars, tx>>
  BY DEF StartCloseMonth, PeriodsFree
<1>2. closing' \in [op : {"none", "day", "month"}, of : Nat] /\ closing'.op = "month" /\ closing'.of = m
  <2>1. m \in Nat
    BY TradingDayAssumption DEF Month, MonthOf, Day
  <2> QED BY <1>1, <2>1
<1>3. summary'[m] = SummaryOf(m) /\ \A n \in Month \ {m} : summary'[n] = summary[n]
  BY <1>1 DEF IInv, Shape
<1>4. MonthOver(m)'
  <2>1. SummaryOf(m)' = SummaryOf(m) /\ OpenDaysOf(m)' = OpenDaysOf(m) /\ DaysOf(m)' = DaysOf(m)
    BY <1>1, NothingCommitted DEF SummaryOf, OpenDaysOf, DaysOf
  <2> QED BY <1>1, <1>3, <2>1 DEF MonthClosable, MonthOver
<1>5. ASSUME NEW n \in Month, monthState[n] = "closed" PROVE MonthOver(n)'
  BY <1>1, <1>3, <1>5, StaysOver DEF MonthClosable, IInv, MonthsOver
<1>6. MonthsOver'
  BY <1>1, <1>2, <1>4, <1>5 DEF MonthsOver
<1>7. summary' = [n \in Month |-> summary'[n]]
  BY <1>1 DEF IInv, Shape
<1> QED BY <1>1, <1>2, <1>6, <1>7, OnlyMonths DEF IInv, Shape

LEMMA CloseMonthKeeps == ASSUME IInv, CloseMonth PROVE IInv'
<1> DEFINE m == closing.of
<1>1. /\ closing' = NotClosing /\ monthState' = [monthState EXCEPT ![m] = "closed"] /\ closing.op = "month"
      /\ UNCHANGED <<today, dayState, report, summary, bookVars, tx>>
  BY DEF CloseMonth
<1>2. m \in Month /\ MonthOver(m)
  BY <1>1 DEF IInv, MonthsOver
<1>3. closing' \in [op : {"none", "day", "month"}, of : Nat] /\ closing'.op = "none"
  BY <1>1 DEF NotClosing
<1>4. MonthsOver'
  <2>1. \A n \in Month : monthState'[n] = "closed" => MonthOver(n)
    BY <1>1, <1>2 DEF IInv, Shape, MonthsOver
  <2>2. \A n \in Month : monthState'[n] = "closed" => MonthOver(n)'
    BY <1>1, <2>1, StaysOver
  <2> QED BY <1>3, <2>2 DEF MonthsOver
<1> QED BY <1>1, <1>2, <1>3, <1>4, OnlyMonths DEF IInv, Shape

LEMMA ReopenMonthKeeps == ASSUME IInv, NEW m \in Month, ReopenMonth(m) PROVE IInv'
<1>1. /\ monthState' = [monthState EXCEPT ![m] = "open"] /\ summary' = [summary EXCEPT ![m] = <<>>]
      /\ closing.op = "none" /\ closing' = closing
      /\ UNCHANGED <<today, dayState, report, bookVars, tx>>
  BY DEF ReopenMonth, PeriodsFree
<1>2. MonthsOver'
  <2>1. \A n \in Month : monthState'[n] = "closed" => n # m /\ monthState[n] = "closed" /\ summary'[n] = summary[n]
    BY <1>1 DEF IInv, Shape
  <2>2. \A n \in Month : monthState'[n] = "closed" => MonthOver(n)'
    BY <1>1, <2>1, StaysOver DEF IInv, MonthsOver
  <2> QED BY <1>1, <2>2 DEF MonthsOver
<1>3. /\ monthState' \in [Month -> {"open", "closed"}] /\ summary' = [n \in Month |-> summary'[n]]
      /\ closing' \in [op : {"none", "day", "month"}, of : Nat]
  BY <1>1 DEF IInv, Shape
<1> QED BY <1>1, <1>2, <1>3, OnlyMonths

-----------------------------------------------------------------------------
LEMMA NextKeeps == ASSUME IInv, [Next]_vars PROVE IInv'
<1>1. CASE Midnight
  BY <1>1, MidnightKeeps
<1>2. ASSUME NEW w \in Worker, Begin(w) \/ WorkerStep(w) \/ Rollback(w) PROVE IInv'
  <2>1. CASE Begin(w)
    BY <2>1, BeginKeeps
  <2>2. CASE Rollback(w)
    BY <2>2, RefusedKeeps DEF Rollback, Refused
  <2>3. CASE WorkerStep(w)
    BY <2>3, WriteKeeps, LockSessionKeeps, ReadPaymentKeeps, RecordKeeps, CommitKeeps DEF WorkerStep
  <2> QED BY <1>2, <2>1, <2>2, <2>3
<1>3. ASSUME NEW d \in Day, StartCloseDay(d) \/ ReopenDay(d) PROVE IInv'
  BY <1>3, StartCloseDayKeeps, ReopenDayKeeps
<1>4. CASE CloseDay
  BY <1>4, CloseDayKeeps
<1>5. ASSUME NEW m \in Month, StartCloseMonth(m) \/ ReopenMonth(m) PROVE IInv'
  BY <1>5, StartCloseMonthKeeps, ReopenMonthKeeps
<1>6. CASE CloseMonth
  BY <1>6, CloseMonthKeeps
<1>7. CASE UNCHANGED vars
  <2>1. UNCHANGED <<today, dayState, report, monthState, summary, closing, bookVars, tx>>
    BY <1>7 DEF vars, bookVars
  <2>2. Shape' /\ TransactionsOK' /\ ClosedDaysArePast'
    BY <2>1 DEF IInv, Shape, TransactionsOK, Transaction, ClosedDaysArePast, bookVars
  <2>3. DaysStand'
    BY <2>1, NothingCommitted DEF IInv, DaysStand, ReportCountsTheDay, NoSessionLeftBehind, bookVars
  <2>4. MonthsOver'
    BY <2>1, NothingCommitted DEF IInv, MonthsOver, MonthOver, OpenDaysOf, SummaryOf, bookVars
  <2> QED BY <2>1, <2>2, <2>3, <2>4, NothingCommitted DEF IInv
<1> QED BY <1>1, <1>2, <1>3, <1>4, <1>5, <1>6, <1>7 DEF Next

LEMMA Inductive == Spec => []IInv
<1>1. IInv /\ [Next]_vars => IInv'
  BY NextKeeps
<1> QED BY <1>1, InitIInv, PTL DEF Spec

-----------------------------------------------------------------------------
(* The theorems.                                                           *)

\* A closed month covers closed days only, but for what a transaction that ran over midnight
\* added late, and its summary stays that of their reports (closeMonth, reopenDay).
THEOREM ClosedMonthsAlwaysStand == Spec => []ClosedMonthsStand
<1>1. IInv => ClosedMonthsStand
  BY DEF IInv, MonthsOver, MonthOver, ClosedMonthsStand, MonthMissesOnlyLateWrites, MonthSumsItsDays
<1> QED BY <1>1, Inductive, PTL

\* A session is counted against its float and all of its movements (closeSession).
THEOREM SessionsAreCountedInFull == Spec => []CountedInFull
<1>1. IInv => CountedInFull
  BY DEF IInv
<1> QED BY <1>1, Inductive, PTL

-----------------------------------------------------------------------------
(* The drawers.                                                            *)

\* Sales of all drawers
Sales == SumFunction([s \in Session |-> session[s].sales])

RowBounds(r) ==
  /\ r.sales >= 0 /\ r.cash \in 0..MaxCash /\ r.expected \in 0..MaxCash
  /\ r.status = "none" => r.sales = 0

\* Where a session is required, counter money that was recorded has one.
TxBounds(t) ==
  /\ t.day <= LastDay /\ t.of <= LastDay /\ t.expected \in 0..MaxCash
  /\ t.op = "counter" /\ t.at = "recorded" /\ Required => t.session # 0

\* Each amount is within its bound, and all drawers together have sold what the counter took;
\* less than that only where money is kept off every drawer.
Drawers ==
  /\ \A d \in Day : paid[d] <= 1 /\ reversed[d] <= 1 /\ report[d].taken <= MaxTaken /\ report[d].supplier <= 1
  /\ \A m \in Month : DOMAIN summary[m] \subseteq Day
  /\ closing.of <= LastDay
  /\ \A s \in Session : RowBounds(session[s])
  /\ \A w \in Worker : TxBounds(tx[w])
  /\ Total(taken) <= MaxTaken
  /\ Sales <= Total(taken) /\ (Required => Sales = Total(taken))

LEMMA DaysAreFinite == IsFiniteSet(Day) /\ IsFiniteSet(Session)
  BY FS_Interval, TradingDayAssumption DEF Day, Session

LEMMA MonthWithinCalendar == \A m \in Month : m \in Nat /\ m <= LastDay
<1> SUFFICES ASSUME NEW d \in Day PROVE MonthOf(d) \in Nat /\ MonthOf(d) <= LastDay
  BY DEF Month
<1>1. d \in Nat /\ d >= 1 /\ d <= LastDay /\ LastDay \in Nat
  BY TradingDayAssumption DEF Day
<1>2. MonthLength \in Nat /\ MonthLength >= 1
  BY TradingDayAssumption
<1>3. ASSUME NEW a \in Nat, NEW n \in Nat, n >= 1 PROVE a \div n \in Nat /\ a \div n <= a
  BY <1>3
<1>4. (d - 1) \div MonthLength \in Nat /\ (d - 1) \div MonthLength <= d - 1
  BY <1>1, <1>2, <1>3
<1> QED BY <1>1, <1>4 DEF MonthOf

LEMMA SumsUnfold ==
  /\ Sales = SumFunctionOnSet([s \in Session |-> session[s].sales], Session)
  /\ taken \in [Day -> Nat] => Total(taken) = SumFunctionOnSet(taken, Day)
  /\ taken' \in [Day -> Nat] => Total(taken)' = SumFunctionOnSet(taken', Day)
  /\ Sales' = SumFunctionOnSet([s \in Session |-> session'[s].sales], Session)
<1>1. Sales = SumFunctionOnSet([s \in Session |-> session[s].sales], Session)
  BY DEF Sales, SumFunction
<1>2. Sales' = SumFunctionOnSet([s \in Session |-> session'[s].sales], Session)
  BY DEF Sales, SumFunction
<1>3. taken \in [Day -> Nat] => Total(taken) = SumFunctionOnSet(taken, Day)
  BY DEF Total, SumFunction
<1>4. taken' \in [Day -> Nat] => Total(taken)' = SumFunctionOnSet(taken', Day)
  BY DEF Total, SumFunction
<1> QED BY <1>1, <1>2, <1>3, <1>4

LEMMA InitDrawers == Init => Drawers
<1> SUFFICES ASSUME Init PROVE Drawers
  OBVIOUS
<1>1. taken \in [Day -> Nat] /\ \A d \in Day : taken[d] = 0
  BY DEF Init
<1>2. Total(taken) = 0
  BY <1>1, SumsUnfold, SumZero, DaysAreFinite
<1>3. Sales = 0
  <2> DEFINE f == [s \in Session |-> session[s].sales]
  <2>1. \A s \in Session : f[s] = 0
    BY DEF Init, NoSession
  <2> HIDE DEF f
  <2>2. SumFunctionOnSet(f, Session) = 0
    BY <2>1, SumZero, DaysAreFinite
  <2> QED BY <2>2, SumsUnfold DEF f
<1>4. \A s \in Session : RowBounds(session[s])
  BY TradingDayAssumption DEF Init, NoSession, RowBounds
<1>5. \A w \in Worker : TxBounds(tx[w])
  BY TradingDayAssumption DEF Init, Idle, TxBounds
<1>6. /\ \A d \in Day : paid[d] <= 1 /\ reversed[d] <= 1 /\ report[d].taken <= MaxTaken /\ report[d].supplier <= 1
      /\ closing.of <= LastDay
  BY TradingDayAssumption DEF Init, NoReport, NotClosing
<1>7. \A m \in Month : DOMAIN summary[m] \subseteq Day
  BY DEF Init
<1> QED BY <1>2, <1>3, <1>4, <1>5, <1>6, <1>7, TradingDayAssumption DEF Drawers

-----------------------------------------------------------------------------
(* Steps that commit nothing.                                              *)

LEMMA BooksStay ==
  ASSUME IInv, Drawers, UNCHANGED bookVars
  PROVE  /\ \A d \in Day : paid'[d] <= 1 /\ reversed'[d] <= 1
         /\ \A s \in Session : RowBounds(session'[s])
         /\ Total(taken)' <= MaxTaken
         /\ Sales' <= Total(taken)' /\ (Required => Sales' = Total(taken)')
<1>1. Sales' = Sales /\ Total(taken)' = Total(taken)
  BY DEF bookVars, Sales, Total
<1> QED BY <1>1 DEF bookVars, Drawers

LEMMA TxDrawers ==
  ASSUME IInv, Drawers, UNCHANGED <<today, periodVars, bookVars>>, NEW w \in Worker, NEW r,
         tx' = [tx EXCEPT ![w] = r], TxBounds(r)
  PROVE  Drawers'
<1>1. \A v \in Worker : TxBounds(tx'[v])
  BY DEF IInv, Shape, Drawers
<1>2. \A v \in Worker : TxBounds(tx[v])'
  BY <1>1 DEF TxBounds
<1> QED BY <1>2, BooksStay DEF Drawers, RowBounds, periodVars

LEMMA BeginDrawers == ASSUME IInv, Drawers, NEW w \in Worker, Begin(w) PROVE Drawers'
<1> DEFINE r == [tx[w] EXCEPT !.day = today, !.at = "begun"]
<1>1. tx[w] \in Transactions /\ TxBounds(tx[w]) /\ today <= LastDay
  BY TradingDayAssumption DEF IInv, Shape, Drawers, Day
<1>2. tx' = [tx EXCEPT ![w] = r] /\ UNCHANGED <<today, periodVars, bookVars>>
  BY DEF Begin
<1>3. r.day = today /\ r.at = "begun" /\ r.of = tx[w].of /\ r.expected = tx[w].expected
  BY <1>1 DEF Transactions
<1> HIDE DEF r
<1>4. TxBounds(r)
  BY <1>1, <1>3 DEF TxBounds
<1> QED BY <1>2, <1>4, TxDrawers

LEMMA RefusedDrawers ==
  ASSUME IInv, Drawers, NEW w \in Worker, Refused(w), UNCHANGED <<today, periodVars, bookVars>> PROVE Drawers'
<1>1. TxBounds(Idle)
  BY TradingDayAssumption DEF TxBounds, Idle
<1> QED BY <1>1, TxDrawers DEF Refused

LEMMA LockSessionDrawers ==
  ASSUME IInv, Drawers, NEW w \in Worker, NEW op \in Op, NEW s \in Session, LockSession(w, op, s) PROVE Drawers'
<1> DEFINE holds == IF op = "close" THEN session[s].cash ELSE 0
           r == [tx[w] EXCEPT !.op = op, !.at = "read", !.session = s, !.expected = holds]
<1>1. CASE Refused(w)
  BY <1>1, RefusedDrawers DEF LockSession
<1>2. CASE tx' = [tx EXCEPT ![w] = r]
  <2>1. tx[w] \in Transactions /\ TxBounds(tx[w]) /\ RowBounds(session[s])
    BY DEF IInv, Shape, Drawers
  <2>2. holds \in 0..MaxCash
    BY <2>1, TradingDayAssumption DEF RowBounds
  <2> HIDE DEF holds
  <2>3. r.at = "read" /\ r.day = tx[w].day /\ r.of = tx[w].of /\ r.expected = holds
    <3> DEFINE q == [tx[w] EXCEPT !.op = op, !.at = "read"]
    <3>1. /\ q = [q EXCEPT !.op = op] /\ q.at = "read" /\ q.day = tx[w].day /\ q.of = tx[w].of
          /\ q \in [op : {op}, day : Nat, at : {"read"}, guard : BOOLEAN, session : Nat, expected : Int, of : Nat]
      BY <2>1 DEF Transactions
    <3>2. r = [q EXCEPT !.session = s, !.expected = holds]
      OBVIOUS
    <3> HIDE DEF q, r
    <3> QED BY <3>1, <3>2
  <2> HIDE DEF r
  <2>4. TxBounds(r)
    BY <2>1, <2>2, <2>3 DEF TxBounds
  <2> QED BY <1>2, <2>4, TxDrawers DEF LockSession
<1> QED BY <1>1, <1>2 DEF LockSession

LEMMA ReadPaymentDrawers == ASSUME IInv, Drawers, NEW w \in Worker, NEW d \in Day, ReadPayment(w, d) PROVE Drawers'
<1> DEFINE r == [tx[w] EXCEPT !.op = "reverse", !.at = "read", !.of = d]
<1>1. CASE Refused(w)
  BY <1>1, RefusedDrawers DEF ReadPayment
<1>2. CASE tx' = [tx EXCEPT ![w] = r]
  <2>1. tx[w] \in Transactions /\ TxBounds(tx[w]) /\ d <= LastDay
    BY TradingDayAssumption DEF IInv, Shape, Drawers, Day
  <2>2. r.at = "read" /\ r.day = tx[w].day /\ r.of = d /\ r.expected = tx[w].expected
    BY <2>1 DEF Transactions
  <2> HIDE DEF r
  <2>3. TxBounds(r)
    BY <2>1, <2>2 DEF TxBounds
  <2> QED BY <1>2, <2>3, TxDrawers DEF ReadPayment
<1> QED BY <1>1, <1>2 DEF ReadPayment

LEMMA WriteDrawers == ASSUME IInv, Drawers, NEW w \in Worker, NEW op \in Op, Write(w, op) PROVE Drawers'
<1> DEFINE at == IF op = "counter" THEN "written" ELSE "recorded"
           r == [tx[w] EXCEPT !.op = op, !.guard = TRUE, !.at = at]
<1>1. CASE Refused(w)
  BY <1>1, RefusedDrawers DEF Write
<1>2. CASE tx' = [tx EXCEPT ![w] = r]
  <2>1. tx[w] \in Transactions /\ TxBounds(tx[w])
    BY DEF IInv, Shape, Drawers
  <2>2. op = "counter" => at # "recorded"
    OBVIOUS
  <2> HIDE DEF at
  <2>3. r.op = op /\ r.at = at /\ r.day = tx[w].day /\ r.of = tx[w].of /\ r.expected = tx[w].expected
    BY <2>1 DEF Transactions
  <2> HIDE DEF r
  <2>4. TxBounds(r)
    BY <2>1, <2>2, <2>3 DEF TxBounds
  <2> QED BY <1>2, <2>4, TxDrawers DEF Write
<1> QED BY <1>1, <1>2 DEF Write

\* Counter money is recorded without a session only where none is required.
LEMMA RecordDrawers == ASSUME IInv, Drawers, NEW w \in Worker, RecordCounterMoney(w) PROVE Drawers'
<1>1. CASE Refused(w)
  BY <1>1, RefusedDrawers DEF RecordCounterMoney
<1>2. tx[w] \in Transactions /\ TxBounds(tx[w])
  BY DEF IInv, Shape, Drawers
<1>3. CASE tx' = [tx EXCEPT ![w].at = "recorded"] /\ ~Required
  <2> DEFINE r == [tx[w] EXCEPT !.at = "recorded"]
  <2>1. r.day = tx[w].day /\ r.of = tx[w].of /\ r.expected = tx[w].expected
    BY <1>2 DEF Transactions
  <2>2. tx' = [tx EXCEPT ![w] = r]
    BY <1>3
  <2> HIDE DEF r
  <2>3. TxBounds(r)
    BY <1>2, <1>3, <2>1 DEF TxBounds
  <2> QED BY <2>2, <2>3, TxDrawers DEF RecordCounterMoney
<1>4. CASE OpenSession # 0 /\ tx' = [tx EXCEPT ![w].at = "recorded", ![w].session = OpenSession]
  <2> DEFINE s == OpenSession
             r == [tx[w] EXCEPT !.at = "recorded", !.session = s]
  <2>1. s # 0 /\ tx' = [tx EXCEPT ![w] = r]
    BY <1>4
  <2> HIDE DEF s
  <2>2. r.session = s /\ r.day = tx[w].day /\ r.of = tx[w].of /\ r.expected = tx[w].expected
    BY <1>2 DEF Transactions
  <2> HIDE DEF r
  <2>3. TxBounds(r)
    BY <1>2, <2>1, <2>2 DEF TxBounds
  <2> QED BY <2>1, <2>3, TxDrawers DEF RecordCounterMoney
<1> QED BY <1>1, <1>3, <1>4 DEF RecordCounterMoney, NeedsSession

\* Days and months open and close; what was taken and sold stays.
LEMMA PeriodDrawers ==
  ASSUME IInv, Drawers, UNCHANGED <<bookVars, tx>>,
         \A d \in Day : report'[d].taken <= MaxTaken /\ report'[d].supplier <= 1,
         \A m \in Month : DOMAIN summary'[m] \subseteq Day, closing'.of <= LastDay
  PROVE  Drawers'
<1>1. \A v \in Worker : TxBounds(tx[v])'
  BY DEF Drawers, TxBounds
<1> QED BY <1>1, BooksStay DEF Drawers, RowBounds

LEMMA CloseDayDrawers == ASSUME IInv, Drawers, CloseDay PROVE Drawers'
<1>1. UNCHANGED <<bookVars, tx, summary>> /\ closing'.of <= LastDay
  BY TradingDayAssumption DEF CloseDay, NotClosing
<1>2. \A d \in Day : taken[d] <= MaxTaken /\ paid[d] <= 1
  <2>1. taken \in [Day -> Nat]
    BY DEF IInv, Shape
  <2>2. Total(taken) \in Nat /\ \A d \in Day : taken[d] <= Total(taken)
    BY <2>1, SumsUnfold, SumMember, SumNatural, DaysAreFinite
  <2> QED BY <2>1, <2>2, TradingDayAssumption DEF Drawers
<1>3. \A d \in Day : report'[d] \in {report[d], Figures(d)}
  BY DEF CloseDay, IInv, Shape
<1>4. \A d \in Day : report'[d].taken <= MaxTaken /\ report'[d].supplier <= 1
  BY <1>2, <1>3 DEF Figures, Drawers
<1> QED BY <1>1, <1>4, PeriodDrawers DEF Drawers

LEMMA OtherPeriodDrawers ==
  ASSUME IInv, Drawers,
         \/ Midnight \/ CloseMonth \/ \E d \in Day : StartCloseDay(d) \/ ReopenDay(d)
         \/ \E m \in Month : StartCloseMonth(m) \/ ReopenMonth(m)
  PROVE  Drawers'
<1>1. \A d \in Day : d <= LastDay
  BY DEF Day
<1>2. CASE Midnight
  BY <1>2, PeriodDrawers DEF Midnight, periodVars, Drawers
<1>3. CASE CloseMonth
  BY <1>3, PeriodDrawers, TradingDayAssumption DEF CloseMonth, NotClosing, Drawers
<1>4. ASSUME NEW d \in Day, StartCloseDay(d) PROVE Drawers'
  BY <1>1, <1>4, PeriodDrawers DEF StartCloseDay, Drawers
<1>5. ASSUME NEW d \in Day, ReopenDay(d) PROVE Drawers'
  <2>1. \A e \in Day : report'[e] \in {report[e], NoReport}
    BY <1>5 DEF ReopenDay, IInv, Shape
  <2>2. \A e \in Day : report'[e].taken <= MaxTaken /\ report'[e].supplier <= 1
    BY <2>1, TradingDayAssumption DEF NoReport, Drawers
  <2> QED BY <1>5, <2>2, PeriodDrawers DEF ReopenDay, Drawers
<1>6. ASSUME NEW m \in Month, StartCloseMonth(m) PROVE Drawers'
  <2>1. summary' = [summary EXCEPT ![m] = SummaryOf(m)] /\ closing' = [op |-> "month", of |-> m]
    BY <1>6 DEF StartCloseMonth
  <2>2. DOMAIN SummaryOf(m) \subseteq Day
    BY DEF SummaryOf, DaysOf
  <2>3. \A n \in Month : DOMAIN summary'[n] \subseteq Day
    BY <2>1, <2>2 DEF IInv, Shape, Drawers
  <2>4. closing'.of <= LastDay
    BY <2>1, MonthWithinCalendar
  <2> QED BY <1>6, <2>3, <2>4, PeriodDrawers DEF StartCloseMonth, Drawers
<1>7. ASSUME NEW m \in Month, ReopenMonth(m) PROVE Drawers'
  <2>1. \A n \in Month : DOMAIN summary'[n] \subseteq Day
    BY <1>7 DEF ReopenMonth, IInv, Shape, Drawers
  <2> QED BY <1>7, <2>1, PeriodDrawers DEF ReopenMonth, Drawers
<1> QED BY <1>2, <1>3, <1>4, <1>5, <1>6, <1>7

-----------------------------------------------------------------------------
(* Commits.                                                                *)

LEMMA MovedRowBounds ==
  ASSUME NEW row \in SessionRows, RowBounds(row), row.status = "open", NEW op, NEW amount \in {1, -1},
         IF amount = -1 THEN row.cash >= 1 ELSE row.cash < MaxCash
  PROVE  /\ RowBounds(WithMovement(row, op, amount))
         /\ WithMovement(row, op, amount).sales = IF op = "counter" THEN row.sales + 1 ELSE row.sales
<1> DEFINE q == [row EXCEPT !.cash = @ + amount]
           sales == IF op = "counter" THEN row.sales + 1 ELSE row.sales
           moved == [q EXCEPT !.sales = sales]
<1>1. /\ q \in SessionRows /\ q.status = row.status /\ q.cash = row.cash + amount /\ q.expected = row.expected
      /\ sales \in Int /\ sales >= 0
  BY DEF SessionRows, RowBounds
<1>2. WithMovement(row, op, amount) = moved
  BY DEF WithMovement
<1> HIDE DEF q, sales
<1>3. moved.sales = sales /\ moved.status = q.status /\ moved.cash = q.cash /\ moved.expected = q.expected
  BY <1>1 DEF SessionRows
<1>4. row.cash + amount \in 0..MaxCash
  BY TradingDayAssumption DEF SessionRows, RowBounds
<1> HIDE DEF moved
<1>5. RowBounds(moved)
  BY <1>1, <1>3, <1>4 DEF RowBounds
<1> QED BY <1>2, <1>3, <1>5 DEF sales

\* What is sold from one session changes, or from none.
LEMMA SalesStep ==
  ASSUME IInv, session' \in [Session -> SessionRows]
  PROVE  /\ Sales \in Int
         /\ (\A s \in Session : session'[s].sales = session[s].sales) => Sales' = Sales
         /\ \A s \in Session : (\A r \in Session \ {s} : session'[r].sales = session[r].sales) =>
              Sales' = Sales - session[s].sales + session'[s].sales
<1> DEFINE f == [s \in Session |-> session[s].sales]
           g == [s \in Session |-> session'[s].sales]
<1>1. \A s \in Session : /\ f[s] \in Int /\ g[s] \in Int
                         /\ f[s] = session[s].sales /\ g[s] = session'[s].sales
  BY DEF IInv, Shape, SessionRows
<1>2. Sales = SumFunctionOnSet(f, Session) /\ Sales' = SumFunctionOnSet(g, Session)
  BY SumsUnfold
<1> HIDE DEF f, g
<1>3. SumFunctionOnSet(f, Session) \in Int
  BY <1>1, SumInteger, DaysAreFinite
<1>4. (\A s \in Session : g[s] = f[s]) => SumFunctionOnSet(g, Session) = SumFunctionOnSet(f, Session)
  BY SumEqual, DaysAreFinite
<1>5. ASSUME NEW s \in Session, \A r \in Session \ {s} : g[r] = f[r]
      PROVE  SumFunctionOnSet(g, Session) = SumFunctionOnSet(f, Session) - f[s] + g[s]
  BY <1>1, <1>5, SumChange, DaysAreFinite
<1> QED BY <1>1, <1>2, <1>3, <1>4, <1>5

\* What else a commit leaves, once its amounts and sessions are known
LEMMA CommittedDrawers ==
  ASSUME IInv, Drawers, NEW w \in Worker, Commit(w),
         \A d \in Day : paid'[d] <= 1 /\ reversed'[d] <= 1,
         \A s \in Session : RowBounds(session'[s]),
         Total(taken)' <= MaxTaken, Sales' <= Total(taken)' /\ (Required => Sales' = Total(taken)')
  PROVE  Drawers'
<1>1. tx' = [tx EXCEPT ![w] = Idle] /\ UNCHANGED periodVars
  BY DEF Commit
<1>2. TxBounds(Idle)
  BY TradingDayAssumption DEF TxBounds, Idle
<1>3. \A v \in Worker : TxBounds(tx'[v])
  BY <1>1, <1>2 DEF IInv, Shape, Drawers
<1>4. \A v \in Worker : TxBounds(tx[v])'
  BY <1>3 DEF TxBounds
<1> QED BY <1>1, <1>4 DEF Drawers, RowBounds, periodVars

LEMMA CommitMoneyDrawers == ASSUME IInv, Drawers, NEW w \in Worker, Commit(w), CommitMoney(w) PROVE Drawers'
<1> DEFINE t == tx[w]
<1>1. /\ taken \in [Day -> Nat] /\ t.day \in Day /\ taken' = [taken EXCEPT ![t.day] = @ + 1]
      /\ UNCHANGED <<paid, reversed>> /\ Total(taken) < MaxTaken /\ t.op = "counter" /\ t.at = "recorded"
  BY CommitFacts DEF CommitMoney, IInv, Shape
<1>2. taken' \in [Day -> Nat] /\ taken'[t.day] = taken[t.day] + 1 /\ \A d \in Day \ {t.day} : taken'[d] = taken[d]
  BY <1>1
<1>3. Total(taken)' = Total(taken) + 1 /\ Total(taken) \in Int
  <2>1. SumFunctionOnSet(taken', Day) = SumFunctionOnSet(taken, Day) - taken[t.day] + taken'[t.day]
    <3>1. PICK d \in Day : d = t.day
      BY <1>1
    <3>2. IsFiniteSet(Day)
      BY DaysAreFinite
    <3>3. (\A x \in Day : taken[x] \in Int) /\ taken'[d] \in Int /\ \A x \in Day \ {d} : taken'[x] = taken[x]
      BY <1>1, <1>2, <3>1
    <3>4. SumFunctionOnSet(taken', Day) = SumFunctionOnSet(taken, Day) - taken[d] + taken'[d]
      <4> HIDE <1>1, <1>2, <3>1
      <4> QED BY <3>2, <3>3, SumChange
    <3> QED BY <3>1, <3>4
  <2>2. SumFunctionOnSet(taken, Day) \in Int
    BY <1>1, SumInteger, DaysAreFinite
  <2>3. taken[t.day] \in Int
    BY <1>1
  <2> QED BY <1>1, <1>2, <2>1, <2>2, <2>3, SumsUnfold
<1>4. session' \in [Session -> SessionRows] /\ session \in [Session -> SessionRows]
  BY CommitSessions, CommitFacts
<1>5. CASE t.session = 0
  <2>1. session' = session /\ ~Required
    BY <1>1, <1>5 DEF CommitMoney, Drawers, TxBounds
  <2>2. Sales' = Sales /\ Sales \in Int
    BY <1>4, <2>1, SalesStep
  <2>3. \A s \in Session : RowBounds(session'[s])
    BY <2>1 DEF Drawers
  <2>4. Sales' <= Total(taken)' /\ Total(taken)' <= MaxTaken
    BY <1>1, <1>3, <2>2, TradingDayAssumption DEF Drawers
  <2>5. \A d \in Day : paid'[d] <= 1 /\ reversed'[d] <= 1
    BY <1>1 DEF Drawers
  <2> QED BY <2>1, <2>3, <2>4, <2>5, CommittedDrawers
<1>6. CASE t.session # 0
  <2>1. t.session \in Session /\ session[t.session].status = "open"
    BY <1>1, <1>6, CommitFacts DEF Transaction
  <2> DEFINE s == t.session
             row == WithMovement(session[s], t.op, 1)
  <2>2. session' = [session EXCEPT ![s] = row] /\ session[s].cash < MaxCash
    BY <1>6 DEF CommitMoney
  <2>3. session[s] \in SessionRows /\ RowBounds(session[s])
    BY <1>4, <2>1 DEF Drawers
  <2>4. RowBounds(row) /\ row.sales = session[s].sales + 1
    BY <1>1, <2>1, <2>2, <2>3, MovedRowBounds
  <2> HIDE DEF row
  <2>5. session'[s] = row /\ \A r \in Session \ {s} : session'[r] = session[r]
    BY <1>4, <2>1, <2>2
  <2>6. Sales' = Sales - session[s].sales + session'[s].sales /\ Sales \in Int /\ session[s].sales \in Int
    BY <1>4, <2>1, <2>3, <2>5, SalesStep DEF SessionRows
  <2>7. Sales' = Sales + 1
    BY <2>4, <2>5, <2>6
  <2>8. \A r \in Session : RowBounds(session'[r])
    BY <2>4, <2>5 DEF Drawers
  <2>9. Sales' <= Total(taken)' /\ Total(taken)' <= MaxTaken /\ (Required => Sales' = Total(taken)')
    BY <1>1, <1>3, <2>6, <2>7, TradingDayAssumption DEF Drawers
  <2>10. \A d \in Day : paid'[d] <= 1 /\ reversed'[d] <= 1
    BY <1>1 DEF Drawers
  <2> QED BY <2>8, <2>9, <2>10, CommittedDrawers
<1> QED BY <1>5, <1>6

\* No counter money: what is sold stays.
LEMMA NoMoneyDrawers ==
  ASSUME IInv, Drawers, NEW w \in Worker, Commit(w), taken' = taken,
         \A d \in Day : paid'[d] <= 1 /\ reversed'[d] <= 1,
         \A s \in Session : RowBounds(session'[s]) /\ session'[s].sales = session[s].sales
  PROVE  Drawers'
<1>1. Sales' = Sales
  BY CommitSessions, SalesStep
<1>2. Total(taken)' = Total(taken)
  BY DEF Total
<1> QED BY <1>1, <1>2, CommittedDrawers DEF Drawers

LEMMA CommitMovementDrawers == ASSUME IInv, Drawers, NEW w \in Worker, Commit(w), CommitMovement(w) PROVE Drawers'
<1> DEFINE s == tx[w].session
<1>1. tx[w].op = "move" /\ UNCHANGED <<taken, paid, reversed>>
  BY DEF CommitMovement
<1>2. /\ s \in Session /\ session[s].status = "open"
      /\ session[s] \in SessionRows /\ RowBounds(session[s])
  BY <1>1, CommitFacts DEF Transaction, Drawers
<1>3. PICK amount \in {1, -1} :
        /\ IF amount = -1 THEN session[s].cash >= 1 ELSE session[s].cash < MaxCash
        /\ session' = [session EXCEPT ![s] = WithMovement(@, tx[w].op, amount)]
  BY DEF CommitMovement, CanPayOut
<1> DEFINE row == WithMovement(session[s], tx[w].op, amount)
<1>4. RowBounds(row) /\ row.sales = session[s].sales
  BY <1>1, <1>2, <1>3, MovedRowBounds
<1>5. session' = [session EXCEPT ![s] = row]
  BY <1>3
<1> HIDE DEF row
<1>6. session'[s] = row /\ \A r \in Session \ {s} : session'[r] = session[r]
  BY <1>2, <1>5, CommitFacts
<1>7. \A r \in Session : RowBounds(session'[r]) /\ session'[r].sales = session[r].sales
  BY <1>4, <1>6 DEF Drawers
<1> HIDE DEF s
<1> QED BY <1>1, <1>7, NoMoneyDrawers DEF Drawers

LEMMA CommitCountDrawers ==
  ASSUME IInv, Drawers, NEW w \in Worker, Commit(w), CommitClose(w) \/ CommitReview(w) PROVE Drawers'
<1> DEFINE s == tx[w].session
           e == tx[w].expected
<1>1. UNCHANGED <<taken, paid, reversed>> /\ tx[w].op \in {"close", "review"}
  BY DEF CommitClose, CommitReview
<1>2. /\ s \in Session /\ session[s].status # "none" /\ session[s] \in SessionRows /\ RowBounds(session[s])
      /\ e \in 0..MaxCash
  BY <1>1, CommitFacts DEF Transaction, Drawers, TxBounds
<1>3. CASE CommitClose(w)
  <2>1. PICK status \in CloseOutcome : session' = [session EXCEPT ![s].status = status, ![s].expected = e]
    BY <1>3 DEF CommitClose
  <2> DEFINE q == [session[s] EXCEPT !.status = status]
             row == [q EXCEPT !.expected = e]
  <2>2. session' = [session EXCEPT ![s] = row]
    BY <1>2, <2>1, CommitFacts
  <2>3. /\ q \in SessionRows /\ q.status # "none" /\ q.cash = session[s].cash /\ q.sales = session[s].sales
    BY <1>2, <2>1 DEF SessionRows, CloseOutcome
  <2> HIDE DEF q
  <2>4. row.status # "none" /\ row.cash = session[s].cash /\ row.sales = session[s].sales /\ row.expected = e
    BY <2>3 DEF SessionRows
  <2> HIDE DEF row
  <2>5. RowBounds(row)
    BY <1>2, <2>4 DEF RowBounds
  <2>6. session'[s] = row /\ \A r \in Session \ {s} : session'[r] = session[r]
    BY <1>2, <2>2, CommitFacts
  <2>7. \A r \in Session : RowBounds(session'[r]) /\ session'[r].sales = session[r].sales
    BY <2>4, <2>5, <2>6 DEF Drawers
  <2> HIDE DEF s, e
  <2> QED BY <1>1, <2>7, NoMoneyDrawers DEF Drawers
<1>4. CASE CommitReview(w)
  <2> DEFINE row == [session[s] EXCEPT !.status = "closed"]
  <2>1. session' = [session EXCEPT ![s] = row]
    BY <1>4 DEF CommitReview
  <2>2. /\ row.status # "none" /\ row.cash = session[s].cash /\ row.sales = session[s].sales
        /\ row.expected = session[s].expected
    BY <1>2 DEF SessionRows
  <2> HIDE DEF row
  <2>3. RowBounds(row)
    BY <1>2, <2>2 DEF RowBounds
  <2>4. session'[s] = row /\ \A r \in Session \ {s} : session'[r] = session[r]
    BY <1>2, <2>1, CommitFacts
  <2>5. \A r \in Session : RowBounds(session'[r]) /\ session'[r].sales = session[r].sales
    BY <2>2, <2>3, <2>4 DEF Drawers
  <2> HIDE DEF s, e
  <2> QED BY <1>1, <2>5, NoMoneyDrawers DEF Drawers
<1> QED BY <1>3, <1>4

LEMMA CommitOpenDrawers == ASSUME IInv, Drawers, NEW w \in Worker, Commit(w), CommitOpen(w) PROVE Drawers'
<1>1. PICK s \in Session :
        /\ session[s].status = "none"
        /\ session' = [session EXCEPT ![s] = [NoSession EXCEPT !.status = "open", !.opened = tx[w].day]]
  BY DEF CommitOpen
<1> DEFINE q == [NoSession EXCEPT !.status = "open"]
           row == [q EXCEPT !.opened = tx[w].day]
<1>2. session' = [session EXCEPT ![s] = row]
  BY <1>1
<1>3. q \in SessionRows /\ q.sales = 0 /\ q.cash = 0 /\ q.expected = 0
  BY DEF SessionRows, NoSession
<1> HIDE DEF q
<1>4. row.sales = 0 /\ row.cash = 0 /\ row.expected = 0
  BY <1>3 DEF SessionRows
<1> HIDE DEF row
<1>5. session'[s] = row /\ \A r \in Session \ {s} : session'[r] = session[r]
  BY <1>2, CommitFacts
<1>6. session[s].sales = 0
  BY <1>1 DEF Drawers, RowBounds
<1>7. RowBounds(row)
  BY <1>4, TradingDayAssumption DEF RowBounds
<1>8. \A r \in Session : RowBounds(session'[r]) /\ session'[r].sales = session[r].sales
  BY <1>4, <1>5, <1>6, <1>7 DEF Drawers
<1>9. UNCHANGED <<taken, paid, reversed>>
  BY DEF CommitOpen
<1> QED BY <1>8, <1>9, NoMoneyDrawers DEF Drawers

LEMMA CommitSupplierDrawers ==
  ASSUME IInv, Drawers, NEW w \in Worker, Commit(w), CommitPayment(w) \/ CommitReversal(w) PROVE Drawers'
<1>1. taken' = taken /\ session' = session
  BY DEF CommitPayment, CommitReversal
<1>2. paid \in [Day -> Nat] /\ reversed \in [Day -> Nat]
  BY DEF IInv, Shape
<1>3. \A d \in Day : paid'[d] <= 1 /\ reversed'[d] <= 1
  BY <1>2 DEF CommitPayment, CommitReversal, Drawers
<1>4. \A r \in Session : RowBounds(session'[r]) /\ session'[r].sales = session[r].sales
  BY <1>1 DEF Drawers
<1> QED BY <1>1, <1>3, <1>4, NoMoneyDrawers

LEMMA NextDrawers == ASSUME IInv, Drawers, [Next]_vars PROVE Drawers'
<1>1. ASSUME NEW w \in Worker, Begin(w) \/ WorkerStep(w) \/ Rollback(w) PROVE Drawers'
  <2>1. CASE Begin(w)
    BY <2>1, BeginDrawers
  <2>2. CASE Rollback(w)
    BY <2>2, RefusedDrawers DEF Rollback, Refused
  <2>3. CASE Commit(w)
    BY <2>3, CommitMoneyDrawers, CommitMovementDrawers, CommitCountDrawers, CommitOpenDrawers, CommitSupplierDrawers
       DEF Commit
  <2>4. CASE WorkerStep(w)
    BY <2>3, <2>4, WriteDrawers, LockSessionDrawers, ReadPaymentDrawers, RecordDrawers DEF WorkerStep
  <2> QED BY <1>1, <2>1, <2>2, <2>4
<1>2. CASE CloseDay
  BY <1>2, CloseDayDrawers
<1>3. CASE UNCHANGED vars
  BY <1>3, PeriodDrawers DEF vars, bookVars, Drawers
<1> QED BY <1>1, <1>2, <1>3, OtherPeriodDrawers DEF Next

LEMMA DrawersInductive == Spec => [](IInv /\ Drawers)
<1>1. IInv /\ Drawers /\ [Next]_vars => (IInv /\ Drawers)'
  BY NextKeeps, NextDrawers
<1> QED BY <1>1, InitIInv, InitDrawers, PTL DEF Spec

\* Where a session is required, the drawers together have sold what the counter has taken; no
\* drawer is overdrawn, and each is counted against all its movements (recordCounterMoney,
\* addMovement, closeSession).
THEOREM DrawersAlwaysAddUp == Spec => []DrawersAddUp
<1>1. IInv /\ Drawers => CashHasADrawer
  BY DEF Drawers, CashHasADrawer, Sales
<1>2. IInv /\ Drawers => TypeOK
  <2> SUFFICES ASSUME IInv, Drawers PROVE TypeOK
    OBVIOUS
  <2>1. \A d \in Day : taken[d] <= MaxTaken
    <3>1. taken \in [Day -> Nat]
      BY DEF IInv, Shape
    <3>2. Total(taken) \in Nat /\ \A d \in Day : taken[d] <= Total(taken)
      BY <3>1, SumsUnfold, SumMember, SumNatural, DaysAreFinite
    <3> QED BY <3>1, <3>2, TradingDayAssumption DEF Drawers
  <2>2. \A s \in Session : session[s].sales \in 0..MaxTaken
    <3> DEFINE f == [s \in Session |-> session[s].sales]
    <3>1. \A s \in Session : f[s] \in Nat /\ f[s] = session[s].sales
      BY DEF IInv, Shape, SessionRows, Drawers, RowBounds
    <3>2. Sales = SumFunctionOnSet(f, Session)
      BY SumsUnfold
    <3> HIDE DEF f
    <3>3. Sales \in Nat /\ \A s \in Session : f[s] <= Sales
      BY <3>1, <3>2, SumMember, SumNatural, DaysAreFinite
    <3>4. Total(taken) \in Nat /\ Sales <= Total(taken) /\ Total(taken) <= MaxTaken
      BY SumsUnfold, SumNatural, DaysAreFinite DEF IInv, Shape, Drawers
    <3> QED BY <3>1, <3>3, <3>4, TradingDayAssumption
  <2>3. session \in [Session -> [status : {"none", "open", "pending_review", "closed"},
                                opened : 0..LastDay, sales : 0..MaxTaken,
                                cash : 0..MaxCash, expected : 0..MaxCash]]
    <3>1. \A s \in Session : session[s].opened \in 0..LastDay
      BY TradingDayAssumption DEF IInv, OpenedOnADay, Day
    <3> QED BY <2>2, <3>1 DEF IInv, Shape, SessionRows, Drawers, RowBounds
  <2>4. tx \in [Worker -> [op : Op \cup {"none"}, day : 0..LastDay,
                           at : {"idle", "begun", "read", "written", "recorded"}, guard : BOOLEAN,
                           session : 0..MaxSessions, expected : 0..MaxCash, of : 0..LastDay]]
    <3>1. tx \in [Worker -> Transactions] /\ LastDay \in Nat /\ MaxSessions \in Nat
      BY TradingDayAssumption DEF IInv, Shape
    <3>2. \A w \in Worker : tx[w].session \in 0..MaxSessions
      BY <3>1 DEF IInv, TransactionsOK, Transaction, Session
    <3>3. \A w \in Worker : tx[w].day \in 0..LastDay /\ tx[w].of \in 0..LastDay /\ tx[w].expected \in 0..MaxCash
      BY <3>1 DEF Drawers, TxBounds, Transactions
    <3> QED BY <3>1, <3>2, <3>3 DEF Transactions
  <2>5. report \in [Day -> [taken : 0..MaxTaken, supplier : 0..1, sessions : SUBSET Session]]
    <3>1. report \in [Day -> [taken : Nat, supplier : Nat, sessions : SUBSET Session]]
      BY DEF IInv, Shape
    <3>2. \A d \in Day : report[d].taken <= MaxTaken /\ report[d].supplier <= 1
      BY DEF Drawers
    <3>3. \A d \in Day : report[d].taken \in 0..MaxTaken /\ report[d].supplier \in 0..1
      BY <3>1, <3>2, TradingDayAssumption
    <3> QED BY <3>1, <3>3
  <2>6. closing \in [op : {"none", "day", "month"}, of : 0..LastDay]
    BY TradingDayAssumption DEF IInv, Shape, Drawers
  <2>7. taken \in [Day -> 0..MaxTaken] /\ paid \in [Day -> 0..1] /\ reversed \in [Day -> 0..1]
    <3>1. taken \in [Day -> Nat] /\ paid \in [Day -> Nat] /\ reversed \in [Day -> Nat]
      BY DEF IInv, Shape
    <3>2. \A d \in Day : paid[d] <= 1 /\ reversed[d] <= 1
      BY DEF Drawers
    <3>3. \A d \in Day : taken[d] \in 0..MaxTaken /\ paid[d] \in 0..1 /\ reversed[d] \in 0..1
      BY <3>1, <3>2, <2>1, TradingDayAssumption
    <3> QED BY <3>1, <3>3
  <2> QED BY <2>3, <2>4, <2>5, <2>6, <2>7 DEF IInv, Shape, Drawers, TypeOK
<1>3. IInv /\ Drawers => DrawersAddUp
  BY <1>1, <1>2 DEF DrawersAddUp, IInv
<1> QED BY <1>3, DrawersInductive, PTL

-----------------------------------------------------------------------------
(* Payments of closed days.                                                *)

LEMMA CommitReports ==
  ASSUME IInv, Drawers, ReportMissesOnlyReversals, NEW w \in Worker, Commit(w)
  PROVE  ReportMissesOnlyReversals'
<1>1. UNCHANGED periodVars /\ tx[w].at = "recorded"
  BY DEF Commit
<1>2. /\ tx[w].day \in Day /\ dayState[tx[w].day] # "closed"
      /\ paid \in [Day -> Nat] /\ reversed \in [Day -> Nat]
      /\ \A d \in Day : paid[d] <= 1 /\ report[d].supplier <= 1 /\ report[d].supplier \in Nat
  BY <1>1 DEF IInv, Shape, TransactionsOK, Transaction, Drawers
<1>3. CASE UNCHANGED <<paid, reversed>>
  BY <1>1, <1>3 DEF periodVars, ReportMissesOnlyReversals
<1>4. CASE CommitPayment(w)
  <2> SUFFICES ASSUME NEW d \in Day, dayState[d] = "closed"
               PROVE  UNCHANGED <<paid[d], reversed[d]>>
    BY <1>1 DEF periodVars, ReportMissesOnlyReversals
  <2> QED BY <1>2, <1>4 DEF CommitPayment
<1>5. CASE CommitReversal(w)
  <2>1. PICK of \in Nat : of = tx[w].of
    BY DEF IInv, Shape, Transactions
  <2>2. /\ paid' = [paid EXCEPT ![of] = 0] /\ reversed' = [reversed EXCEPT ![of] = 1]
        /\ of \in Day /\ paid[of] = 1
    BY <1>5, <2>1 DEF CommitReversal, IInv, TransactionsOK, Transaction
  <2>3. ASSUME dayState[of] = "closed" PROVE report[of].supplier = 1
    BY <1>2, <2>2, <2>3 DEF ReportMissesOnlyReversals
  <2>4. /\ paid'[of] = 0 /\ reversed'[of] = 1
        /\ \A d \in Day \ {of} : paid'[d] = paid[d] /\ reversed'[d] = reversed[d]
    BY <1>2, <2>2
  <2> QED BY <1>1, <2>3, <2>4 DEF periodVars, ReportMissesOnlyReversals
<1> QED BY <1>3, <1>4, <1>5 DEF Commit, CommitMoney, CommitMovement, CommitOpen, CommitClose, CommitReview

LEMMA PeriodReports ==
  ASSUME IInv, ReportMissesOnlyReversals, UNCHANGED bookVars,
         \A d \in Day : dayState'[d] = "closed" =>
           \/ dayState[d] = "closed" /\ report'[d] = report[d]
           \/ report'[d] = Figures(d)
  PROVE  ReportMissesOnlyReversals'
<1> SUFFICES ASSUME NEW d \in Day, dayState'[d] = "closed"
             PROVE  \/ report'[d].supplier = paid[d]
                    \/ report'[d].supplier = 1 /\ paid[d] = 0 /\ reversed[d] = 1
  BY DEF bookVars, ReportMissesOnlyReversals
<1>1. Figures(d).supplier = paid[d]
  BY DEF Figures
<1> QED BY <1>1 DEF ReportMissesOnlyReversals

LEMMA NextReports ==
  ASSUME IInv, Drawers, ReportMissesOnlyReversals, [Next]_vars
  PROVE  ReportMissesOnlyReversals'
<1>1. CASE \E w \in Worker : Commit(w)
  BY <1>1, CommitReports
<1>2. CASE UNCHANGED <<dayState, report, bookVars>>
  BY <1>2, PeriodReports
<1>3. CASE CloseDay
  BY <1>3, PeriodReports DEF CloseDay, IInv, Shape
<1>4. ASSUME NEW d \in Day, ReopenDay(d) PROVE ReportMissesOnlyReversals'
  BY <1>4, PeriodReports DEF ReopenDay, IInv, Shape
<1>5. ASSUME NEW w \in Worker, Begin(w) \/ WorkerStep(w) \/ Rollback(w) PROVE ReportMissesOnlyReversals'
  BY <1>1, <1>2, <1>5 DEF Begin, WorkerStep, Rollback, Write, LockSession, ReadPayment, RecordCounterMoney, periodVars
<1>6. CASE Midnight \/ CloseMonth \/ UNCHANGED vars
  BY <1>2, <1>6 DEF Midnight, CloseMonth, vars, periodVars, bookVars
<1>7. CASE \E d \in Day : StartCloseDay(d)
  BY <1>2, <1>7 DEF StartCloseDay
<1>8. CASE \E m \in Month : StartCloseMonth(m) \/ ReopenMonth(m)
  BY <1>2, <1>8 DEF StartCloseMonth, ReopenMonth
<1> QED BY <1>3, <1>4, <1>5, <1>6, <1>7, <1>8 DEF Next

\* The report of a closed day holds all of the day's counter money and closed sessions, and
\* no session is left behind: closeDay waits for every transaction that has the day's lock,
\* and none that takes it later finds its day open.  Of its payments to suppliers it is off by
\* a reversal at most, which checked the day without that lock (assertChangeable).
THEOREM ClosedDaysAlwaysStand == Spec => []ClosedDaysStand
<1>1. Init => ReportMissesOnlyReversals
  BY DEF Init, ReportMissesOnlyReversals
<1>2. (IInv /\ Drawers /\ ReportMissesOnlyReversals) /\ [Next]_vars => (IInv /\ Drawers /\ ReportMissesOnlyReversals)'
  BY NextKeeps, NextDrawers, NextReports
<1>3. IInv /\ ReportMissesOnlyReversals => ClosedDaysStand
  BY DEF IInv, DaysStand, ClosedDaysStand
<1> QED BY <1>1, <1>2, <1>3, InitIInv, InitDrawers, PTL DEF Spec

-----------------------------------------------------------------------------
(* What a close waits for does not wait for it.                            *)

\* The next statement of the transaction gets its locks at once: the guarded write of what
\* it has read, the session of the money it has written, or its commit.
NeedNotWait(w) ==
  \/ tx[w].at = "read" /\ SharedGranted(w)
  \/ tx[w].at = "written" /\ (OpenSession = 0 \/ MayLock(w, OpenSession))
  \/ tx[w].at = "recorded"

CloseAwaitsSomeoneMoving ==
  closing.op = "day" /\ ~ExclusiveGranted => \E w \in Worker : NeedNotWait(w)

\* Workers and the close of a day never wait for each other in a circle: as long as the close
\* waits, some transaction need not.  It is why CloseGetsItsTurn can hold, and it rests on the
\* write that is let past the close when the holder of the day waits for its session.
THEOREM ClosesNeverWaitInACircle == Spec => []CloseAwaitsSomeoneMoving
<1>1. ASSUME IInv PROVE CloseAwaitsSomeoneMoving
  <2> SUFFICES ASSUME ~ExclusiveGranted PROVE \E w \in Worker : NeedNotWait(w)
    BY DEF CloseAwaitsSomeoneMoving
  <2>1. PICK w \in Worker : tx[w].guard
    BY DEF ExclusiveGranted
  <2>2. tx[w].at \in {"written", "recorded"}
    BY <1>1, <2>1 DEF IInv, TransactionsOK, Transaction
  <2>3. CASE tx[w].at = "recorded" \/ OpenSession = 0 \/ MayLock(w, OpenSession)
    BY <2>2, <2>3 DEF NeedNotWait
  <2>4. CASE tx[w].at = "written" /\ OpenSession # 0 /\ ~MayLock(w, OpenSession)
    <3>1. PICK v \in Worker \ {w} : tx[v].session = OpenSession
      BY <2>4 DEF MayLock
    <3>2. tx[v] \in Transactions /\ Transaction(tx[v]) /\ tx[v].session # 0
      BY <1>1, <2>4, <3>1 DEF IInv, Shape, TransactionsOK
    <3>3. tx[v].at \in {"read", "recorded"}
      BY <3>2 DEF Transactions, Transaction
    <3>4. SharedGranted(v)
      BY <2>1, <2>4, <3>1, <3>2 DEF SharedGranted, AwaitedByHolder
    <3> QED BY <3>3, <3>4 DEF NeedNotWait
  <2> QED BY <2>2, <2>3, <2>4
<1> QED BY <1>1, Inductive, PTL
===============================================================================
