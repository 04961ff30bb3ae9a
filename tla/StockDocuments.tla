---------------------------- MODULE StockDocuments ----------------------------
(***************************************************************************)
(* Documents that move stock or correct it over days: a transfer note from *)
(* one branch to another (modules/transfers) and a stock count of one of   *)
(* their locations (modules/stockCounts), with the sales, the losses and   *)
(* the corrections by hand that happen in between.                         *)
(*                                                                         *)
(* Every use case locks its document and then the stock rows it writes, so *)
(* each is one action; a refused one is no step.  What takes time is       *)
(* outside the database: copies travel, and a book is counted on the shelf *)
(* before its number is sent.  So the model also knows what the program    *)
(* cannot: how many copies there really are.                               *)
(*                                                                         *)
(* Costs, history and alerts of these changes are in Inventory.            *)
(***************************************************************************)
EXTENDS Integers

CONSTANTS
  Book,
  InitialStock, \* [Book -> copies at the location a note sends from]
  CountedAt,    \* the locations that are counted, of Place
  MaxCopies,    \* bound: [Book -> copies on a line]
  MaxSold,      \* bound: [Book -> copies sold]
  MaxAstray,    \* bound: [Book -> copies lost on the shelves]
  NegativeAllowed \* allow_negative_stock, of both branches

ASSUME StockDocumentsAssumption ==
  /\ InitialStock \in [Book -> Nat] /\ MaxCopies \in [Book -> Nat]
  /\ MaxSold \in [Book -> Nat] /\ MaxAstray \in [Book -> Nat]
  /\ NegativeAllowed \in BOOLEAN
  /\ CountedAt \subseteq {"from", "to"}

Place == {"from", "to"}

VARIABLES
  stock,    \* [Place -> [Book -> the quantity of the inventory row]]
  missing,  \* [Place -> [Book -> copies of it that are not on the shelf (more, if negative)]]
  damaged,  \* [Book -> damaged copies at the receiving branch]
  gone,     \* [Book -> copies sold or taken off the record, less those put on it]
  note,     \* the transfer note: status and, for each book, its line
  count,    \* the last count: status, place and, for each book, its line
  look,     \* [Book -> the copies someone saw on the shelf and has not entered]
  astray,   \* bound: [Book -> copies lost on the shelves]
  disturbed \* books for which an entry of the count was not, or is no longer, the truth

vars == <<stock, missing, damaged, gone, note, count, look, astray, disturbed>>
countVars == <<count, look, disturbed>>
shelfVars == <<stock, missing, gone, astray>>

NoteStatus == {"draft", "in_transit", "partially_received", "received", "closed", "cancelled"}
CountStatus == {"none", "counting", "submitted", "posted"}
NoLine == [quantity |-> 0, received |-> 0, lost |-> 0, damaged |-> 0, returned |-> 0]
Uncounted == [on |-> FALSE, counted |-> FALSE, quantity |-> 0, expected |-> 0]
NoCount == [status |-> "none", place |-> "from", line |-> [b \in Book |-> Uncounted]]
NotLooked == [open |-> FALSE, quantity |-> 0, moved |-> FALSE]

TypeOK ==
  /\ stock \in [Place -> [Book -> Int]] /\ missing \in [Place -> [Book -> Int]]
  /\ damaged \in [Book -> Nat] /\ gone \in [Book -> Int]
  /\ note \in [status : NoteStatus,
               line : [Book -> [quantity : Nat, received : Nat, lost : Nat, damaged : Nat, returned : Nat]]]
  /\ count \in [status : CountStatus, place : Place,
                line : [Book -> [on : BOOLEAN, counted : BOOLEAN, quantity : Nat, expected : Int]]]
  /\ look \in [Book -> [open : BOOLEAN, quantity : Nat, moved : BOOLEAN]]
  /\ astray \in [Book -> Nat] /\ disturbed \subseteq Book

Init ==
  /\ stock = [p \in Place |-> [b \in Book |-> IF p = "from" THEN InitialStock[b] ELSE 0]]
  /\ missing = [p \in Place |-> [b \in Book |-> 0]]
  /\ damaged = [b \in Book |-> 0] /\ gone = [b \in Book |-> 0]
  /\ note = [status |-> "draft", line |-> [b \in Book |-> NoLine]]
  /\ count = NoCount
  /\ look = [b \in Book |-> NotLooked]
  /\ astray = [b \in Book |-> 0] /\ disturbed = {}

-----------------------------------------------------------------------------
(* Shelves.                                                                *)

\* Copies really there
Shelf(p, b) == stock[p][b] - missing[p][b]

Open == count.status \in {"counting", "submitted"}

\* Observation: copies of `books` are booked in or out at `p`.  What someone has seen there
\* and not entered is no longer what is there.
Moved(p, books) ==
  look' = IF Open /\ count.place = p
          THEN [b \in Book |-> IF b \in books THEN [look[b] EXCEPT !.moved = TRUE] ELSE look[b]]
          ELSE look

\* Observation: record and shelf of `b` move apart, or together, at `p`.
Disturbs(p, b) ==
  /\ Moved(p, {b})
  /\ disturbed' = IF count.place = p THEN disturbed \cup {b} ELSE disturbed

\* A copy is sold (Inventory, Orders, Counter).
Sell(p, b) ==
  /\ Shelf(p, b) > 0 /\ (stock[p][b] > 0 \/ NegativeAllowed)
  /\ gone[b] < MaxSold[b]
  /\ stock' = [stock EXCEPT ![p][b] = @ - 1]
  /\ gone' = [gone EXCEPT ![b] = @ + 1]
  /\ Moved(p, {b})
  /\ UNCHANGED <<missing, damaged, note, count, astray, disturbed>>

\* A copy disappears from its shelf (external).
GoAstray(p, b) ==
  /\ astray[b] < MaxAstray[b] /\ Shelf(p, b) > 0
  /\ missing' = [missing EXCEPT ![p][b] = @ + 1]
  /\ astray' = [astray EXCEPT ![b] = @ + 1]
  /\ Disturbs(p, b)
  /\ UNCHANGED <<stock, damaged, gone, note, count>>

\* adjustStock: someone sets a record right by hand.
Correct(p, b) ==
  /\ missing[p][b] # 0
  /\ stock' = [stock EXCEPT ![p][b] = @ - missing[p][b]]
  /\ gone' = [gone EXCEPT ![b] = @ + missing[p][b]]
  /\ missing' = [missing EXCEPT ![p][b] = 0]
  /\ Disturbs(p, b)
  /\ UNCHANGED <<damaged, note, count, astray>>

-----------------------------------------------------------------------------
(* The transfer note (transfers.service.ts).                               *)

\* outstanding
OnTheWay(line) == line.quantity - line.received - line.lost - line.damaged - line.returned

NoteLines == {b \in Book : note.line[b].quantity > 0}

\* create, or update, which replaces the lines whole
Draft(quantities) ==
  /\ note.status = "draft" /\ \E b \in Book : quantities[b] > 0
  /\ \A b \in Book : quantities[b] <= MaxCopies[b]
  /\ note' = [note EXCEPT !.line = [b \in Book |-> [NoLine EXCEPT !.quantity = quantities[b]]]]
  /\ UNCHANGED <<shelfVars, damaged, countVars>>

\* cancel
CancelNote ==
  /\ note.status = "draft" /\ NoteLines # {}
  /\ note' = [note EXCEPT !.status = "cancelled"]
  /\ UNCHANGED <<shelfVars, damaged, countVars>>

\* Copies of the note that are not there to be packed: they are on their way on paper only.
OnPaper(b) == IF Shelf("from", b) < note.line[b].quantity THEN note.line[b].quantity - Shelf("from", b) ELSE 0

\* dispatch (sendStock): by the record every line leaves, never below zero, or none does.
Dispatch ==
  /\ note.status = "draft" /\ NoteLines # {}
  /\ \A b \in NoteLines : stock["from"][b] >= note.line[b].quantity
  /\ stock' = [stock EXCEPT !["from"] = [b \in Book |-> @[b] - note.line[b].quantity]]
  /\ missing' = [missing EXCEPT !["from"] = [b \in Book |-> @[b] - OnPaper(b)]]
  /\ note' = [note EXCEPT !.status = "in_transit"]
  /\ Moved("from", NoteLines)
  /\ disturbed' = IF count.place = "from" THEN disturbed \cup {b \in Book : OnPaper(b) > 0} ELSE disturbed
  /\ UNCHANGED <<damaged, gone, astray, count>>

\* statusAfter
StatusAfter(line) ==
  IF \A b \in NoteLines : line[b].received = line[b].quantity THEN "received"
  ELSE IF \A b \in NoteLines : OnTheWay(line[b]) = 0 THEN "closed"
  ELSE IF \E b \in NoteLines : OnTheWay(line[b]) < line[b].quantity THEN "partially_received"
  ELSE "in_transit"

\* Mutant: a receipt is checked against what was sent.
MutantWithinSent(line, quantity) == quantity <= line.quantity

\* checkWithinOutstanding
WithinOutstanding(line, quantity) == quantity <= OnTheWay(line)

CanReceive == note.status \in {"in_transit", "partially_received"}

\* receive: what arrived of each line, into a location of the receiving branch
ReceiveNote(arrived) ==
  LET line == [b \in Book |-> [note.line[b] EXCEPT !.received = @ + arrived[b]]]
  IN /\ CanReceive
     /\ \E b \in Book : arrived[b] > 0
     /\ \A b \in Book : arrived[b] > 0 => b \in NoteLines /\ WithinOutstanding(note.line[b], arrived[b])
     /\ stock' = [stock EXCEPT !["to"] = [b \in Book |-> @[b] + arrived[b]]]
     /\ note' = [status |-> StatusAfter(line), line |-> line]
     /\ Moved("to", {b \in Book : arrived[b] > 0})
     /\ UNCHANGED <<missing, damaged, gone, astray, count, disturbed>>

\* A line some copies of which did not arrive
Resolved(line, quantity, outcome) ==
  CASE outcome = "lost" -> [line EXCEPT !.lost = @ + quantity]
    [] outcome = "damaged" -> [line EXCEPT !.damaged = @ + quantity]
    [] outcome = "returned" -> [line EXCEPT !.returned = @ + quantity]

\* resolve: copies that did not arrive are lost, damaged, or back where they came from.
Resolve(b, quantity, outcome) ==
  LET line == [note.line EXCEPT ![b] = Resolved(@, quantity, outcome)]
  IN /\ CanReceive
     /\ b \in NoteLines /\ WithinOutstanding(note.line[b], quantity)
     /\ note' = [status |-> StatusAfter(line), line |-> line]
     /\ damaged' = IF outcome = "damaged" THEN [damaged EXCEPT ![b] = @ + quantity] ELSE damaged
     /\ IF outcome = "returned"
        THEN stock' = [stock EXCEPT !["from"][b] = @ + quantity] /\ Moved("from", {b})
        ELSE UNCHANGED <<stock, look>>
     /\ UNCHANGED <<missing, gone, astray, count, disturbed>>

-----------------------------------------------------------------------------
(* The count (stockCounts.service.ts).                                     *)

\* open: one open count of a location, of all its books or of some
OpenCount(p, books) ==
  /\ ~Open /\ books # {}
  /\ count' = [status |-> "counting", place |-> p,
               line |-> [b \in Book |->
                 IF b \in books THEN [on |-> TRUE, counted |-> FALSE, quantity |-> 0, expected |-> stock[p][b]]
                 ELSE Uncounted]]
  /\ look' = [b \in Book |-> NotLooked]
  /\ disturbed' = {}
  /\ UNCHANGED <<shelfVars, damaged, note>>

\* Someone counts the copies of a book on the shelf, on the count or not.
LookAt(b) ==
  /\ count.status = "counting"
  /\ look' = [look EXCEPT ![b] = [open |-> TRUE, quantity |-> Shelf(count.place, b), moved |-> FALSE]]
  /\ UNCHANGED <<shelfVars, damaged, note, count, disturbed>>

\* Mutant: a count is set against the quantity frozen when the count was opened.
MutantSetAgainstFrozen(b, quantity) ==
  [count.line[b] EXCEPT !.on = TRUE, !.counted = TRUE, !.quantity = quantity]

\* recordCount: set against what the location holds at that moment, read under the row's lock
Counted(b, quantity) ==
  [on |-> TRUE, counted |-> TRUE, quantity |-> quantity, expected |-> stock[count.place][b]]

\* enterCounts: the numbers of some books, as they were seen; a book counted again replaces
\* its number, a book not on the count is added.
EnterCounts(books) ==
  /\ count.status = "counting"
  /\ books # {} /\ \A b \in books : look[b].open
  /\ count' = [count EXCEPT !.line = [b \in Book |->
                 IF b \in books THEN Counted(b, look[b].quantity) ELSE count.line[b]]]
  /\ look' = [b \in Book |-> IF b \in books THEN NotLooked ELSE look[b]]
  /\ disturbed' = (disturbed \ books) \cup {b \in books : look[b].moved}
  /\ UNCHANGED <<shelfVars, damaged, note>>

\* submit; a book sent back for a recount need not have been counted again.
Submit ==
  /\ count.status = "counting"
  /\ count' = [count EXCEPT !.status = "submitted"]
  /\ UNCHANGED <<shelfVars, damaged, note, look, disturbed>>

\* recount: some books on the count are sent back.
Recount ==
  /\ count.status = "submitted" /\ \E b \in Book : count.line[b].on
  /\ count' = [count EXCEPT !.status = "counting"]
  /\ UNCHANGED <<shelfVars, damaged, note, look, disturbed>>

\* difference
Difference(line) == IF line.counted THEN line.quantity - line.expected ELSE 0

\* post: books never counted and named by the reviewer count as zero, against what the
\* location holds now; then every difference is booked (postCountDifference), or none is.
Post(zero) ==
  LET p == count.place
      line == [b \in Book |-> IF b \in zero THEN Counted(b, 0) ELSE count.line[b]]
      after == [b \in Book |-> stock[p][b] + Difference(line[b])]
  IN /\ count.status = "submitted"
     /\ \A b \in zero : count.line[b].on /\ ~count.line[b].counted
     /\ \A b \in Book : Difference(line[b]) # 0 => after[b] >= 0 \/ NegativeAllowed
     /\ stock' = [stock EXCEPT ![p] = after]
     /\ missing' = [missing EXCEPT ![p] = [b \in Book |-> @[b] + Difference(line[b])]]
     /\ gone' = [b \in Book |-> gone[b] - Difference(line[b])]
     \* Which books it counted is all that is looked at afterwards.
     /\ count' = [count EXCEPT !.status = "posted",
                   !.line = [b \in Book |-> [on |-> FALSE, counted |-> line[b].counted, quantity |-> 0, expected |-> 0]]]
     /\ look' = [b \in Book |-> NotLooked]
     /\ disturbed' = (disturbed \ zero) \cup {b \in zero : Shelf(p, b) # 0}
     /\ UNCHANGED <<damaged, note, astray>>

\* cancel; nothing reads a cancelled count.
CancelCount ==
  /\ Open
  /\ count' = NoCount
  /\ look' = [b \in Book |-> NotLooked] /\ disturbed' = {}
  /\ UNCHANGED <<shelfVars, damaged, note>>

-----------------------------------------------------------------------------
Quantities == [Book -> UNION {0..MaxCopies[b] : b \in Book}]

Next ==
  \/ \E p \in Place, b \in Book : Sell(p, b)
  \/ \E p \in CountedAt, b \in Book : GoAstray(p, b) \/ Correct(p, b)
  \/ \E q \in Quantities : Draft(q) \/ ReceiveNote(q)
  \/ CancelNote
  \/ Dispatch
  \/ \E b \in Book, outcome \in {"lost", "damaged", "returned"} :
       \E n \in 1..MaxCopies[b] : Resolve(b, n, outcome)
  \/ \E p \in CountedAt, books \in SUBSET Book : OpenCount(p, books)
  \/ \E b \in Book : LookAt(b)
  \/ \E books \in SUBSET Book : EnterCounts(books) \/ Post(books)
  \/ Submit
  \/ Recount
  \/ CancelCount

Spec == Init /\ [][Next]_vars

-----------------------------------------------------------------------------
(* Properties.                                                             *)

Sent == note.status \notin {"draft", "cancelled"}

\* What a note sent is on the shelves of the other branch, among its damaged copies, back,
\* lost, or still on the way, whatever arrived in parts and was sold, corrected or counted
\* meanwhile: no copy is booked twice and none is forgotten (checkWithinOutstanding).
EveryCopySomewhere ==
  \A b \in Book :
    LET line == note.line[b]
    IN stock["from"][b] + stock["to"][b] + damaged[b] + gone[b]
         + (IF Sent THEN OnTheWay(line) + line.lost ELSE 0) = InitialStock[b]

\* "A transfer's status agrees with what its lines received and resolved" (rules.ts:329).
NoteTellsItsLines ==
  LET way == {b \in NoteLines : OnTheWay(note.line[b]) > 0}
      begun == {b \in NoteLines : OnTheWay(note.line[b]) < note.line[b].quantity}
      short == {b \in NoteLines : note.line[b].received < note.line[b].quantity}
  IN /\ \A b \in Book : OnTheWay(note.line[b]) >= 0
     /\ note.status \in {"draft", "cancelled", "in_transit"} => begun = {}
     /\ note.status = "partially_received" => begun # {} /\ way # {}
     /\ note.status \in {"received", "closed"} => way = {}
     /\ note.status = "received" => short = {}
     /\ note.status = "closed" => short # {}

NotesAccountForTheirCopies == EveryCopySomewhere /\ NoteTellsItsLines

\* stockCounts.service.ts: "Each count is set against what the location holds at that moment,
\* so a sale during the count is never a shortage".  A posted count leaves the record of a
\* counted book at what is on its shelf, whatever was sold, received or sent between its
\* entry and the posting; unless copies were booked between the look at the shelf and the
\* entry, or, since then, the record was corrected by hand, copies went astray, or a note sent
\* copies that were not there.
PostedCountsAreTrue ==
  count.status = "posted" =>
    \A b \in Book \ disturbed : count.line[b].counted => missing[count.place][b] = 0
===============================================================================
