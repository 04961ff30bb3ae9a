------------------------- MODULE StockDocumentsProofs -------------------------
(***************************************************************************)
(* That every copy of a transfer note is somewhere, once, and that a       *)
(* posted count is true, for any number of books and copies.               *)
(*                                                                         *)
(* The inductive invariant is IInv.  That a count is true when it is       *)
(* posted rests on what an entry means until then (EntriesAreTrue): the    *)
(* number entered and the number it was set against are as far apart as    *)
(* the record and the shelf still are.  That rests on what someone has     *)
(* seen and not entered (LooksAreTrue).                                    *)
(***************************************************************************)
EXTENDS StockDocuments, TLAPS

NoteLine == [quantity : Nat, received : Nat, lost : Nat, damaged : Nat, returned : Nat]
CountLine == [on : BOOLEAN, counted : BOOLEAN, quantity : Nat, expected : Int]
LookState == [open : BOOLEAN, quantity : Nat, moved : BOOLEAN]

\* No shelf holds fewer copies than none, whatever its record says.
ShelvesHold == \A p \in Place, b \in Book : Shelf(p, b) >= 0

\* What was seen on the shelf and not entered is still there, unless a booking came between.
LooksAreTrue ==
  Open => \A b \in Book : look[b].open /\ ~look[b].moved => look[b].quantity = Shelf(count.place, b)

\* An entry is off its expected quantity by what the record is off the shelf.
EntriesAreTrue ==
  Open => \A b \in Book \ disturbed :
            count.line[b].counted => Difference(count.line[b]) = -missing[count.place][b]

NoteInv == TypeOK /\ ShelvesHold /\ NoteTellsItsLines /\ EveryCopySomewhere
CountInv == LooksAreTrue /\ EntriesAreTrue /\ PostedCountsAreTrue
IInv == NoteInv /\ CountInv

-----------------------------------------------------------------------------
(* Types, and what a line says.                                            *)

LEMMA NoLineType == NoLine \in NoteLine
  BY DEF NoLine, NoteLine

LEMMA RowTypes == ASSUME TypeOK PROVE
  /\ note \in [status : NoteStatus, line : [Book -> NoteLine]]
  /\ count \in [status : CountStatus, place : Place, line : [Book -> CountLine]]
  /\ look \in [Book -> LookState]
  BY DEF TypeOK, NoteLine, CountLine, LookState

\* The fields of every row are numbers.
LEMMA Numbers ==
  ASSUME TypeOK, NEW b \in Book
  PROVE  /\ \A p \in Place : stock[p][b] \in Int /\ missing[p][b] \in Int
         /\ damaged[b] \in Nat /\ gone[b] \in Int
         /\ note.line[b] \in NoteLine /\ count.line[b] \in CountLine /\ look[b] \in LookState
         /\ count.place \in Place
  BY RowTypes DEF TypeOK

LEMMA ShelfIsInt == ASSUME TypeOK, NEW p \in Place, NEW b \in Book PROVE Shelf(p, b) \in Int
  BY Numbers DEF Shelf

LEMMA LineSum ==
  ASSUME NEW line \in NoteLine
  PROVE  /\ OnTheWay(line) \in Int
         /\ OnTheWay(line) = line.quantity - line.received - line.lost - line.damaged - line.returned
  BY DEF OnTheWay, NoteLine

\* A line of a note that was not sent has nothing but its quantity.
LEMMA UnsentLines ==
  ASSUME NoteInv, ~Sent \/ note.status = "in_transit", NEW b \in Book
  PROVE  /\ OnTheWay(note.line[b]) = note.line[b].quantity
         /\ note.line[b].received = 0 /\ note.line[b].lost = 0
         /\ note.line[b].damaged = 0 /\ note.line[b].returned = 0
<1>1. note.line[b] \in NoteLine
  BY Numbers DEF NoteInv
<1>2. OnTheWay(note.line[b]) >= 0
  BY DEF NoteInv, NoteTellsItsLines
<1>3. OnTheWay(note.line[b]) >= note.line[b].quantity
  <2>1. CASE b \in NoteLines
    <3>1. ~(OnTheWay(note.line[b]) < note.line[b].quantity)
      BY <2>1 DEF NoteInv, NoteTellsItsLines, Sent
    <3> QED BY <3>1, <1>1, LineSum DEF NoteLine
  <2>2. CASE b \notin NoteLines
    BY <2>2, <1>1, <1>2, LineSum DEF NoteLines, NoteLine
  <2> QED BY <2>1, <2>2
<1> QED BY <1>1, <1>3, LineSum DEF NoteLine


\* What a booking does to what was seen on the shelf.
LEMMA MovedLooks ==
  ASSUME TypeOK, NEW p \in Place, NEW books, Moved(p, books)
  PROVE  /\ look' \in [Book -> LookState]
         /\ \A b \in Book :
              /\ look'[b].open = look[b].open /\ look'[b].quantity = look[b].quantity
              /\ look[b].moved => look'[b].moved
              /\ Open /\ count.place = p /\ b \in books => look'[b].moved
<1>1. look \in [Book -> LookState]
  BY RowTypes
<1>2. CASE Open /\ count.place = p
  <2>1. look' = [b \in Book |-> IF b \in books THEN [look[b] EXCEPT !.moved = TRUE] ELSE look[b]]
    BY <1>2 DEF Moved
  <2>2. \A b \in Book : [look[b] EXCEPT !.moved = TRUE] \in LookState
    BY <1>1 DEF LookState
  <2>3. look' \in [Book -> LookState]
    BY <1>1, <2>1, <2>2
  <2>4. ASSUME NEW b \in Book
        PROVE  /\ look'[b].open = look[b].open /\ look'[b].quantity = look[b].quantity
               /\ look[b].moved => look'[b].moved
               /\ b \in books => look'[b].moved
    BY <1>1, <2>1 DEF LookState
  <2> QED BY <2>3, <2>4
<1>3. CASE ~(Open /\ count.place = p)
  BY <1>1, <1>3 DEF Moved
<1> QED BY <1>2, <1>3

-----------------------------------------------------------------------------
(* Steps that sell, lose or correct one book.                              *)

Steps(p, b) == Sell(p, b) \/ GoAstray(p, b) \/ Correct(p, b)

\* They leave the note alone, and what a shelf and its record lose or gain is counted.
LEMMA ShelfStep ==
  ASSUME NoteInv, NEW p \in Place, NEW b \in Book, Steps(p, b)
  PROVE  /\ stock' \in [Place -> [Book -> Int]] /\ missing' \in [Place -> [Book -> Int]]
         /\ gone' \in [Book -> Int] /\ astray' \in [Book -> Nat]
         /\ \A q \in Place, c \in Book : q # p \/ c # b =>
              stock'[q][c] = stock[q][c] /\ missing'[q][c] = missing[q][c]
         /\ \A c \in Book : c # b => gone'[c] = gone[c]
         /\ stock'[p][b] + gone'[b] = stock[p][b] + gone[b]
         /\ stock'[p][b] - missing'[p][b] >= 0
         /\ UNCHANGED <<damaged, note, count>> /\ Moved(p, {b})
         /\ Sell(p, b) => missing' = missing /\ disturbed' = disturbed
         /\ ~Sell(p, b) => Disturbs(p, b)
<1>1. stock[p][b] \in Int /\ missing[p][b] \in Int /\ gone[b] \in Int /\ Shelf(p, b) = stock[p][b] - missing[p][b]
  BY Numbers DEF NoteInv, Shelf
<1>2. /\ stock \in [Place -> [Book -> Int]] /\ missing \in [Place -> [Book -> Int]]
      /\ gone \in [Book -> Int] /\ astray \in [Book -> Nat]
  BY DEF NoteInv, TypeOK
<1>3. Shelf(p, b) >= 0
  BY DEF NoteInv, ShelvesHold
<1>4. CASE Sell(p, b)
  <2>1. /\ stock' = [stock EXCEPT ![p][b] = @ - 1] /\ gone' = [gone EXCEPT ![b] = @ + 1]
        /\ UNCHANGED <<missing, damaged, note, count, astray, disturbed>>
        /\ Moved(p, {b}) /\ Shelf(p, b) > 0
    BY <1>4 DEF Sell
  <2>2. stock'[p][b] = stock[p][b] - 1 /\ gone'[b] = gone[b] + 1 /\ missing'[p][b] = missing[p][b]
    BY <1>2, <2>1
  <2>3. stock' \in [Place -> [Book -> Int]] /\ gone' \in [Book -> Int]
    BY <1>1, <1>2, <2>1
  <2>4. \A q \in Place, c \in Book : q # p \/ c # b => stock'[q][c] = stock[q][c]
    BY <1>2, <2>1
  <2>5. \A c \in Book : c # b => gone'[c] = gone[c]
    BY <1>2, <2>1
  <2>6. stock'[p][b] - missing'[p][b] >= 0 /\ stock'[p][b] + gone'[b] = stock[p][b] + gone[b]
    BY <1>1, <2>1, <2>2
  <2>7. UNCHANGED <<missing, damaged, note, count, astray, disturbed>>
    BY <2>1
  <2> QED BY <1>2, <1>4, <2>1, <2>3, <2>4, <2>5, <2>6, <2>7
<1>5. CASE GoAstray(p, b)
  <2>1. /\ missing' = [missing EXCEPT ![p][b] = @ + 1] /\ astray' = [astray EXCEPT ![b] = @ + 1]
        /\ UNCHANGED <<stock, damaged, gone, note, count>>
        /\ Disturbs(p, b) /\ Moved(p, {b}) /\ Shelf(p, b) > 0
    BY <1>5 DEF GoAstray, Disturbs
  <2>2. ~Sell(p, b)
    <3>1. stock' = stock
      BY <2>1
    <3>2. Sell(p, b) => stock'[p][b] = stock[p][b] - 1
      BY <1>2 DEF Sell
    <3> QED BY <1>1, <3>1, <3>2
  <2> QED BY <1>1, <1>2, <2>1, <2>2
<1>6. CASE Correct(p, b)
  <2>1. /\ missing[p][b] # 0
        /\ stock' = [stock EXCEPT ![p][b] = @ - missing[p][b]]
        /\ gone' = [gone EXCEPT ![b] = @ + missing[p][b]]
        /\ missing' = [missing EXCEPT ![p][b] = 0]
        /\ UNCHANGED <<damaged, note, count, astray>>
        /\ Disturbs(p, b) /\ Moved(p, {b})
    BY <1>6 DEF Correct, Disturbs
  <2>2. ~Sell(p, b)
    <3>1. missing'[p][b] # missing[p][b]
      BY <1>1, <1>2, <2>1
    <3> QED BY <3>1 DEF Sell
  <2> QED BY <1>1, <1>2, <1>3, <2>1, <2>2
<1> QED BY <1>4, <1>5, <1>6 DEF Steps

LEMMA ShelfStepKeepsNoteInv ==
  ASSUME NoteInv, NEW p \in Place, NEW b \in Book, Steps(p, b) PROVE NoteInv'
<1>0. /\ \A q \in Place, c \in Book : q # p \/ c # b =>
           stock'[q][c] = stock[q][c] /\ missing'[q][c] = missing[q][c]
      /\ stock'[p][b] - missing'[p][b] >= 0
  BY ShelfStep
<1>1. TypeOK'
  <2>1. TypeOK
    BY DEF NoteInv
  <2>2. look' \in [Book -> LookState]
    BY <2>1, ShelfStep, MovedLooks
  <2>3. disturbed' = disturbed \/ disturbed' = disturbed \cup {b}
    BY ShelfStep DEF Disturbs
  <2>4. disturbed' \subseteq Book
    BY <2>1, <2>3 DEF TypeOK
  <2>5. /\ stock' \in [Place -> [Book -> Int]] /\ missing' \in [Place -> [Book -> Int]]
        /\ gone' \in [Book -> Int] /\ astray' \in [Book -> Nat]
        /\ UNCHANGED <<damaged, note, count>>
    BY ShelfStep
  <2> QED BY <2>1, <2>2, <2>4, <2>5 DEF TypeOK, LookState
<1>2. ShelvesHold'
  <2>1. ASSUME NEW q \in Place, NEW c \in Book PROVE stock'[q][c] - missing'[q][c] >= 0
    <3>1. CASE q = p /\ c = b
      BY <3>1, <1>0
    <3>2. CASE q # p \/ c # b
      <4>1. stock[q][c] - missing[q][c] >= 0
        BY DEF NoteInv, ShelvesHold, Shelf
      <4> QED BY <3>2, <4>1, <1>0
    <3> QED BY <3>1, <3>2
  <2> QED BY <2>1 DEF ShelvesHold, Shelf
<1>3. NoteTellsItsLines'
  BY ShelfStep DEF NoteInv, NoteTellsItsLines, NoteLines, OnTheWay
<1>4. EveryCopySomewhere'
  <2>1. ASSUME NEW c \in Book
        PROVE  stock'["from"][c] + stock'["to"][c] + damaged'[c] + gone'[c]
                 = stock["from"][c] + stock["to"][c] + damaged[c] + gone[c]
    <3>1. /\ stock["from"][c] \in Int /\ stock["to"][c] \in Int /\ damaged[c] \in Int /\ gone[c] \in Int
          /\ stock'["from"][c] \in Int /\ stock'["to"][c] \in Int /\ gone'[c] \in Int
      <4>1. /\ stock \in [Place -> [Book -> Int]] /\ damaged \in [Book -> Nat] /\ gone \in [Book -> Int]
            /\ stock' \in [Place -> [Book -> Int]] /\ gone' \in [Book -> Int]
        BY <1>1 DEF NoteInv, TypeOK
      <4> QED BY <4>1 DEF Place
    <3>2. CASE c = b
      <4>1. p = "from" => stock'["to"][c] = stock["to"][c]
        BY ShelfStep DEF Place
      <4>2. p = "to" => stock'["from"][c] = stock["from"][c]
        BY ShelfStep DEF Place
      <4>3. stock'[p][c] + gone'[c] = stock[p][c] + gone[c] /\ damaged' = damaged
        BY <3>2, ShelfStep
      <4> QED BY <3>1, <4>1, <4>2, <4>3 DEF Place
    <3>3. CASE c # b
      <4>1. gone'[c] = gone[c] /\ damaged' = damaged
        BY <3>3, ShelfStep
      <4>2. stock'["from"][c] = stock["from"][c] /\ stock'["to"][c] = stock["to"][c]
        BY <3>3, <1>0 DEF Place
      <4> QED BY <4>1, <4>2
    <3> QED BY <3>2, <3>3
  <2>2. note' = note
    BY ShelfStep
  <2> QED BY <2>1, <2>2 DEF NoteInv, EveryCopySomewhere, Sent, OnTheWay
<1> QED BY <1>1, <1>2, <1>3, <1>4 DEF NoteInv

-----------------------------------------------------------------------------
(* Steps of the note.                                                      *)

\* A note that has lines keeps them.
LEMMA LinesStay ==
  ASSUME TypeOK, NEW line, \A b \in Book : line[b].quantity = note.line[b].quantity,
         NEW status, note' = [status |-> status, line |-> line]
  PROVE  NoteLines' = NoteLines
  BY DEF NoteLines

\* What statusAfter says of lines on which something was received or resolved is true of them.
LEMMA StatusAfterTells ==
  ASSUME NoteInv, NEW line \in [Book -> NoteLine],
         \A b \in Book : line[b].quantity = note.line[b].quantity /\ OnTheWay(line[b]) >= 0,
         note' = [status |-> StatusAfter(line), line |-> line]
  PROVE  /\ NoteTellsItsLines'
         /\ note' \in [status : NoteStatus, line : [Book -> NoteLine]]
         /\ Sent'
<1>1. NoteLines' = NoteLines /\ note'.line = line /\ note'.status = StatusAfter(line)
  BY LinesStay DEF NoteInv
<1>2. \A b \in NoteLines : b \in Book
  BY DEF NoteLines
<1>3. ASSUME NEW b \in Book
      PROVE  /\ OnTheWay(line[b]) \in Int /\ OnTheWay(line[b]) >= 0
             /\ line[b].received \in Nat /\ line[b].quantity \in Nat
             /\ line[b].received <= line[b].quantity
             /\ line[b].received = line[b].quantity => OnTheWay(line[b]) = 0
  <2>1. line[b] \in NoteLine /\ OnTheWay(line[b]) >= 0
    OBVIOUS
  <2> QED BY <2>1, LineSum DEF NoteLine
<1>4. CASE \A b \in NoteLines : line[b].received = line[b].quantity
  <2>1. StatusAfter(line) = "received"
    BY <1>4 DEF StatusAfter
  <2>2. \A b \in NoteLines : OnTheWay(line[b]) = 0
    BY <1>2, <1>3, <1>4
  <2> QED BY <1>1, <1>2, <1>3, <1>4, <2>1, <2>2 DEF NoteTellsItsLines, NoteStatus, Sent
<1>5. CASE (\A b \in NoteLines : OnTheWay(line[b]) = 0) /\ ~(\A b \in NoteLines : line[b].received = line[b].quantity)
  <2>1. StatusAfter(line) = "closed"
    BY <1>5 DEF StatusAfter
  <2>2. \E b \in NoteLines : line[b].received < line[b].quantity
    BY <1>2, <1>3, <1>5
  <2> QED BY <1>1, <1>2, <1>3, <1>5, <2>1, <2>2 DEF NoteTellsItsLines, NoteStatus, Sent
<1>6. CASE ~(\A b \in NoteLines : OnTheWay(line[b]) = 0) /\ ~(\A b \in NoteLines : line[b].received = line[b].quantity)
  <2>1. \E b \in NoteLines : OnTheWay(line[b]) > 0
    BY <1>2, <1>3, <1>6
  <2>2. CASE \E b \in NoteLines : OnTheWay(line[b]) < line[b].quantity
    <3>1. StatusAfter(line) = "partially_received"
      BY <1>6, <2>2 DEF StatusAfter
    <3> QED BY <1>1, <1>2, <1>3, <2>1, <2>2, <3>1 DEF NoteTellsItsLines, NoteStatus, Sent
  <2>3. CASE ~\E b \in NoteLines : OnTheWay(line[b]) < line[b].quantity
    <3>1. StatusAfter(line) = "in_transit"
      BY <1>6, <2>3 DEF StatusAfter
    <3> QED BY <1>1, <1>2, <1>3, <2>3, <3>1 DEF NoteTellsItsLines, NoteStatus, Sent
  <2> QED BY <2>2, <2>3
<1> QED BY <1>4, <1>5, <1>6


\* What the quantities of a request are
LEMMA QuantitiesAreNumbers ==
  ASSUME NEW q \in Quantities, NEW b \in Book PROVE q[b] \in Nat
<1>1. q[b] \in UNION {0..MaxCopies[c] : c \in Book}
  BY DEF Quantities
<1>2. PICK c \in Book : q[b] \in 0..MaxCopies[c]
  BY <1>1
<1>3. MaxCopies[c] \in Nat
  BY StockDocumentsAssumption
<1> QED BY <1>2, <1>3

LEMMA DraftKeepsNoteInv ==
  ASSUME NoteInv, NEW q \in Quantities, Draft(q) PROVE NoteInv'
<1> DEFINE line == [b \in Book |-> [NoLine EXCEPT !.quantity = q[b]]]
<1>1. note.status = "draft" /\ note' = [note EXCEPT !.line = line]
      /\ UNCHANGED <<stock, missing, gone, astray, damaged, count, look, disturbed>>
  BY DEF Draft, shelfVars, countVars
<1>2. \A b \in Book : q[b] \in Nat
  BY QuantitiesAreNumbers
<1>3. ASSUME NEW b \in Book
      PROVE  line[b] \in NoteLine /\ line[b].quantity = q[b] /\ OnTheWay(line[b]) = q[b]
  <2>1. line[b] = [quantity |-> q[b], received |-> 0, lost |-> 0, damaged |-> 0, returned |-> 0]
    BY DEF NoLine
  <2> QED BY <1>2, <2>1 DEF NoteLine, OnTheWay
<1>4. line \in [Book -> NoteLine]
  BY <1>3
<1> HIDE DEF line
<1>5. note' = [status |-> "draft", line |-> line]
  BY <1>1, RowTypes DEF NoteInv
<1>6. TypeOK'
  <2>1. note' \in [status : NoteStatus, line : [Book -> NoteLine]]
    BY <1>4, <1>5 DEF NoteStatus
  <2> QED BY <1>1, <2>1 DEF NoteInv, TypeOK, NoteLine
<1>7. ShelvesHold'
  BY <1>1 DEF NoteInv, ShelvesHold, Shelf
<1>8. NoteTellsItsLines'
  BY <1>2, <1>3, <1>5 DEF NoteTellsItsLines, NoteLines
<1>9. EveryCopySomewhere'
  BY <1>1, <1>5 DEF NoteInv, EveryCopySomewhere, Sent
<1> QED BY <1>6, <1>7, <1>8, <1>9 DEF NoteInv

LEMMA CancelNoteKeepsNoteInv ==
  ASSUME NoteInv, CancelNote PROVE NoteInv'
<1>1. note.status = "draft" /\ note' = [note EXCEPT !.status = "cancelled"]
      /\ UNCHANGED <<stock, missing, gone, astray, damaged, count, look, disturbed>>
  BY DEF CancelNote, shelfVars, countVars
<1>2. note' = [status |-> "cancelled", line |-> note.line] /\ note.line \in [Book -> NoteLine]
  BY <1>1, RowTypes DEF NoteInv
<1>3. TypeOK'
  <2>1. note' \in [status : NoteStatus, line : [Book -> NoteLine]]
    BY <1>2 DEF NoteStatus
  <2> QED BY <1>1, <2>1 DEF NoteInv, TypeOK, NoteLine
<1>4. ShelvesHold'
  BY <1>1 DEF NoteInv, ShelvesHold, Shelf
<1>5. NoteTellsItsLines'
  BY <1>1, <1>2 DEF NoteInv, NoteTellsItsLines, NoteLines
<1>6. EveryCopySomewhere'
  BY <1>1, <1>2 DEF NoteInv, EveryCopySomewhere, Sent
<1> QED BY <1>3, <1>4, <1>5, <1>6 DEF NoteInv

LEMMA OnPaperFacts ==
  ASSUME NoteInv, NEW b \in Book
  PROVE  /\ OnPaper(b) \in Nat /\ note.line[b].quantity \in Nat /\ Shelf("from", b) \in Nat
         /\ OnPaper(b) >= note.line[b].quantity - Shelf("from", b)
         /\ b \notin NoteLines => OnPaper(b) = 0
<1>1. Shelf("from", b) \in Int /\ Shelf("from", b) >= 0 /\ note.line[b].quantity \in Nat
  BY ShelfIsInt, Numbers DEF NoteInv, ShelvesHold, Place, NoteLine
<1> QED BY <1>1 DEF OnPaper, NoteLines

LEMMA DispatchKeepsNoteInv ==
  ASSUME NoteInv, Dispatch PROVE NoteInv'
<1>0. TypeOK /\ NoteTellsItsLines
  BY DEF NoteInv
<1>1. /\ note.status = "draft"
      /\ stock' = [stock EXCEPT !["from"] = [b \in Book |-> stock["from"][b] - note.line[b].quantity]]
      /\ missing' = [missing EXCEPT !["from"] = [b \in Book |-> missing["from"][b] - OnPaper(b)]]
      /\ note' = [note EXCEPT !.status = "in_transit"]
      /\ Moved("from", NoteLines)
      /\ disturbed' = IF count.place = "from" THEN disturbed \cup {b \in Book : OnPaper(b) > 0} ELSE disturbed
      /\ UNCHANGED <<damaged, gone, astray, count>>
  BY DEF Dispatch
<1>2. note' = [status |-> "in_transit", line |-> note.line] /\ note.line \in [Book -> NoteLine]
  BY <1>0, <1>1, RowTypes
<1>3. stock' \in [Place -> [Book -> Int]]
      /\ \A b \in Book : /\ stock'["from"][b] = stock["from"][b] - note.line[b].quantity
                         /\ stock'["to"][b] = stock["to"][b]
  <2>1. stock \in [Place -> [Book -> Int]]
    BY <1>0 DEF TypeOK
  <2>2. \A b \in Book : stock["from"][b] - note.line[b].quantity \in Int
    BY <1>2, <2>1 DEF Place, NoteLine
  <2> QED BY <1>1, <2>1, <2>2 DEF Place
<1>9. missing' \in [Place -> [Book -> Int]]
      /\ \A b \in Book : /\ missing'["from"][b] = missing["from"][b] - OnPaper(b)
                         /\ missing'["to"][b] = missing["to"][b]
  <2>1. missing \in [Place -> [Book -> Int]]
    BY <1>0 DEF TypeOK
  <2>2. ASSUME NEW b \in Book PROVE missing["from"][b] - OnPaper(b) \in Int
    <3>1. missing["from"][b] \in Int /\ OnPaper(b) \in Nat
      BY <2>1, OnPaperFacts DEF Place
    <3> QED BY <3>1
  <2> QED BY <1>1, <2>1, <2>2 DEF Place
<1>4. TypeOK'
  <2>1. look' \in [Book -> LookState]
    BY <1>0, <1>1, MovedLooks DEF Place
  <2>2. note' \in [status : NoteStatus, line : [Book -> NoteLine]]
    BY <1>2 DEF NoteStatus
  <2>3. disturbed' \subseteq Book
    BY <1>0, <1>1 DEF TypeOK
  <2> QED BY <1>0, <1>1, <1>3, <1>9, <2>1, <2>2, <2>3 DEF TypeOK, NoteLine, LookState
<1>5. ShelvesHold'
  <2>1. ASSUME NEW b \in Book PROVE stock'["from"][b] - missing'["from"][b] >= 0
    <3>1. stock["from"][b] \in Int /\ missing["from"][b] \in Int
      BY <1>0, Numbers DEF Place
    <3>2. Shelf("from", b) = stock["from"][b] - missing["from"][b]
      BY DEF Shelf
    <3> QED BY <1>3, <1>9, <3>1, <3>2, OnPaperFacts
  <2>2. ASSUME NEW b \in Book PROVE stock'["to"][b] - missing'["to"][b] >= 0
    BY <1>3, <1>9 DEF NoteInv, ShelvesHold, Shelf, Place
  <2> QED BY <2>1, <2>2 DEF ShelvesHold, Shelf, Place
<1>6. \A b \in Book : /\ OnTheWay(note.line[b]) = note.line[b].quantity /\ note.line[b].lost = 0
                      /\ note.line[b].quantity \in Nat
  BY <1>1, <1>2, UnsentLines DEF Sent, NoteLine
<1>7. NoteTellsItsLines'
  BY <1>2, <1>6 DEF NoteTellsItsLines, NoteLines
<1>8. EveryCopySomewhere'
  <2>1. ASSUME NEW b \in Book
        PROVE  stock'["from"][b] + stock'["to"][b] + damaged'[b] + gone'[b]
                 + (OnTheWay(note.line[b]) + note.line[b].lost) = InitialStock[b]
    <3>1. stock["from"][b] \in Int /\ stock["to"][b] \in Int /\ damaged[b] \in Int /\ gone[b] \in Int
      BY <1>0, Numbers DEF Place
    <3>2. stock["from"][b] + stock["to"][b] + damaged[b] + gone[b] + 0 = InitialStock[b]
      BY <1>1 DEF NoteInv, EveryCopySomewhere, Sent
    <3> QED BY <1>1, <1>3, <1>6, <3>1, <3>2
  <2>2. Sent' /\ note'.line = note.line
    BY <1>2 DEF Sent
  <2> QED BY <2>1, <2>2 DEF EveryCopySomewhere
<1> QED BY <1>4, <1>5, <1>7, <1>8 DEF NoteInv


LEMMA ReceiveKeepsNoteInv ==
  ASSUME NoteInv, NEW q \in Quantities, ReceiveNote(q) PROVE NoteInv'
<1> DEFINE line == [b \in Book |-> [note.line[b] EXCEPT !.received = @ + q[b]]]
<1>0. TypeOK
  BY DEF NoteInv
<1>1. /\ CanReceive
      /\ \A b \in Book : q[b] > 0 => b \in NoteLines /\ WithinOutstanding(note.line[b], q[b])
      /\ stock' = [stock EXCEPT !["to"] = [b \in Book |-> stock["to"][b] + q[b]]]
      /\ note' = [status |-> StatusAfter(line), line |-> line]
      /\ Moved("to", {b \in Book : q[b] > 0})
      /\ UNCHANGED <<missing, damaged, gone, astray, count, disturbed>>
  BY DEF ReceiveNote
<1>2. ASSUME NEW b \in Book
      PROVE  /\ q[b] \in Nat /\ line[b] \in NoteLine
             /\ line[b].quantity = note.line[b].quantity /\ line[b].lost = note.line[b].lost
             /\ OnTheWay(line[b]) = OnTheWay(note.line[b]) - q[b]
             /\ OnTheWay(line[b]) >= 0
  <2>1. q[b] \in Nat /\ note.line[b] \in NoteLine
    BY <1>0, QuantitiesAreNumbers, Numbers
  <2>2. line[b] = [note.line[b] EXCEPT !.received = @ + q[b]]
    OBVIOUS
  <2>3. /\ line[b] \in NoteLine /\ line[b].quantity = note.line[b].quantity
        /\ line[b].received = note.line[b].received + q[b] /\ line[b].lost = note.line[b].lost
        /\ line[b].damaged = note.line[b].damaged /\ line[b].returned = note.line[b].returned
    BY <2>1, <2>2 DEF NoteLine
  <2> HIDE DEF line
  <2>4. OnTheWay(note.line[b]) >= 0
    BY DEF NoteInv, NoteTellsItsLines
  <2>5. OnTheWay(line[b]) = OnTheWay(note.line[b]) - q[b]
    BY <2>1, <2>3, LineSum DEF NoteLine
  <2>6. q[b] > 0 => q[b] <= OnTheWay(note.line[b])
    BY <1>1 DEF WithinOutstanding
  <2> QED BY <2>1, <2>3, <2>4, <2>5, <2>6, LineSum
<1>3. line \in [Book -> NoteLine]
  BY <1>2
<1> HIDE DEF line
<1>4. NoteTellsItsLines' /\ note' \in [status : NoteStatus, line : [Book -> NoteLine]] /\ Sent'
  BY <1>1, <1>2, <1>3, StatusAfterTells
<1>5. stock' \in [Place -> [Book -> Int]]
      /\ \A b \in Book : stock'["to"][b] = stock["to"][b] + q[b] /\ stock'["from"][b] = stock["from"][b]
  <2>1. stock \in [Place -> [Book -> Int]]
    BY <1>0 DEF TypeOK
  <2>2. ASSUME NEW b \in Book PROVE stock["to"][b] + q[b] \in Int
    <3>1. stock["to"][b] \in Int
      BY <2>1 DEF Place
    <3> QED BY <1>2, <3>1
  <2> QED BY <1>1, <2>1, <2>2 DEF Place
<1>6. TypeOK'
  <2>1. look' \in [Book -> LookState]
    BY <1>0, <1>1, MovedLooks DEF Place
  <2> QED BY <1>0, <1>1, <1>4, <1>5, <2>1 DEF TypeOK, NoteLine, LookState
<1>7. ShelvesHold'
  <2>1. ASSUME NEW b \in Book PROVE stock'["to"][b] - missing["to"][b] >= 0
    <3>1. stock["to"][b] \in Int /\ missing["to"][b] \in Int
      BY <1>0, Numbers DEF Place
    <3>2. stock["to"][b] - missing["to"][b] >= 0
      BY DEF NoteInv, ShelvesHold, Shelf, Place
    <3> QED BY <1>2, <1>5, <3>1, <3>2
  <2>2. ASSUME NEW b \in Book PROVE stock'["from"][b] - missing["from"][b] >= 0
    BY <1>5 DEF NoteInv, ShelvesHold, Shelf, Place
  <2> QED BY <1>1, <2>1, <2>2 DEF ShelvesHold, Shelf, Place
<1>8. EveryCopySomewhere'
  <2>1. ASSUME NEW b \in Book
        PROVE  stock'["from"][b] + stock'["to"][b] + damaged'[b] + gone'[b]
                 + (OnTheWay(line[b]) + line[b].lost) = InitialStock[b]
    <3>1. /\ stock["from"][b] \in Int /\ stock["to"][b] \in Int /\ damaged[b] \in Int /\ gone[b] \in Int
          /\ note.line[b].lost \in Nat /\ OnTheWay(note.line[b]) \in Int
      BY <1>0, Numbers, LineSum DEF Place, NoteLine
    <3>2. stock["from"][b] + stock["to"][b] + damaged[b] + gone[b]
            + (OnTheWay(note.line[b]) + note.line[b].lost) = InitialStock[b]
      BY <1>1 DEF NoteInv, EveryCopySomewhere, Sent, CanReceive
    <3> QED BY <1>1, <1>2, <1>5, <3>1, <3>2
  <2>2. Sent' /\ note'.line = line
    BY <1>1, <1>4
  <2> QED BY <2>1, <2>2 DEF EveryCopySomewhere
<1> QED BY <1>4, <1>6, <1>7, <1>8 DEF NoteInv

LEMMA ResolveKeepsNoteInv ==
  ASSUME NoteInv, NEW b \in Book, NEW outcome \in {"lost", "damaged", "returned"},
         NEW n \in Nat \ {0}, Resolve(b, n, outcome)
  PROVE  NoteInv'
<1> DEFINE old == note.line[b]
           new == Resolved(old, n, outcome)
           line == [note.line EXCEPT ![b] = new]
<1>0. TypeOK
  BY DEF NoteInv
<1>1. /\ CanReceive
      /\ WithinOutstanding(old, n)
      /\ note' = [status |-> StatusAfter(line), line |-> line]
      /\ damaged' = IF outcome = "damaged" THEN [damaged EXCEPT ![b] = @ + n] ELSE damaged
      /\ IF outcome = "returned"
         THEN stock' = [stock EXCEPT !["from"][b] = @ + n] /\ Moved("from", {b})
         ELSE UNCHANGED <<stock, look>>
      /\ UNCHANGED <<missing, gone, astray, count, disturbed>>
  <2>1. note' = [status |-> StatusAfter(line), line |-> line]
    BY DEF Resolve
  <2> HIDE DEF line
  <2>2. UNCHANGED <<missing, gone, astray, count, disturbed>>
    BY DEF Resolve
  <2>3. CanReceive /\ WithinOutstanding(old, n)
    BY DEF Resolve
  <2>4. damaged' = IF outcome = "damaged" THEN [damaged EXCEPT ![b] = @ + n] ELSE damaged
    BY DEF Resolve
  <2>5. IF outcome = "returned"
        THEN stock' = [stock EXCEPT !["from"][b] = @ + n] /\ Moved("from", {b})
        ELSE UNCHANGED <<stock, look>>
    BY DEF Resolve
  <2> QED BY <2>1, <2>2, <2>3, <2>4, <2>5
<1>2. old \in NoteLine /\ note.line \in [Book -> NoteLine]
  BY <1>0, Numbers, RowTypes
<1>3. new \in NoteLine /\ new.quantity = old.quantity
      /\ new.lost = old.lost + (IF outcome = "lost" THEN n ELSE 0)
      /\ new.received = old.received
      /\ new.damaged = old.damaged + (IF outcome = "damaged" THEN n ELSE 0)
      /\ new.returned = old.returned + (IF outcome = "returned" THEN n ELSE 0)
  <2> HIDE DEF old
  <2>1. CASE outcome = "lost"
    BY <1>2, <2>1 DEF NoteLine, Resolved
  <2>2. CASE outcome = "damaged"
    BY <1>2, <2>2 DEF NoteLine, Resolved
  <2>3. CASE outcome = "returned"
    BY <1>2, <2>3 DEF NoteLine, Resolved
  <2> QED BY <2>1, <2>2, <2>3
<1> HIDE DEF new
<1>4. /\ line \in [Book -> NoteLine] /\ line[b] = new
      /\ \A c \in Book \ {b} : line[c] = note.line[c]
  BY <1>2, <1>3
<1> HIDE DEF line
<1>5. OnTheWay(new) = OnTheWay(old) - n /\ OnTheWay(new) >= 0 /\ OnTheWay(old) \in Int
  <2>1. OnTheWay(old) >= n
    BY <1>1, <1>2, LineSum DEF WithinOutstanding
  <2> HIDE DEF old
  <2> QED BY <1>2, <1>3, <2>1, LineSum DEF NoteLine
<1>6. \A c \in Book : line[c].quantity = note.line[c].quantity /\ OnTheWay(line[c]) >= 0
  BY <1>3, <1>4, <1>5 DEF NoteInv, NoteTellsItsLines
<1>7. NoteTellsItsLines' /\ note' \in [status : NoteStatus, line : [Book -> NoteLine]] /\ Sent'
  BY <1>1, <1>4, <1>6, StatusAfterTells
<1>8. /\ stock' \in [Place -> [Book -> Int]] /\ damaged' \in [Book -> Nat] /\ look' \in [Book -> LookState]
      /\ \A c \in Book : stock'["to"][c] = stock["to"][c]
      /\ \A c \in Book \ {b} : stock'["from"][c] = stock["from"][c] /\ damaged'[c] = damaged[c]
      /\ stock'["from"][b] = stock["from"][b] + (IF outcome = "returned" THEN n ELSE 0)
      /\ damaged'[b] = damaged[b] + (IF outcome = "damaged" THEN n ELSE 0)
  <2>1. stock \in [Place -> [Book -> Int]] /\ damaged \in [Book -> Nat] /\ stock["from"][b] \in Int
    BY <1>0, Numbers DEF TypeOK, Place
  <2>2. look \in [Book -> LookState]
    BY <1>0, RowTypes
  <2>3. CASE outcome = "returned"
    <3>1. look' \in [Book -> LookState]
      BY <1>0, <1>1, <2>3, MovedLooks DEF Place
    <3> QED BY <1>1, <2>1, <2>3, <3>1 DEF Place
  <2>4. CASE outcome # "returned"
    BY <1>1, <2>1, <2>2, <2>4
  <2> QED BY <2>3, <2>4
<1>9. TypeOK'
  BY <1>0, <1>1, <1>7, <1>8 DEF TypeOK, NoteLine, LookState
<1>10. ShelvesHold'
  <2>1. ASSUME NEW c \in Book PROVE stock'["from"][c] - missing["from"][c] >= 0
    <3>1. stock["from"][c] \in Int /\ missing["from"][c] \in Int
      BY <1>0, Numbers DEF Place
    <3>2. stock["from"][c] - missing["from"][c] >= 0
      BY DEF NoteInv, ShelvesHold, Shelf, Place
    <3>3. CASE c = b
      BY <1>8, <3>1, <3>2, <3>3
    <3>4. CASE c # b
      BY <1>8, <3>2, <3>4
    <3> QED BY <3>3, <3>4
  <2>2. ASSUME NEW c \in Book PROVE stock'["to"][c] - missing["to"][c] >= 0
    BY <1>8 DEF NoteInv, ShelvesHold, Shelf, Place
  <2> QED BY <1>1, <2>1, <2>2 DEF ShelvesHold, Shelf, Place
<1>11. EveryCopySomewhere'
  <2>1. ASSUME NEW c \in Book
        PROVE  stock'["from"][c] + stock'["to"][c] + damaged'[c] + gone'[c]
                 + (OnTheWay(line[c]) + line[c].lost) = InitialStock[c]
    <3>1. /\ stock["from"][c] \in Int /\ stock["to"][c] \in Int /\ damaged[c] \in Int /\ gone[c] \in Int
          /\ note.line[c].lost \in Nat /\ OnTheWay(note.line[c]) \in Int
      BY <1>0, Numbers, LineSum DEF Place, NoteLine
    <3>2. stock["from"][c] + stock["to"][c] + damaged[c] + gone[c]
            + (OnTheWay(note.line[c]) + note.line[c].lost) = InitialStock[c]
      BY <1>1 DEF NoteInv, EveryCopySomewhere, Sent, CanReceive
    <3>3. CASE c = b
      <4>1. gone' = gone /\ stock'["to"][c] = stock["to"][c] /\ line[c] = new
        BY <1>1, <1>4, <1>8, <3>3
      <4>2. n \in Int /\ new.lost = old.lost + (IF outcome = "lost" THEN n ELSE 0)
            /\ OnTheWay(new) = OnTheWay(old) - n
        BY <1>3, <1>5
      <4>3. /\ stock'["from"][c] = stock["from"][c] + (IF outcome = "returned" THEN n ELSE 0)
            /\ damaged'[c] = damaged[c] + (IF outcome = "damaged" THEN n ELSE 0)
        BY <1>8, <3>3
      <4>4. CASE outcome = "lost"
        BY <3>1, <3>2, <3>3, <4>1, <4>2, <4>3, <4>4
      <4>5. CASE outcome = "damaged"
        BY <3>1, <3>2, <3>3, <4>1, <4>2, <4>3, <4>5
      <4>6. CASE outcome = "returned"
        BY <3>1, <3>2, <3>3, <4>1, <4>2, <4>3, <4>6
      <4> QED BY <4>4, <4>5, <4>6
    <3>4. CASE c # b
      BY <1>1, <1>4, <1>8, <3>2, <3>4
    <3> QED BY <3>3, <3>4
  <2>2. Sent' /\ note'.line = line
    BY <1>1, <1>7
  <2> QED BY <2>1, <2>2 DEF EveryCopySomewhere
<1> QED BY <1>7, <1>9, <1>10, <1>11 DEF NoteInv

-----------------------------------------------------------------------------
(* Steps of the count.                                                     *)

LEMMA LinesOfCount ==
  /\ Uncounted \in CountLine /\ ~Uncounted.counted
  /\ NotLooked \in LookState /\ ~NotLooked.open
  BY DEF Uncounted, CountLine, NotLooked, LookState

LEMMA PostedLine ==
  ASSUME NEW c \in BOOLEAN
  PROVE  [on |-> FALSE, counted |-> c, quantity |-> 0, expected |-> 0] \in CountLine
<1>1. CASE c = TRUE
  <2>1. [on |-> FALSE, counted |-> TRUE, quantity |-> 0, expected |-> 0] \in CountLine
    BY DEF CountLine
  <2> QED BY <1>1, <2>1
<1>2. CASE c = FALSE
  <2>1. [on |-> FALSE, counted |-> FALSE, quantity |-> 0, expected |-> 0] \in CountLine
    BY DEF CountLine
  <2> QED BY <1>2, <2>1
<1> QED BY <1>1, <1>2

LEMMA CountedLine ==
  ASSUME TypeOK, NEW b \in Book, NEW n \in Nat
  PROVE  /\ Counted(b, n) \in CountLine /\ Counted(b, n).counted
         /\ Difference(Counted(b, n)) = n - stock[count.place][b]
  BY Numbers DEF Counted, CountLine, Difference

LEMMA DifferenceIsInt == ASSUME NEW line \in CountLine PROVE Difference(line) \in Int
  BY DEF Difference, CountLine

\* All of them but the posting leave the copies and their records alone.
LEMMA PaperworkKeepsNoteInv ==
  ASSUME NoteInv, UNCHANGED <<stock, missing, damaged, gone, note, astray>>,
         count' \in [status : CountStatus, place : Place, line : [Book -> CountLine]],
         look' \in [Book -> LookState], disturbed' \subseteq Book
  PROVE  NoteInv'
<1>1. TypeOK'
  BY DEF NoteInv, TypeOK, CountLine, LookState
<1>2. ShelvesHold' /\ NoteTellsItsLines' /\ EveryCopySomewhere'
  BY DEF NoteInv, ShelvesHold, Shelf, NoteTellsItsLines, NoteLines, EveryCopySomewhere, Sent
<1> QED BY <1>1, <1>2 DEF NoteInv

LEMMA OpenCountKeepsIInv ==
  ASSUME IInv, NEW p \in Place, NEW books \in SUBSET Book, OpenCount(p, books) PROVE IInv'
<1> DEFINE line == [b \in Book |-> IF b \in books THEN [on |-> TRUE, counted |-> FALSE, quantity |-> 0, expected |-> stock[p][b]]
                                  ELSE Uncounted]
<1>0. NoteInv /\ TypeOK
  BY DEF IInv, NoteInv
<1>1. /\ count' = [status |-> "counting", place |-> p, line |-> line]
      /\ look' = [b \in Book |-> NotLooked] /\ disturbed' = {}
      /\ UNCHANGED <<stock, missing, damaged, gone, note, astray>>
  BY DEF OpenCount, shelfVars
<1>2. ASSUME NEW b \in Book PROVE line[b] \in CountLine /\ ~line[b].counted
  <2>1. stock[p][b] \in Int
    BY <1>0, Numbers
  <2>2. CASE b \in books
    BY <2>1, <2>2 DEF CountLine
  <2>3. CASE b \notin books
    BY <2>3, LinesOfCount
  <2> QED BY <2>2, <2>3
<1>3. line \in [Book -> CountLine]
  BY <1>2
<1> HIDE DEF line
<1>4. NoteInv'
  BY <1>0, <1>1, <1>3, LinesOfCount, PaperworkKeepsNoteInv DEF CountStatus
<1>5. CountInv'
  BY <1>1, <1>2, LinesOfCount DEF CountInv, LooksAreTrue, EntriesAreTrue, PostedCountsAreTrue
<1> QED BY <1>4, <1>5 DEF IInv

LEMMA LookKeepsIInv ==
  ASSUME IInv, NEW b \in Book, LookAt(b) PROVE IInv'
<1> DEFINE seen == [open |-> TRUE, quantity |-> Shelf(count.place, b), moved |-> FALSE]
<1>0. NoteInv /\ TypeOK /\ CountInv
  BY DEF IInv, NoteInv
<1>1. /\ count.status = "counting" /\ look' = [look EXCEPT ![b] = seen]
      /\ UNCHANGED <<stock, missing, damaged, gone, note, count, disturbed, astray>>
  BY DEF LookAt, shelfVars
<1>2. seen \in LookState
  <2>1. Shelf(count.place, b) \in Nat
    BY <1>0, Numbers, ShelfIsInt DEF NoteInv, ShelvesHold
  <2> QED BY <2>1 DEF LookState
<1>3. look \in [Book -> LookState] /\ disturbed \subseteq Book
      /\ count \in [status : CountStatus, place : Place, line : [Book -> CountLine]]
  BY <1>0, RowTypes DEF TypeOK
<1>4. NoteInv'
  BY <1>0, <1>1, <1>2, <1>3, PaperworkKeepsNoteInv
<1>5. LooksAreTrue'
  <2>1. ASSUME NEW c \in Book, look'[c].open /\ ~look'[c].moved
        PROVE  look'[c].quantity = Shelf(count.place, c)
    <3>1. CASE c = b
      BY <1>1, <1>3, <3>1
    <3>2. CASE c # b
      <4>1. look'[c] = look[c]
        BY <1>1, <1>3, <3>2
      <4> QED BY <1>0, <1>1, <2>1, <4>1 DEF CountInv, LooksAreTrue, Open
    <3> QED BY <3>1, <3>2
  <2> QED BY <1>1, <2>1 DEF LooksAreTrue, Shelf
<1>6. EntriesAreTrue' /\ PostedCountsAreTrue'
  BY <1>0, <1>1 DEF CountInv, EntriesAreTrue, PostedCountsAreTrue, Open
<1> QED BY <1>4, <1>5, <1>6 DEF IInv, CountInv

LEMMA EnterKeepsIInv ==
  ASSUME IInv, NEW books \in SUBSET Book, EnterCounts(books) PROVE IInv'
<1> DEFINE line == [b \in Book |-> IF b \in books THEN Counted(b, look[b].quantity) ELSE count.line[b]]
<1>0. NoteInv /\ TypeOK /\ CountInv
  BY DEF IInv, NoteInv
<1>1. /\ count.status = "counting" /\ \A b \in books : look[b].open
      /\ count' = [count EXCEPT !.line = line]
      /\ look' = [b \in Book |-> IF b \in books THEN NotLooked ELSE look[b]]
      /\ disturbed' = (disturbed \ books) \cup {b \in books : look[b].moved}
      /\ UNCHANGED <<stock, missing, damaged, gone, note, astray>>
  BY DEF EnterCounts, shelfVars
<1>2. look \in [Book -> LookState] /\ disturbed \subseteq Book
      /\ count \in [status : CountStatus, place : Place, line : [Book -> CountLine]]
  BY <1>0, RowTypes DEF TypeOK
<1>3. ASSUME NEW b \in Book
      PROVE  /\ line[b] \in CountLine
             /\ b \in books => Difference(line[b]) = look[b].quantity - stock[count.place][b]
             /\ b \notin books => line[b] = count.line[b]
  <2>1. look[b].quantity \in Nat
    BY <1>2 DEF LookState
  <2> QED BY <1>0, <1>2, <2>1, CountedLine
<1>4. line \in [Book -> CountLine]
  BY <1>3
<1> HIDE DEF line
<1>5. count' = [status |-> "counting", place |-> count.place, line |-> line] /\ count.place \in Place
  BY <1>1, <1>2
<1>6. NoteInv'
  <2>1. count' \in [status : CountStatus, place : Place, line : [Book -> CountLine]]
    BY <1>4, <1>5 DEF CountStatus
  <2>2. look' \in [Book -> LookState]
    BY <1>1, <1>2, LinesOfCount
  <2>3. disturbed' \subseteq Book
    BY <1>1, <1>2
  <2> QED BY <1>0, <1>1, <2>1, <2>2, <2>3, PaperworkKeepsNoteInv
<1>7. LooksAreTrue'
  <2>1. ASSUME NEW b \in Book, look'[b].open /\ ~look'[b].moved
        PROVE  look'[b].quantity = Shelf(count.place, b)
    <3>1. b \notin books /\ look'[b] = look[b]
      BY <1>1, <2>1, LinesOfCount
    <3> QED BY <1>0, <1>1, <2>1, <3>1 DEF CountInv, LooksAreTrue, Open
  <2> QED BY <1>1, <1>5, <2>1 DEF LooksAreTrue, Shelf
<1>8. EntriesAreTrue'
  <2>1. ASSUME NEW b \in Book, b \notin disturbed', line[b].counted
        PROVE  Difference(line[b]) = -missing[count.place][b]
    <3>1. CASE b \in books
      <4>1. look[b].quantity = Shelf(count.place, b)
        BY <1>0, <1>1, <2>1, <3>1 DEF CountInv, LooksAreTrue, Open
      <4>2. stock[count.place][b] \in Int /\ missing[count.place][b] \in Int
        BY <1>0, Numbers
      <4>3. Difference(line[b]) = look[b].quantity - stock[count.place][b]
        BY <1>3, <3>1
      <4> QED BY <4>1, <4>2, <4>3 DEF Shelf
    <3>2. CASE b \notin books
      <4>1. b \notin disturbed /\ line[b] = count.line[b]
        BY <1>1, <1>3, <2>1, <3>2
      <4> QED BY <1>0, <1>1, <2>1, <4>1 DEF CountInv, EntriesAreTrue, Open
    <3> QED BY <3>1, <3>2
  <2> QED BY <1>1, <1>5, <2>1 DEF EntriesAreTrue
<1>9. PostedCountsAreTrue'
  BY <1>5 DEF PostedCountsAreTrue
<1> QED BY <1>6, <1>7, <1>8, <1>9 DEF IInv, CountInv


LEMMA StatusKeepsIInv ==
  ASSUME IInv, Submit \/ Recount PROVE IInv'
<1>0. NoteInv /\ TypeOK /\ CountInv
  BY DEF IInv, NoteInv
<1>1. PICK status \in {"counting", "submitted"} : count' = [count EXCEPT !.status = status]
  BY DEF Submit, Recount
<1>2. Open /\ UNCHANGED <<stock, missing, damaged, gone, note, astray, look, disturbed>>
  BY DEF Submit, Recount, shelfVars, Open
<1>3. look \in [Book -> LookState] /\ disturbed \subseteq Book
      /\ count \in [status : CountStatus, place : Place, line : [Book -> CountLine]]
  BY <1>0, RowTypes DEF TypeOK
<1>4. count' = [status |-> status, place |-> count.place, line |-> count.line]
  BY <1>1, <1>3
<1>5. NoteInv'
  BY <1>0, <1>2, <1>3, <1>4, PaperworkKeepsNoteInv DEF CountStatus
<1>6. CountInv'
  BY <1>0, <1>2, <1>4 DEF CountInv, LooksAreTrue, EntriesAreTrue, PostedCountsAreTrue, Open, Shelf
<1> QED BY <1>5, <1>6 DEF IInv

LEMMA CancelCountKeepsIInv ==
  ASSUME IInv, CancelCount PROVE IInv'
<1>0. NoteInv
  BY DEF IInv
<1>1. /\ count' = NoCount /\ look' = [b \in Book |-> NotLooked] /\ disturbed' = {}
      /\ UNCHANGED <<stock, missing, damaged, gone, note, astray>>
  BY DEF CancelCount, shelfVars
<1>2. NoCount \in [status : CountStatus, place : Place, line : [Book -> CountLine]]
  BY LinesOfCount DEF NoCount, CountStatus, Place
<1>3. NoteInv'
  BY <1>0, <1>1, <1>2, LinesOfCount, PaperworkKeepsNoteInv
<1>4. CountInv'
  BY <1>1 DEF CountInv, LooksAreTrue, EntriesAreTrue, PostedCountsAreTrue, Open, NoCount
<1> QED BY <1>3, <1>4 DEF IInv

LEMMA PostKeepsIInv ==
  ASSUME IInv, NEW zero \in SUBSET Book, Post(zero) PROVE IInv'
<1> DEFINE p == count.place
           line == [b \in Book |-> IF b \in zero THEN Counted(b, 0) ELSE count.line[b]]
           after == [b \in Book |-> stock[p][b] + Difference(line[b])]
           counted == [b \in Book |-> [on |-> FALSE, counted |-> line[b].counted, quantity |-> 0, expected |-> 0]]
<1>0. NoteInv /\ TypeOK /\ CountInv
  BY DEF IInv, NoteInv
<1>1. count.status = "submitted"
      /\ stock' = [stock EXCEPT ![p] = after]
      /\ missing' = [missing EXCEPT ![p] = [b \in Book |-> missing[p][b] + Difference(line[b])]]
      /\ gone' = [b \in Book |-> gone[b] - Difference(line[b])]
      /\ count' = [count EXCEPT !.status = "posted", !.line = counted]
      /\ look' = [b \in Book |-> NotLooked]
      /\ disturbed' = (disturbed \ zero) \cup {b \in zero : Shelf(p, b) # 0}
      /\ UNCHANGED <<damaged, note, astray>>
  BY DEF Post
<1>2. ASSUME NEW b \in Book
      PROVE  /\ line[b] \in CountLine /\ Difference(line[b]) \in Int
             /\ b \in zero => Difference(line[b]) = -stock[p][b]
             /\ b \notin zero => line[b] = count.line[b]
  <2>1. count.line[b] \in CountLine /\ stock[p][b] \in Int
    BY <1>0, Numbers
  <2>2. Counted(b, 0) \in CountLine /\ Difference(Counted(b, 0)) = 0 - stock[p][b]
    BY <1>0, CountedLine
  <2>3. line[b] \in CountLine
    BY <2>1, <2>2
  <2>4. b \in zero => line[b] = Counted(b, 0)
    OBVIOUS
  <2>5. b \notin zero => line[b] = count.line[b]
    OBVIOUS
  <2> HIDE DEF line, p
  <2>6. b \in zero => Difference(line[b]) = -stock[p][b]
    BY <2>1, <2>2, <2>4
  <2> QED BY <2>3, <2>5, <2>6, DifferenceIsInt
<1>3. ASSUME NEW b \in Book
      PROVE  counted[b] \in CountLine /\ counted[b].counted = line[b].counted
  <2>1. line[b].counted \in BOOLEAN
    BY <1>2 DEF CountLine
  <2> QED BY <2>1, PostedLine
<1> HIDE DEF line
<1>4. counted \in [Book -> CountLine]
  BY <1>3
<1> HIDE DEF counted
<1>5. /\ stock \in [Place -> [Book -> Int]] /\ missing \in [Place -> [Book -> Int]] /\ gone \in [Book -> Int]
      /\ count \in [status : CountStatus, place : Place, line : [Book -> CountLine]]
      /\ p \in Place /\ disturbed \subseteq Book
  BY <1>0, RowTypes DEF TypeOK
<1>6. count' = [status |-> "posted", place |-> p, line |-> counted]
  BY <1>1, <1>5
<1> HIDE DEF p
<1>7. /\ \A b \in Book : /\ stock'[p][b] = stock[p][b] + Difference(line[b])
                         /\ missing'[p][b] = missing[p][b] + Difference(line[b])
                         /\ gone'[b] = gone[b] - Difference(line[b])
      /\ \A q \in Place \ {p} : stock'[q] = stock[q] /\ missing'[q] = missing[q]
  <2>1. ASSUME NEW b \in Book PROVE after[b] = stock[p][b] + Difference(line[b]) /\ gone'[b] = gone[b] - Difference(line[b])
    BY <1>1
  <2> HIDE DEF after
  <2>2. stock'[p] = after /\ missing'[p] = [b \in Book |-> missing[p][b] + Difference(line[b])]
    BY <1>1, <1>5
  <2>3. \A q \in Place \ {p} : stock'[q] = stock[q] /\ missing'[q] = missing[q]
    BY <1>1, <1>5
  <2>4. ASSUME NEW b \in Book
        PROVE  /\ stock'[p][b] = stock[p][b] + Difference(line[b])
               /\ missing'[p][b] = missing[p][b] + Difference(line[b])
    BY <2>1, <2>2
  <2> QED BY <2>1, <2>3, <2>4
<1>8. TypeOK'
  <2>1. after \in [Book -> Int]
    BY <1>2, <1>5
  <2>2. [b \in Book |-> missing[p][b] + Difference(line[b])] \in [Book -> Int]
    BY <1>2, <1>5
  <2>3. gone' \in [Book -> Int]
    BY <1>1, <1>2, <1>5
  <2>4. count' \in [status : CountStatus, place : Place, line : [Book -> CountLine]]
    BY <1>5, <1>4, <1>6 DEF CountStatus
  <2>5. look' \in [Book -> LookState]
    BY <1>1, LinesOfCount
  <2>6. disturbed' \subseteq Book
    BY <1>1, <1>5
  <2> HIDE DEF after
  <2>7. stock' \in [Place -> [Book -> Int]] /\ missing' \in [Place -> [Book -> Int]]
    BY <1>1, <1>5, <2>1, <2>2
  <2> QED BY <1>0, <1>1, <2>3, <2>4, <2>5, <2>6, <2>7 DEF TypeOK, CountLine, LookState
<1> HIDE DEF after
<1>9. ShelvesHold'
  <2>1. ASSUME NEW q \in Place, NEW b \in Book PROVE stock'[q][b] - missing'[q][b] >= 0
    <3>1. stock[q][b] - missing[q][b] >= 0
      BY <1>0 DEF NoteInv, ShelvesHold, Shelf
    <3>2. CASE q = p
      <4>1. stock[q][b] \in Int /\ missing[q][b] \in Int /\ Difference(line[b]) \in Int
        BY <1>2, <1>5
      <4> QED BY <1>7, <3>1, <3>2, <4>1
    <3>3. CASE q # p
      BY <1>7, <3>1, <3>3
    <3> QED BY <3>2, <3>3
  <2> QED BY <2>1 DEF ShelvesHold, Shelf
<1>10. NoteTellsItsLines'
  BY <1>0, <1>1 DEF NoteInv, NoteTellsItsLines, NoteLines
<1>11. EveryCopySomewhere'
  <2>1. ASSUME NEW b \in Book
        PROVE  stock'["from"][b] + stock'["to"][b] + damaged'[b] + gone'[b]
                 = stock["from"][b] + stock["to"][b] + damaged[b] + gone[b]
    <3>1. /\ stock["from"][b] \in Int /\ stock["to"][b] \in Int /\ damaged[b] \in Int /\ gone[b] \in Int
          /\ Difference(line[b]) \in Int /\ damaged' = damaged
      BY <1>0, <1>1, <1>2, Numbers DEF Place
    <3>2. CASE p = "from"
      <4>1. stock'["to"][b] = stock["to"][b]
        BY <1>7, <3>2 DEF Place
      <4> QED BY <1>7, <3>1, <3>2, <4>1
    <3>3. CASE p = "to"
      <4>1. stock'["from"][b] = stock["from"][b]
        BY <1>7, <3>3 DEF Place
      <4> QED BY <1>7, <3>1, <3>3, <4>1
    <3> QED BY <1>5, <3>2, <3>3 DEF Place
  <2>2. note' = note
    BY <1>1
  <2> QED BY <1>0, <2>1, <2>2 DEF NoteInv, EveryCopySomewhere, Sent
<1>12. LooksAreTrue' /\ EntriesAreTrue'
  BY <1>6 DEF LooksAreTrue, EntriesAreTrue, Open
<1>13. PostedCountsAreTrue'
  <2>1. ASSUME NEW b \in Book, b \notin disturbed', counted[b].counted PROVE missing'[p][b] = 0
    <3>1. stock[p][b] \in Int /\ missing[p][b] \in Int /\ Difference(line[b]) \in Int
      BY <1>2, <1>5
    <3>2. CASE b \in zero
      <4>1. Shelf(p, b) = 0
        BY <1>1, <2>1, <3>2
      <4>2. Difference(line[b]) = -stock[p][b]
        BY <1>2, <3>2
      <4> QED BY <1>7, <3>1, <4>1, <4>2 DEF Shelf
    <3>3. CASE b \notin zero
      <4>1. b \notin disturbed /\ line[b] = count.line[b] /\ count.line[b].counted
        BY <1>1, <1>2, <1>3, <2>1, <3>3
      <4>2. Difference(line[b]) = -missing[p][b]
        BY <1>0, <1>1, <4>1 DEF CountInv, EntriesAreTrue, Open, p
      <4> QED BY <1>7, <3>1, <4>2
    <3> QED BY <3>2, <3>3
  <2> QED BY <1>6, <2>1 DEF PostedCountsAreTrue
<1>14. NoteInv'
  BY <1>8, <1>9, <1>10, <1>11 DEF NoteInv
<1> QED BY <1>12, <1>13, <1>14 DEF IInv, CountInv

-----------------------------------------------------------------------------
(* Every step.                                                             *)

\* Steps that leave the count alone, and what nobody moved since it was seen.
LEMMA OthersKeepCountInv ==
  ASSUME TypeOK, CountInv, UNCHANGED count,
         disturbed \subseteq disturbed',
         \A b \in Book \ disturbed' : missing'[count.place][b] = missing[count.place][b],
         \A b \in Book : look'[b].open /\ ~look'[b].moved /\ Open =>
           /\ look[b].open /\ ~look[b].moved /\ look'[b].quantity = look[b].quantity
           /\ stock'[count.place][b] = stock[count.place][b]
           /\ missing'[count.place][b] = missing[count.place][b]
  PROVE  CountInv'
<1>1. LooksAreTrue'
  BY DEF CountInv, LooksAreTrue, Open, Shelf
<1>2. EntriesAreTrue'
  BY DEF CountInv, EntriesAreTrue, Open
<1>3. PostedCountsAreTrue'
  BY DEF CountInv, PostedCountsAreTrue
<1> QED BY <1>1, <1>2, <1>3 DEF CountInv

LEMMA ShelfStepKeepsIInv ==
  ASSUME IInv, NEW p \in Place, NEW b \in Book, Steps(p, b) PROVE IInv'
<1>0. NoteInv /\ TypeOK /\ CountInv /\ NoteInv'
  BY ShelfStepKeepsNoteInv DEF IInv, NoteInv
<1>1. /\ \A q \in Place, c \in Book : q # p \/ c # b =>
           stock'[q][c] = stock[q][c] /\ missing'[q][c] = missing[q][c]
      /\ count' = count
      /\ missing' = missing \/ (count.place = p => b \in disturbed')
      /\ disturbed \subseteq disturbed'
  BY <1>0, ShelfStep DEF Disturbs
<1>2. \A c \in Book : /\ look'[c].open = look[c].open /\ look'[c].quantity = look[c].quantity
                      /\ look[c].moved => look'[c].moved
                      /\ Open /\ count.place = p /\ c = b => look'[c].moved
  <2>1. Moved(p, {b})
    BY <1>0, ShelfStep
  <2> QED BY <1>0, <2>1, MovedLooks
<1>3. count.place \in Place /\ \A c \in Book : look'[c] \in LookState /\ look[c] \in LookState
  BY <1>0, Numbers DEF NoteInv, TypeOK, LookState
<1>4. LooksAreTrue'
  <2>1. ASSUME NEW c \in Book, Open, look'[c].open, ~look'[c].moved
        PROVE  look'[c].quantity = stock'[count.place][c] - missing'[count.place][c]
    <3>1. count.place # p \/ c # b
      BY <1>2, <2>1
    <3>2. look[c].quantity = stock[count.place][c] - missing[count.place][c]
      BY <1>0, <1>2, <2>1 DEF CountInv, LooksAreTrue, Shelf
    <3> QED BY <1>1, <1>2, <1>3, <3>1, <3>2
  <2> QED BY <1>1, <2>1 DEF LooksAreTrue, Open, Shelf
<1>5. ASSUME NEW c \in Book, c \notin disturbed'
      PROVE  c \notin disturbed /\ missing'[count.place][c] = missing[count.place][c]
  BY <1>1, <1>3, <1>5
<1>6. EntriesAreTrue' /\ PostedCountsAreTrue'
  BY <1>0, <1>1, <1>5 DEF CountInv, EntriesAreTrue, PostedCountsAreTrue, Open
<1> QED BY <1>0, <1>4, <1>6 DEF IInv, CountInv

LEMMA NoteStepKeepsCountInv ==
  ASSUME IInv, NEW p \in Place, NEW books, Moved(p, books), UNCHANGED count, disturbed \subseteq disturbed',
         \A q \in Place, b \in Book : q # p \/ b \notin books => stock'[q][b] = stock[q][b],
         \A q \in Place, b \in Book :
           q # p \/ b \notin books \/ (count.place = q /\ b \notin disturbed') => missing'[q][b] = missing[q][b]
  PROVE  CountInv'
<1>0. TypeOK /\ CountInv
  BY DEF IInv, NoteInv
<1>1. \A b \in Book : /\ look'[b].open = look[b].open /\ look'[b].quantity = look[b].quantity
                      /\ look[b].moved => look'[b].moved
                      /\ Open /\ count.place = p /\ b \in books => look'[b].moved
  BY <1>0, MovedLooks
<1>2. count.place \in Place
  BY <1>0, RowTypes
<1> QED BY <1>0, <1>1, <1>2, OthersKeepCountInv

\* A draft or its cancellation moves nothing.
LEMMA QuietStepKeepsCountInv ==
  ASSUME IInv, UNCHANGED <<stock, missing, count, look, disturbed>> PROVE CountInv'
  BY DEF IInv, CountInv, LooksAreTrue, EntriesAreTrue, PostedCountsAreTrue, Open, Shelf

LEMMA NoteStepKeepsIInv ==
  ASSUME IInv,
         \/ \E q \in Quantities : Draft(q) \/ ReceiveNote(q)
         \/ CancelNote
         \/ Dispatch
         \/ \E b \in Book, outcome \in {"lost", "damaged", "returned"} :
              \E n \in 1..MaxCopies[b] : Resolve(b, n, outcome)
  PROVE  IInv'
<1>0. NoteInv /\ TypeOK
  BY DEF IInv, NoteInv
<1>1. stock \in [Place -> [Book -> Int]]
  BY <1>0 DEF TypeOK
<1>2. CASE \E q \in Quantities : Draft(q)
  BY <1>0, <1>2, DraftKeepsNoteInv, QuietStepKeepsCountInv DEF Draft, shelfVars, countVars, IInv
<1>3. CASE \E q \in Quantities : ReceiveNote(q)
  <2>1. PICK q \in Quantities : ReceiveNote(q)
    BY <1>3
  <2>2. /\ stock' = [stock EXCEPT !["to"] = [b \in Book |-> stock["to"][b] + q[b]]]
        /\ Moved("to", {b \in Book : q[b] > 0}) /\ UNCHANGED <<count, missing, disturbed>>
    BY <2>1 DEF ReceiveNote
  <2>3. ASSUME NEW p \in Place, NEW b \in Book, p # "to" \/ b \notin {c \in Book : q[c] > 0}
        PROVE  stock'[p][b] = stock[p][b]
    <3>1. q[b] \in Nat /\ stock[p][b] \in Int
      BY <1>1, QuantitiesAreNumbers
    <3>2. CASE p = "to"
      <4>1. q[b] = 0
        BY <2>3, <3>1, <3>2
      <4> QED BY <1>1, <2>2, <3>1, <3>2, <4>1
    <3>3. CASE p # "to"
      BY <1>1, <2>2, <3>3
    <3> QED BY <3>2, <3>3
  <2>4. CountInv'
    BY <2>2, <2>3, NoteStepKeepsCountInv DEF Place
  <2> QED BY <1>0, <2>1, <2>4, ReceiveKeepsNoteInv DEF IInv
<1>4. CASE CancelNote
  BY <1>0, <1>4, CancelNoteKeepsNoteInv, QuietStepKeepsCountInv DEF CancelNote, shelfVars, countVars, IInv
<1>5. CASE Dispatch
  <2>1. /\ stock' = [stock EXCEPT !["from"] = [b \in Book |-> stock["from"][b] - note.line[b].quantity]]
        /\ missing' = [missing EXCEPT !["from"] = [b \in Book |-> missing["from"][b] - OnPaper(b)]]
        /\ disturbed' = IF count.place = "from" THEN disturbed \cup {b \in Book : OnPaper(b) > 0} ELSE disturbed
        /\ Moved("from", NoteLines) /\ UNCHANGED count
    BY <1>5 DEF Dispatch
  <2>2. ASSUME NEW p \in Place, NEW b \in Book, p # "from" \/ b \notin NoteLines
        PROVE  stock'[p][b] = stock[p][b]
    <3>1. note.line[b].quantity \in Nat /\ stock[p][b] \in Int
      BY <1>0, <1>1, Numbers DEF NoteLine
    <3>2. CASE p = "from"
      <4>1. note.line[b].quantity = 0
        BY <2>2, <3>1, <3>2 DEF NoteLines
      <4> QED BY <1>1, <2>1, <3>1, <3>2, <4>1
    <3>3. CASE p # "from"
      BY <1>1, <2>1, <3>3
    <3> QED BY <3>2, <3>3
  <2>3. disturbed \subseteq disturbed'
    BY <2>1
  <2>4. ASSUME NEW p \in Place, NEW b \in Book,
               p # "from" \/ b \notin NoteLines \/ (count.place = p /\ b \notin disturbed')
        PROVE  missing'[p][b] = missing[p][b]
    <3>1. missing \in [Place -> [Book -> Int]] /\ missing["from"][b] \in Int
      BY <1>0 DEF TypeOK, Place
    <3>2. CASE p # "from"
      BY <2>1, <3>1, <3>2
    <3>3. CASE p = "from"
      <4>1. OnPaper(b) = 0
        BY <1>0, <2>1, <2>4, <3>3, OnPaperFacts
      <4>2. missing'["from"][b] = missing["from"][b] - OnPaper(b)
        BY <2>1, <3>1 DEF Place
      <4> QED BY <3>1, <3>3, <4>1, <4>2
    <3> QED BY <3>2, <3>3
  <2>5. CountInv'
    BY <2>1, <2>2, <2>3, <2>4, NoteStepKeepsCountInv DEF Place
  <2> QED BY <1>0, <1>5, <2>5, DispatchKeepsNoteInv DEF IInv
<1>6. CASE \E b \in Book, outcome \in {"lost", "damaged", "returned"} :
             \E n \in 1..MaxCopies[b] : Resolve(b, n, outcome)
  <2>1. PICK b \in Book, outcome \in {"lost", "damaged", "returned"} :
          \E n \in 1..MaxCopies[b] : Resolve(b, n, outcome)
    BY <1>6
  <2>2. PICK n \in 1..MaxCopies[b] : Resolve(b, n, outcome)
    BY <2>1
  <2>3. n \in Nat \ {0}
    <3>1. MaxCopies[b] \in Nat
      BY StockDocumentsAssumption
    <3> QED BY <3>1
  <2>4. /\ IF outcome = "returned"
           THEN stock' = [stock EXCEPT !["from"][b] = @ + n] /\ Moved("from", {b})
           ELSE UNCHANGED <<stock, look>>
        /\ UNCHANGED <<count, missing, disturbed>>
    BY <2>2 DEF Resolve
  <2>5. CountInv'
    <3>1. CASE outcome = "returned"
      <4>1. stock' = [stock EXCEPT !["from"][b] = @ + n] /\ Moved("from", {b})
        BY <2>4, <3>1
      <4>2. \A p \in Place, c \in Book : p # "from" \/ c \notin {b} => stock'[p][c] = stock[p][c]
        BY <1>1, <4>1
      <4> QED BY <2>4, <4>1, <4>2, NoteStepKeepsCountInv DEF Place
    <3>2. CASE outcome # "returned"
      BY <2>4, <3>2, QuietStepKeepsCountInv
    <3> QED BY <3>1, <3>2
  <2>6. NoteInv'
    BY <1>0, <2>2, <2>3, ResolveKeepsNoteInv
  <2> QED BY <2>5, <2>6 DEF IInv
<1> QED BY <1>2, <1>3, <1>4, <1>5, <1>6

LEMMA InitIInv == Init => IInv
<1> SUFFICES ASSUME Init PROVE IInv
  OBVIOUS
<1>1. /\ stock = [p \in Place |-> [b \in Book |-> IF p = "from" THEN InitialStock[b] ELSE 0]]
      /\ missing = [p \in Place |-> [b \in Book |-> 0]]
      /\ damaged = [b \in Book |-> 0] /\ gone = [b \in Book |-> 0]
      /\ note = [status |-> "draft", line |-> [b \in Book |-> NoLine]]
      /\ count = NoCount /\ look = [b \in Book |-> NotLooked]
      /\ astray = [b \in Book |-> 0] /\ disturbed = {}
  BY DEF Init
<1>2. \A b \in Book : InitialStock[b] \in Nat
  BY StockDocumentsAssumption
<1>3. NoCount \in [status : CountStatus, place : Place, line : [Book -> CountLine]]
  BY LinesOfCount DEF NoCount, CountStatus, Place
<1>4. TypeOK
  <2>1. note \in [status : NoteStatus, line : [Book -> NoteLine]]
    BY <1>1, NoLineType DEF NoteStatus
  <2>2. look \in [Book -> LookState]
    BY <1>1, LinesOfCount
  <2>3. stock \in [Place -> [Book -> Int]] /\ missing \in [Place -> [Book -> Int]]
    BY <1>1, <1>2
  <2>4. damaged \in [Book -> Nat] /\ gone \in [Book -> Int] /\ astray \in [Book -> Nat] /\ disturbed \subseteq Book
    BY <1>1
  <2> QED BY <1>1, <1>3, <2>1, <2>2, <2>3, <2>4 DEF TypeOK, NoteLine, CountLine, LookState
<1>5. ShelvesHold
  <2>1. ASSUME NEW p \in Place, NEW b \in Book PROVE stock[p][b] - missing[p][b] >= 0
    <3>1. missing[p][b] = 0
      BY <1>1
    <3>2. stock[p][b] = IF p = "from" THEN InitialStock[b] ELSE 0
      BY <1>1
    <3> QED BY <1>2, <3>1, <3>2
  <2> QED BY <2>1 DEF ShelvesHold, Shelf
<1>6. \A b \in Book : note.line[b] = NoLine /\ OnTheWay(NoLine) = 0 /\ NoLine.quantity = 0
  <2>1. NoLine.quantity = 0 /\ NoLine.received = 0 /\ NoLine.lost = 0 /\ NoLine.damaged = 0 /\ NoLine.returned = 0
    BY DEF NoLine
  <2>2. OnTheWay(NoLine) = 0
    BY <2>1, NoLineType, LineSum
  <2>3. \A b \in Book : note.line[b] = NoLine
    BY <1>1
  <2> QED BY <2>1, <2>2, <2>3
<1>7. NoteTellsItsLines
  BY <1>1, <1>6 DEF NoteTellsItsLines, NoteLines
<1>8. EveryCopySomewhere
  <2>1. ASSUME NEW b \in Book
        PROVE  stock["from"][b] + stock["to"][b] + damaged[b] + gone[b] = InitialStock[b]
    <3>1. stock["from"][b] = InitialStock[b] /\ stock["to"][b] = 0 /\ damaged[b] = 0 /\ gone[b] = 0
      BY <1>1 DEF Place
    <3> QED BY <1>2, <3>1
  <2>2. ~Sent
    BY <1>1 DEF Sent
  <2>3. ASSUME NEW b \in Book
        PROVE  stock["from"][b] + stock["to"][b] + damaged[b] + gone[b] + 0 = InitialStock[b]
    BY <1>2, <2>1
  <2> QED BY <2>2, <2>3 DEF EveryCopySomewhere
<1>9. CountInv
  BY <1>1 DEF CountInv, LooksAreTrue, EntriesAreTrue, PostedCountsAreTrue, Open, NoCount
<1> QED BY <1>4, <1>5, <1>7, <1>8, <1>9 DEF IInv, NoteInv

LEMMA StepIInv == IInv /\ [Next]_vars => IInv'
<1> SUFFICES ASSUME IInv, [Next]_vars PROVE IInv'
  OBVIOUS
<1>1. CASE \E p \in Place, b \in Book : Sell(p, b)
  BY <1>1, ShelfStepKeepsIInv DEF Steps
<1>2. CASE \E p \in CountedAt, b \in Book : GoAstray(p, b) \/ Correct(p, b)
  BY <1>2, ShelfStepKeepsIInv, StockDocumentsAssumption DEF Steps, Place
<1>3. CASE \/ \E q \in Quantities : Draft(q) \/ ReceiveNote(q)
           \/ CancelNote
           \/ Dispatch
           \/ \E b \in Book, outcome \in {"lost", "damaged", "returned"} :
                \E n \in 1..MaxCopies[b] : Resolve(b, n, outcome)
  BY <1>3, NoteStepKeepsIInv
<1>4. CASE \E p \in CountedAt, books \in SUBSET Book : OpenCount(p, books)
  BY <1>4, OpenCountKeepsIInv, StockDocumentsAssumption DEF Place
<1>5. CASE \E b \in Book : LookAt(b)
  BY <1>5, LookKeepsIInv
<1>6. CASE \E books \in SUBSET Book : EnterCounts(books)
  BY <1>6, EnterKeepsIInv
<1>7. CASE \E books \in SUBSET Book : Post(books)
  BY <1>7, PostKeepsIInv
<1>8. CASE Submit \/ Recount
  BY <1>8, StatusKeepsIInv
<1>9. CASE CancelCount
  BY <1>9, CancelCountKeepsIInv
<1>10. CASE UNCHANGED vars
  BY <1>10 DEF vars, IInv, NoteInv, TypeOK, ShelvesHold, NoteTellsItsLines, NoteLines, EveryCopySomewhere, Sent,
     CountInv, LooksAreTrue, EntriesAreTrue, PostedCountsAreTrue, Open, Shelf
<1> QED BY <1>1, <1>2, <1>3, <1>4, <1>5, <1>6, <1>7, <1>8, <1>9, <1>10 DEF Next

\* Notes, counts and shelves keep their shape: nothing received, resolved or seen is negative.
THEOREM TypeCorrect == Spec => []TypeOK
<1>1. IInv => TypeOK
  BY DEF IInv, NoteInv
<1> QED BY <1>1, InitIInv, StepIInv, PTL DEF Spec

\* Every copy of a transfer note is somewhere, once, and the note's status tells how far it has
\* come (checkWithinOutstanding, statusAfter), whatever else happens to the books.
THEOREM NotesAddUp == Spec => []NotesAccountForTheirCopies
<1>1. IInv => NotesAccountForTheirCopies
  BY DEF IInv, NoteInv, NotesAccountForTheirCopies
<1> QED BY <1>1, InitIInv, StepIInv, PTL DEF Spec

\* A posted count leaves the record of a book at what is on the shelf, unless an entry of it
\* was no longer the truth when it was made or the record was corrected in between
\* (recordCount, post).
THEOREM PostedCountsStayTrue == Spec => []PostedCountsAreTrue
<1>1. IInv => PostedCountsAreTrue
  BY DEF IInv, CountInv
<1> QED BY <1>1, InitIInv, StepIInv, PTL DEF Spec

===============================================================================
