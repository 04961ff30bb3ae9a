----------------------------- MODULE Idempotency -----------------------------
(***************************************************************************)
(* lib/idempotency.ts: a repeated request with an Idempotency-Key gets the *)
(* stored answer of the first, for payments, orders and exchanges.         *)
(*                                                                         *)
(* One attempt is one HTTP request.  It looks its key up, runs the         *)
(* operation (a transaction of its own) and stores the answer: three       *)
(* database calls with nothing held in between, so that attempts           *)
(* interleave at each of them and a process may die between any two.       *)
(* Nothing keeps a client from sending a key twice at once.                *)
(***************************************************************************)
EXTENDS Naturals, FiniteSets

CONSTANTS
  Key,
  Request,     \* an endpoint with a body
  Attempt,
  NoAnswer,
  MaxFailures, \* bound: processes that die, answers that are not stored
  MaxExpiries  \* bound: keys that reach their 24 hours

ASSUME IdempotencyAssumption ==
  /\ IsFiniteSet(Attempt)
  /\ NoAnswer \notin Attempt
  /\ MaxFailures \in Nat
  /\ MaxExpiries \in Nat

VARIABLES
  table,    \* [Key -> its row in idempotency_keys]; state "absent", "fresh", "expired"
  runs,     \* [Key -> the attempts whose operation ran]
  attempt,  \* [Attempt -> what became of it]
  failures, \* [Key -> attempts that died or did not store]
  expiries, \* [Key -> times its row expired]
  overlaps, \* [Key -> attempts that looked it up in vain while another was under way]
  crowded   \* the attempts that were under way while another one of their key was

keyVars == <<table, runs, attempt, failures, expiries, overlaps, crowded>>
outside == <<failures, expiries, overlaps, crowded>>

\* An answer is the result of an attempt.
Answers == Attempt \cup {NoAnswer}

AttemptState == [at : {"new", "running", "ran", "answered", "replayed", "lost"},
                 key : Key, request : Request, answer : Answers]

KeysTypeOK ==
  /\ table \in [Key -> [state : {"absent", "fresh", "expired"}, answer : Answers]]
  /\ runs \in [Key -> SUBSET Attempt]
  /\ attempt \in [Attempt -> AttemptState]
  /\ failures \in [Key -> Nat] /\ expiries \in [Key -> Nat] /\ overlaps \in [Key -> Nat]
  /\ crowded \subseteq Attempt

KeysInit ==
  /\ table = [k \in Key |-> [state |-> "absent", answer |-> NoAnswer]]
  /\ runs = [k \in Key |-> {}]
  /\ attempt \in [Attempt -> [at : {"new"}, key : Key, request : Request, answer : {NoAnswer}]]
  /\ failures = [k \in Key |-> 0]
  /\ expiries = [k \in Key |-> 0]
  /\ overlaps = [k \in Key |-> 0]
  /\ crowded = {}

-----------------------------------------------------------------------------
Of(k) == {a \in Attempt : attempt[a].key = k}

InFlight(a) == attempt[a].at \in {"running", "ran"}

\* Mutant: a stored answer is never found.
MutantNothingFound(k) == FALSE

\* Mutant: a key is found whether it expired or not.
MutantExpiredToo(k) == table[k].state # "absent"

\* SELECT ... WHERE key = $1 AND expires_at > now(): the key alone.
Found(k) == table[k].state = "fresh"

\* The client may not wait for an answer before it sends the key again.
Lookup(a) ==
  LET k == attempt[a].key
      others == {b \in Of(k) : InFlight(b)}
  IN /\ attempt[a].at = "new"
     /\ IF Found(k)
        THEN /\ attempt' = [attempt EXCEPT ![a] = [@ EXCEPT !.at = "replayed", !.answer = table[k].answer]]
             /\ UNCHANGED <<overlaps, crowded>>
        ELSE /\ attempt' = [attempt EXCEPT ![a].at = "running"]
             /\ overlaps' = [overlaps EXCEPT ![k] = IF others = {} THEN @ ELSE @ + 1]
             /\ crowded' = IF others = {} THEN crowded ELSE crowded \cup others \cup {a}
     /\ UNCHANGED <<table, runs, failures, expiries>>

\* fn(): the operation commits.
Run(a) ==
  /\ attempt[a].at = "running"
  /\ runs' = [runs EXCEPT ![attempt[a].key] = @ \cup {a}]
  /\ attempt' = [attempt EXCEPT ![a] = [@ EXCEPT !.at = "ran", !.answer = a]]
  /\ UNCHANGED <<table, outside>>

\* fn() throws: the request is refused, and nothing is stored.
RefuseRun(a) ==
  /\ attempt[a].at = "running"
  /\ attempt' = [attempt EXCEPT ![a].at = "lost"]
  /\ UNCHANGED <<table, runs, outside>>

\* Mutant: ON CONFLICT DO UPDATE.
MutantOverwrites(row, answer) == [state |-> "fresh", answer |-> answer]

\* INSERT ... ON CONFLICT DO NOTHING: an expired row is in the way too.
Stored(row, answer) ==
  IF row.state = "absent" THEN [state |-> "fresh", answer |-> answer] ELSE row

Store(a) ==
  LET k == attempt[a].key
  IN /\ attempt[a].at = "ran"
     /\ table' = [table EXCEPT ![k] = Stored(@, attempt[a].answer)]
     /\ attempt' = [attempt EXCEPT ![a].at = "answered"]
     /\ UNCHANGED <<runs, outside>>

\* The INSERT fails: "idempotency is best-effort", the request is answered.
StoreFails(a) ==
  LET k == attempt[a].key
  IN /\ attempt[a].at = "ran"
     /\ failures[k] < MaxFailures
     /\ failures' = [failures EXCEPT ![k] = @ + 1]
     /\ attempt' = [attempt EXCEPT ![a].at = "answered"]
     /\ UNCHANGED <<table, runs, expiries, overlaps, crowded>>

\* The process dies: the client gets no answer.
Die(a) ==
  LET k == attempt[a].key
  IN /\ InFlight(a)
     /\ failures[k] < MaxFailures
     /\ failures' = [failures EXCEPT ![k] = @ + 1]
     /\ attempt' = [attempt EXCEPT ![a].at = "lost"]
     /\ UNCHANGED <<table, runs, expiries, overlaps, crowded>>

\* expires_at is reached.
Expire(k) ==
  /\ table[k].state = "fresh" /\ expiries[k] < MaxExpiries
  /\ table' = [table EXCEPT ![k].state = "expired"]
  /\ expiries' = [expiries EXCEPT ![k] = @ + 1]
  /\ UNCHANGED <<runs, attempt, failures, overlaps, crowded>>

\* DELETE ... WHERE expires_at < now(), by one request in a hundred
CleanUp ==
  /\ \E k \in Key : table[k].state = "expired"
  /\ table' = [k \in Key |-> IF table[k].state = "expired"
                             THEN [state |-> "absent", answer |-> NoAnswer] ELSE table[k]]
  /\ UNCHANGED <<runs, attempt, outside>>

KeysNext ==
  \/ \E a \in Attempt : Lookup(a) \/ Run(a) \/ RefuseRun(a) \/ Store(a) \/ StoreFails(a) \/ Die(a)
  \/ \E k \in Key : Expire(k)
  \/ CleanUp

KeysSpec == KeysInit /\ [][KeysNext]_keyVars

-----------------------------------------------------------------------------
(* Properties.                                                             *)

\* exchanges.controller.ts: "A retried request with the same Idempotency-Key gets the
\* first answer, not a second exchange."
RunOnce == \A k \in Key : Cardinality(runs[k]) <= 1

\* hashBody: "a stable hash of the request body for collision detection".  An answer is the
\* answer to the request it is given for.
AnswersItsRequest ==
  \A a \in Attempt : attempt[a].at = "replayed" => attempt[attempt[a].answer].request = attempt[a].request

\* A key runs its operation again only after an attempt that died or could not store, for
\* an attempt sent while another one was under way, or after its 24 hours.
RunAgainOnlyIfForgotten ==
  \A k \in Key : expiries[k] = 0 => Cardinality(runs[k]) <= 1 + failures[k] + overlaps[k]

\* Who retries learns of one run only: whatever overlapped, all replays of a key give the
\* answer stored, which is that of an operation that did run, until the key expires.
ReplaysAgree ==
  \A k \in Key : \A a \in Of(k) : attempt[a].at = "replayed" =>
    /\ attempt[a].answer \in runs[k]
    /\ expiries[k] = 0 => table[k].answer = attempt[a].answer

Serving == [k \in Key |-> {a \in Of(k) : InFlight(a)}]

\* An answer is kept from the moment its operation committed, by the attempt that has yet to
\* store it or by the table.
Kept ==
  [k \in Key |-> {a \in Of(k) : attempt[a].at = "ran"}
                   \cup (IF table[k].state = "fresh" THEN {table[k].answer} ELSE {})]

Given == [a \in Attempt |-> IF attempt[a].at \in {"answered", "replayed"} THEN attempt[a].answer ELSE NoAnswer]

Once == INSTANCE AnswerOnce WITH
  Client <- Attempt, served <- Serving, ran <- runs, kept <- Kept, given <- Given

\* The table with its failures and its expiry looks as if an operation ran only while no
\* answer was kept for its key, but for attempts that were under way together, and as if every
\* answer were the attempt's own or one kept (AnswerOnce).
ImplementsAnswerOnce == Once!Spec
===============================================================================
