------------------------------ MODULE AnswerOnce ------------------------------
(***************************************************************************)
(* What an Idempotency-Key promises to those who ask with it, without the  *)
(* table, the three statements and the ways they fail (lib/idempotency.ts; *)
(* Idempotency shows that it holds).                                       *)
(*                                                                         *)
(* An operation runs only while no answer is kept for its key, except for  *)
(* clients that were being served at the same time.  A client whose        *)
(* operation ran is told its result, any other one an answer kept.         *)
(* Keeping an answer is best effort: it may be forgotten at any time.      *)
(***************************************************************************)
EXTENDS Naturals

CONSTANTS
  Key,
  Client,   \* who asks: each of them once
  NoAnswer

VARIABLES
  served,  \* [Key -> the clients being served]
  crowded, \* the clients that were being served while another one of their key was
  ran,     \* [Key -> the clients whose operation ran]
  kept,    \* [Key -> the clients whose results are kept]
  given    \* [Client -> whose result it was told]

vars == <<served, crowded, ran, kept, given>>

Init ==
  /\ served = [k \in Key |-> {}]
  /\ crowded = {}
  /\ ran = [k \in Key |-> {}]
  /\ kept = [k \in Key |-> {}]
  /\ given = [c \in Client |-> NoAnswer]

\* A client is let in when nothing is kept, or beside another one.
Enter(k, c) ==
  /\ c \notin served[k] /\ given[c] = NoAnswer
  /\ kept[k] = {} \/ served[k] # {}
  /\ served' = [served EXCEPT ![k] = @ \cup {c}]
  /\ crowded' = IF served[k] = {} THEN crowded ELSE crowded \cup served[k] \cup {c}
  /\ UNCHANGED <<ran, kept, given>>

Run(k, c) ==
  /\ c \in served[k] \ ran[k]
  /\ kept[k] = {} \/ c \in crowded
  /\ ran' = [ran EXCEPT ![k] = @ \cup {c}]
  /\ kept' = [kept EXCEPT ![k] = @ \cup {c}]
  /\ UNCHANGED <<served, crowded, given>>

\* The client leaves, with an answer or without; what it ran may be forgotten with that.
Leave(k, c) ==
  /\ c \in served[k]
  /\ served' = [served EXCEPT ![k] = @ \ {c}]
  /\ kept' \in {kept, [kept EXCEPT ![k] = @ \ {c}]}
  /\ \/ UNCHANGED given
     \/ c \in ran[k] /\ given' = [given EXCEPT ![c] = c]
  /\ UNCHANGED <<crowded, ran>>

\* A client that need not be served is told an answer kept.
Replay(k, c) ==
  /\ c \notin served[k] /\ given[c] = NoAnswer
  /\ \E answer \in kept[k] : given' = [given EXCEPT ![c] = answer]
  /\ UNCHANGED <<served, crowded, ran, kept>>

Forget(k) ==
  /\ \E answer \in kept[k] : kept' = [kept EXCEPT ![k] = @ \ {answer}]
  /\ UNCHANGED <<served, crowded, ran, given>>

Next ==
  \E k \in Key :
    \/ \E c \in Client : Enter(k, c) \/ Run(k, c) \/ Leave(k, c) \/ Replay(k, c)
    \/ Forget(k)

Spec == Init /\ [][Next]_vars
===============================================================================
