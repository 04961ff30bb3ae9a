----------------------------- MODULE MCInventory -----------------------------
(* Two shelves of one book in one branch, and small numbers. *)
EXTENDS Inventory

CONSTANTS s1, s2, book1, main

OneBook == [s \in Shelves |-> book1]
OneBranch == [s \in Shelves |-> main]
=============================================================================
