----------------------------- MODULE TableStore ------------------------------
(***************************************************************************)
(* What prices.json promises its readers (README: `treated as your data    *)
(* rather than a cache'): at any moment there is no file or a whole table, *)
(* and a change replaces the table by one that holds all it held.  A table *)
(* is the set of the changes in it; table holds the one there is, if any.  *)
(***************************************************************************)
CONSTANT Changes

VARIABLE table

Init == table \in {{}, {{}}}

Change == \E c \in Changes : table' = {(UNION table) \cup {c}}

Spec == Init /\ [][Change]_table
=============================================================================
