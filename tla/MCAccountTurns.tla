--------------------------- MODULE MCAccountTurns ---------------------------
(* Two members: a transfer or a withdrawal and the account it comes from;  *)
(* two tabs, whose requests two workers may serve at once.                 *)
EXTENDS AccountTurns, TLC

CONSTANTS a, b, t1, t2

(* A number the forms of a payment send.                                   *)
MCTyped == {1}

(* Once two requests have overlapped the properties say nothing.           *)
InTurn == ~overlapped

(* No guard and no property depends on the journals.                       *)
NoJournals == <<book, tab, req, payments, inserted, moves, watchVars>>

Symmetry == Permutations({a, b}) \cup Permutations({t1, t2})
=============================================================================
