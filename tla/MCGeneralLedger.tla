-------------------------- MODULE MCGeneralLedger --------------------------
(* Two accountants, and a chart with one income account: cash and equity   *)
(* are made by the first posting that needs them.                          *)
EXTENDS GeneralLedger, TLC

CONSTANTS t1, t2

MCStart == {[id |-> 1, code |-> "4150", active |-> TRUE]}

\* Nothing is posted yet, or that account has entries.
MCBegun ==
    LET entry(side) == [account |-> 1, side |-> side, amount |-> 1] IN
    {{}, {[id |-> 1, from |-> entry("debit"), to |-> entry("credit")]}}

\* Two amounts and one below zero, enough for totals that hide a difference.
MCTyped == {-1, 1, 2}

\* The first tab is at the finance page, the second at the journal desk.
MCOpens == t1 :> {"finance"} @@ t2 :> {"journals"}
=============================================================================
