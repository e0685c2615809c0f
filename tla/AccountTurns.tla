---------------------------- MODULE AccountTurns ----------------------------
(* The accounts of members with a watch on the requests: what holds of     *)
(* balances and withdrawals as long as each request is answered before the *)
(* next one is begun, by however many workers.                             *)
EXTENDS MemberAccounts

VARIABLES overlapped,   \* whether two requests were ever under way at once
          adrift        \* keys of withdrawals that stand without a payment

watchVars == <<overlapped, adrift>>
turnVars == <<accountsVars, watchVars>>

\* A request is begun while another one is under way.
Overlap == \E t, u \in Tabs :
    t # u /\ t \in Served /\ req[u].stage = "sent" /\ req'[u] # req[u]

\* The request of a withdrawal on its way from its row to its payment's key.
Carries(t, w) ==
    /\ req[t].op = "withdraw" /\ req[t].stage \in {"moved", "numbered", "inserted"}
    /\ req[t].move = w.id

\* Two ways to lose the payment: the worker dies between the two rows, and the
\* deletion of the payment, which clears its key from the withdrawal.
Abandoned == {w \in moves : \E t \in Tabs : Carries(t, w) /\ req'[t].stage = "failed"}
Orphaned == {w \in moves : w.paid # 0 /\ \E t \in Tabs :
                (DeleteSavings(t) \/ DeleteShares(t)) /\ req[t].id = w.paid}

Watch ==
    /\ overlapped' = (overlapped \/ Overlap)
    /\ adrift' = adrift \cup {w.id : w \in Abandoned \cup Orphaned}

TurnInit == AccountsInit /\ overlapped = FALSE /\ adrift = {}

TurnSpec == TurnInit /\ [][AccountsNext /\ Watch]_turnVars

-----------------------------------------------------------------------------
\* Properties

\* Until two requests overlap, no withdrawal or transfer takes more than the
\* member has (SavingsWithdrawalSerializer.validate,
\* ShareTransferSerializer.validate).
CoveredInTurn == [][Overdraws => overlapped']_turnVars

\* The money of a withdrawal that stands is out: its payment is there, of the
\* same amount and not reversed, whichever of the two screens takes either
\* back, or it is just being written.  Three things take that away: requests
\* that overlap, a worker that dies between the rows of the withdrawal and of
\* its payment, and the deletion of the payment, after which the withdrawal
\* stands and the money is back (SavingsWithdrawal.save, linked_payment,
\* reverse_savings_payment, SavingsPaymentViewSet.destroy).
PaidOut(w) == \E p \in payments : p.id = w.paid /\ ~p.reversed /\ p.amount = w.amount
StandingIsOut ==
    book = "savings" /\ ~overlapped =>
      \A w \in moves : w.active =>
        PaidOut(w) \/ (\E t \in Tabs : Carries(t, w)) \/ w.id \in adrift
=============================================================================
