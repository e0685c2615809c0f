----------------------------- MODULE LoanTurns -----------------------------
(* LoanLifecycle with a watch on its workers: what holds of the loans as   *)
(* long as each request is answered before the next one is served.         *)
EXTENDS LoanLifecycle

VARIABLE overlapped      \* whether two requests were ever under way at once

OneAtATime ==
    \A v, w \in Workers : stage[v] # "idle" /\ stage[w] # "idle" => v = w

Watch == overlapped' = (overlapped \/ ~OneAtATime')

turnVars == <<vars, overlapped>>

TurnInit == Init /\ overlapped = FALSE

TurnSpec == TurnInit /\ [][Next /\ Watch]_turnVars

-----------------------------------------------------------------------------
OneOpenLoan ==
    \A p, q \in Rows :
        /\ loans[p].member = loans[q].member
        /\ loans[p].status \in Open
        /\ loans[q].status \in Open
        => p = q

OwedWhileServiced ==
    \A p \in Rows :
        /\ loans[p].status \in Serviced => loans[p].balance > 0
        /\ loans[p].status = "closed" => loans[p].balance = 0

(* A member has at most one open loan, as long as each request is answered *)
(* before the next is served (perform_create).                             *)
OneOpenLoanInTurn == ~overlapped => OneOpenLoan

(* In turn, the portfolio holds a loan exactly as long as something is     *)
(* owed on it: a serviced loan has principal left and a closed one has     *)
(* none (RepaymentSerializer.create, disburse).                            *)
OwedWhileServicedInTurn == ~overlapped => OwedWhileServiced

(* In turn, no request reopens, alters or deletes a closed loan (reject,   *)
(* destroy, loan_aging).                                                   *)
ClosedIsFinalInTurn ==
    [][\A p \in Pks :
          ~overlapped' /\ loans[p] # NoRow /\ loans[p].status = "closed"
              => loans'[p] = loans[p]]_turnVars

=============================================================================
