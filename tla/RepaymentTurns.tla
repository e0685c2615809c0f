--------------------------- MODULE RepaymentTurns ---------------------------
(* Repayment with a watch on its workers: what holds of the header, the    *)
(* schedule and the books as long as each payment is answered before the   *)
(* next one is begun.                                                      *)
EXTENDS Repayment

VARIABLE overlapped      \* whether two requests ever held the loan at once

OneHolds == \A v, w \in Workers : obj[v] # NoRow /\ obj[w] # NoRow => v = w

Watch == overlapped' = (overlapped \/ ~OneHolds')

turnVars == <<repaymentVars, overlapped>>

TurnInit == RepaymentInit /\ overlapped = FALSE

TurnSpec == TurnInit /\ [][RepaymentNext /\ Watch]_turnVars

-----------------------------------------------------------------------------
(* Until two payments overlap, the header owes what was disbursed less the  *)
(* principal posted.  Two that hold the same header break this: the later   *)
(* one saves what it read (RepaymentSerializer.create).                     *)
PrincipalInTurn == overlapped \/ PrincipalMatchesLedger

(* Until then interest income is interest paid on installments              *)
(* (_post_ledger_entry against the spread over the entries), ...            *)
InterestInTurn == overlapped \/ InterestOnInstallments

(* ... and the header asks for what the schedule asks for: the two are      *)
(* updated by different code (RepaymentSerializer.create).                  *)
ScheduleInTurn == overlapped \/ HeaderMatchesSchedule

(* Until two payments overlap, each does to the header's principal and to   *)
(* the books what LoanHeader allows, whatever the schedule asks for         *)
(* (RepaymentSerializer.create, _post_ledger_entry).                       *)
HeaderStepsInTurn ==
    /\ Abstract!HeaderInit
    /\ [][overlapped' \/ Abstract!HeaderNext \/ UNCHANGED Abstract!headerVars]_turnVars

=============================================================================
