-------------------------- MODULE MCDeductionRoll --------------------------
(* DeductionRoll with one member and two operators: one who works at the  *)
(* sheet and uploads, and one who uploads.  A remittance covers the         *)
(* principal of one installment and the fee, and not that of two.          *)
EXTENDS DeductionRoll, TLC

CONSTANTS m1, n1, n2, i1, i2, t1, t2

MCPages == t1 :> {"roll", "upload"} @@ t2 :> {"upload"}

(* Two loans, of which the member has none, one or both, each with one     *)
(* installment in the month.                                               *)
MCBorrower == [n \in Loans |-> m1]
MCOf == i1 :> n1 @@ i2 :> n2
MCIn == [i \in Installments |-> 1]

(* What is estimated for another loan, without an installment in the month. *)
MCEstimates == {[NoParts EXCEPT !.principal = 1]}

(* A loan is exchanged with the other one together with its installment.   *)
Symmetry ==
    {f \in Permutations(Loans \cup Installments) : \A i \in Installments :
       f[i] \in Installments /\ f[Of[i]] = Of[f[i]]}
=============================================================================
