---------------------------- MODULE MCLoanHeader ----------------------------
(* LoanHeader on a small debt.                                             *)
EXTENDS LoanHeader, Sequences

(* An order that does not name the principal, which takes what is left.    *)
NoPrincipal == <<"penalty", "fees", "interest", "none">>

SmallDues == {[d EXCEPT !["principal"] = 0] : d \in [Components -> 0..2]}

=============================================================================
