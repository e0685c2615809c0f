----------------------------- MODULE MCLoanDesk -----------------------------
(* Two loans: an application and a running loan, or two running loans.     *)
EXTENDS LoanDesk, TLC

CONSTANTS a, b, t1, t2

Row(status, owed, approved) == [status |-> status, owed |-> owed, approved |-> approved]

Running == (a :> Row("active", 2, 2)) @@ (b :> Row("active", 2, 2))
Applied == (a :> Row("pending", 2, 0)) @@ (b :> Row("gone", 0, 0))
MCOpens == (t1 :> {"loan", "receive"}) @@ (t2 :> {"list"})
MCStarts == {Running, Applied}
=============================================================================
