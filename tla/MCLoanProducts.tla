--------------------------- MODULE MCLoanProducts ---------------------------
(* LoanProducts with one product to begin with, and two operators: one has *)
(* the catalogue, the other the page of a product and the application.     *)
EXTENDS LoanProducts, TLC

CONSTANTS a, b, c, t1, t2

Long  == [rate |-> 1, span |-> 2]
Short == [rate |-> 2, span |-> 1]

MCTyped == {Long, Short}
MCSeeds == <<[code |-> c, terms |-> Long]>>
MCPages == t1 :> {"table", "edit", "new"} @@ t2 :> {"details", "apply"}
=============================================================================
