----------------------------- MODULE Waterfall -----------------------------
(***************************************************************************)
(* allocate_repayment_waterfall (loans/services/engine/repayment.py): how  *)
(* one payment is distributed over the components of a debt, in the order  *)
(* the loan product prescribes.  Amounts are whole cents.                  *)
(***************************************************************************)
EXTENDS Integers

Components == {"penalty", "fees", "interest", "principal"}

(* An order names a component at each of four places; "none" stands for a  *)
(* word the code does not know and skips.  Nothing in the code keeps an    *)
(* order from naming a component twice, or not at all.                     *)
Orders == [1..4 -> Components \cup {"none"}]

(* No component is named twice.                                            *)
NoRepeats(order) ==
    \A i, j \in 1..4 : i # j => order[i] # order[j] \/ order[i] = "none"

Smaller(a, b) == IF a <= b THEN a ELSE b
Larger(a, b)  == IF a >= b THEN a ELSE b

Nothing == [c \in Components |-> 0]

(* Fault: what a component takes stays available to the next one.          *)
Take_KeepsRest(s, c, due) ==
    IF c \in Components
    THEN [s EXCEPT !.alloc[c] = @ + Smaller(s.rem, due[c])]
    ELSE s

(* One turn of the loop: component c takes what is due, as far as it goes. *)
Take(s, c, due) ==
    IF c \in Components
    THEN LET pay == Smaller(s.rem, due[c])
         IN  [rem |-> s.rem - pay, alloc |-> [s.alloc EXCEPT ![c] = @ + pay]]
    ELSE s

(* Fault: the principal takes all that is left.                            *)
Sweep_Uncapped(s, due) ==
    [rem |-> 0, alloc |-> [s.alloc EXCEPT !["principal"] = @ + s.rem]]

(* Fault: what is left over is left idle.                                  *)
Sweep_Nothing(s, due) == s

(* What the principal still takes when the loop has left money over.       *)
Sweep(s, due) ==
    LET extra == Smaller(s.rem, Larger(0, due["principal"] - s.alloc["principal"]))
    IN  [rem |-> s.rem - extra,
         alloc |-> [s.alloc EXCEPT !["principal"] = @ + extra]]

(* The allocation and the unallocated remainder of a payment.              *)
Allocate(amount, due, order) ==
    LET s1 == Take([rem |-> amount, alloc |-> Nothing], order[1], due)
        s2 == Take(s1, order[2], due)
        s3 == Take(s2, order[3], due)
        s4 == Take(s3, order[4], due)
    IN  Sweep(s4, due)

(* total_allocated                                                         *)
Allocated(s) == s.alloc["penalty"] + s.alloc["fees"]
                + s.alloc["interest"] + s.alloc["principal"]

=============================================================================
