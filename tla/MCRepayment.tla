---------------------------- MODULE MCRepayment ----------------------------
(* RepaymentTurns on small loans.                                          *)
EXTENDS RepaymentTurns, Sequences

CONSTANTS w1, w2

(* The default allocation order.                                           *)
DefaultOrder == <<"penalty", "fees", "interest", "principal">>

(* What the schedules of these loans can ask for on a day.                 *)
DueInterest == 0..40

(* Once payments have overlapped, three are followed: what two write over   *)
(* each other, a third one works on.                                        *)
ShortOverlap == overlapped => count < 3

Symmetry == {[w \in Workers |-> w], [w \in Workers |-> IF w = w1 THEN w2 ELSE w1]}

=============================================================================
