-------------------------- MODULE MCLoanLifecycle --------------------------
(* LoanTurns on a small instance.  Requests are served one at a time until *)
(* two of them overlap for the first time; from then on they always may.   *)
(* Some properties hold until then, the others throughout.                 *)
EXTENDS LoanTurns, TLC

CONSTANTS
    m1, w1, w2,
    MaxPayouts       \* bound: payouts of one loan

(* Once requests overlap there is one loan.                                *)
Applying == \E w \in Workers : stage[w] \in {"numbering", "inserting"}

Bound ==
    /\ overlapped' => nextPk' = 1 \/ (nextPk' = 2 /\ ~Applying')
    /\ \A p \in Pks : payouts'[p] <= MaxPayouts

Busy == {w \in Workers : stage[w] # "idle"}

Ready == IF overlapped \/ Busy = {} \/ nextPk <= 2 THEN Workers ELSE Busy

Symmetry == Permutations(Workers)

(* The disjuncts of Next, for the workers that are ready.                  *)
MCNext ==
    /\ \/ \E w \in Ready : Serve(w)
       \/ \E t \in journal : VoidJournal(t)
       \/ \E p \in Pks : DayPasses(p) \/ Mature(p)
    /\ Watch
    /\ Bound

MCSpec == TurnInit /\ [][MCNext]_turnVars

=============================================================================
