---------------------------- MODULE ReceiptBook ----------------------------
(***************************************************************************)
(* What the M-Pesa integration promises about mobile-money receipts: one   *)
(* whose callback was stored is eventually listed for the administrators,  *)
(* and a receipt is credited to a loan again only when the repayment that  *)
(* it was posted with before is deleted.                                   *)
(***************************************************************************)
EXTENDS Naturals

CONSTANT Receipts

VARIABLES
    stored,     \* receipts with a stored callback
    listed,     \* receipts in the M-Pesa report
    posted,     \* receipts with a repayment
    credits     \* how often each receipt was credited to a loan

bookVars == <<stored, listed, posted, credits>>

BookInit ==
    /\ stored = {}
    /\ listed = {}
    /\ posted = {}
    /\ credits = [r \in Receipts |-> 0]

Store(r) ==
    /\ stored' = stored \cup {r}
    /\ UNCHANGED <<listed, posted, credits>>

Post(r) ==
    /\ r \notin posted
    /\ posted' = posted \cup {r}
    /\ credits' = [credits EXCEPT ![r] = @ + 1]

(* A receipt may be credited in the step that lists it.                    *)
List(r) ==
    /\ r \notin listed
    /\ listed' = listed \cup {r}
    /\ Post(r) \/ UNCHANGED <<posted, credits>>
    /\ UNCHANGED stored

Credit(r) ==
    /\ Post(r)
    /\ UNCHANGED <<stored, listed>>

(* What was credited stays with the loan.                                  *)
Delete(r) ==
    /\ posted' = posted \ {r}
    /\ UNCHANGED <<stored, listed, credits>>

BookNext == \E r \in Receipts : Store(r) \/ List(r) \/ Credit(r) \/ Delete(r)

BookSpec ==
    /\ BookInit
    /\ [][BookNext]_bookVars
    /\ \A r \in Receipts : WF_bookVars(r \in stored /\ List(r))

=============================================================================
