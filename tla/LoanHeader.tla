----------------------------- MODULE LoanHeader -----------------------------
(***************************************************************************)
(* What repayments promise about the header of a disbursed loan and the    *)
(* books, whatever its schedule asks for: every payment is distributed by  *)
(* the waterfall over what is due on its date and the principal that is    *)
(* owed; the principal falls by what was credited to it.  The interest     *)
(* that is due is the schedule's matter; here it is any amount of Dues.    *)
(***************************************************************************)
EXTENDS Waterfall

CONSTANTS
    Disbursed,      \* the principal paid out, in cents
    Dues,           \* what can be due besides the principal
    Payments,       \* amounts that borrowers pay
    Order,          \* the product's allocation order
    MaxRepayments   \* bound: repayments ever recorded

ASSUME HeaderAssumption ==
    /\ Disbursed \in Nat
    /\ Dues \subseteq [Components -> Nat]
    /\ Payments \subseteq Nat
    /\ Order \in Orders
    /\ MaxRepayments \in Nat

VARIABLES
    principal,      \* principal_balance of the header
    received,       \* sum of amount_paid over the Repayment rows
    credited,       \* sums of their allocated_... columns
    unallocated,    \* sum of their unallocated_amount
    count           \* Repayment rows

headerVars == <<principal, received, credited, unallocated, count>>

HeaderTypeOK ==
    /\ principal \in Nat
    /\ received \in Nat
    /\ credited \in [Components -> Nat]
    /\ unallocated \in Nat
    /\ count \in 0..MaxRepayments

HeaderInit ==
    /\ principal = Disbursed
    /\ received = 0
    /\ credited = Nothing
    /\ unallocated = 0
    /\ count = 0

(* The waterfall over what is due on the day and the principal owed.       *)
Share(a, due) == Allocate(a, [due EXCEPT !["principal"] = principal], Order)

Enter(a, s) ==
    /\ count < MaxRepayments
    /\ received' = received + a
    /\ credited' = [c \in Components |-> credited[c] + s.alloc[c]]
    /\ unallocated' = unallocated + s.rem
    /\ count' = count + 1

(* An ordinary payment, which leaves more than a cent of principal.        *)
Pay(a, due) ==
    LET s == Share(a, due) IN
    /\ principal - s.alloc["principal"] > 1
    /\ principal' = principal - s.alloc["principal"]
    /\ Enter(a, s)

(* An early settlement writes off what the payment does not cover.         *)
SettleEarly(a, due) ==
    /\ principal' = 0
    /\ Enter(a, Share(a, due))

HeaderNext ==
    \E a \in Payments, due \in Dues : Pay(a, due) \/ SettleEarly(a, due)

HeaderSpec == HeaderInit /\ [][HeaderNext]_headerVars

-----------------------------------------------------------------------------
(* Every cent received is credited to a component or held as unallocated,  *)
(* whatever the allocation order says.                                     *)
EveryCentAccounted ==
    received = credited["penalty"] + credited["fees"]
               + credited["interest"] + credited["principal"] + unallocated

(* While principal is owed, principal owed and principal credited add up   *)
(* to the amount disbursed; never more than that is credited to it.        *)
PrincipalConserved ==
    NoRepeats(Order) =>
        /\ principal > 0 => principal + credited["principal"] = Disbursed
        /\ credited["principal"] <= Disbursed

(* Money of the borrower is set aside only when no principal is owed: an   *)
(* ordinary payment is never left idle on a loan that is still running.    *)
NoIdleMoney == principal > 0 => unallocated = 0

=============================================================================
