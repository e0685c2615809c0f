----------------------------- MODULE Repayment -----------------------------
(***************************************************************************)
(* Repayment of one disbursed loan: RepaymentSerializer.create             *)
(* (loans/serializers/repayment_serializers.py) with the schedule engine   *)
(* that made the loan's installments and the journal each payment posts.   *)
(*                                                                         *)
(* A request holds the loan header as it was when the request was          *)
(* validated; it reads the schedule, computes, and writes in a transaction *)
(* that is one step.  Amounts are whole cents.  Penalties and fees of a    *)
(* loan are always zero: no operation of the program raises them.          *)
(***************************************************************************)
EXTENDS Waterfall, FiniteSets, Functions

CONSTANTS
    Workers,        \* request handlers running at the same time
    Principal,      \* disbursed amount
    LastPeriod,     \* number of installments
    RateNum,        \* the yearly interest rate is RateNum / RateDen
    RateDen,
    PerYear,        \* installments in a year: the repayment frequency
    Order,          \* the product's allocation order
    Payments,       \* amounts that borrowers pay
    MaxRepayments,  \* bound: repayments ever recorded
    Interests,      \* bound: the interest that can be due on a day
    NoRow           \* a worker that holds no loan

ASSUME ConstantsOK ==
    /\ Principal \in Nat \ {0}
    /\ LastPeriod \in Nat \ {0}
    /\ RateNum \in Nat
    /\ RateDen \in Nat \ {0}
    /\ PerYear \in Nat \ {0}
    /\ Order \in Orders
    /\ Payments \subseteq Nat \ {0}
    /\ MaxRepayments \in Nat
    /\ Interests \subseteq Nat

Cent == 1      \* the code compares with Decimal("0.01")

(* Installment i falls due on day 2i; odd days lie between due dates.      *)
Installments == 1..LastPeriod
DueDate(i)   == 2 * i
Days         == 1..(2 * LastPeriod + 1)

Header == [principal : Nat, interest : Int, status : {"active", "closed"}]

Entry  == [expP : Int, expI : Int, paidP : Int, paidI : Int, paid : BOOLEAN]

VARIABLES
    method,     \* the product's interest method, which a loan keeps
    loan,       \* the loan header: balances and status
    entries,    \* the schedule entries, by period number
    ledger,     \* totals posted by repayment journals, by account
    count,      \* Repayment rows
    obj         \* the header each worker holds

repaymentVars == <<method, loan, entries, ledger, count, obj>>

-----------------------------------------------------------------------------
(* Arithmetic.                                                             *)

(* round2 of a quotient, half up (half away from zero below zero).         *)
RoundDiv(a, b) ==
    IF a >= 0 THEN (2 * a + b) \div (2 * b) ELSE -((2 * (-a) + b) \div (2 * b))

(* The sum of f over the installments before i.                            *)
Before(f, i) == SumFunctionOnSet(f, 1..(i - 1))

(* Interest of one period on a balance, n periods making a year.           *)
Interest(balance, n) == RoundDiv(balance * RateNum, RateDen * n)

(* Fault: every installment takes from the full amount.                    *)
Spread_Restarts(amount, limit) ==
    [i \in Installments |-> Smaller(limit[i], amount)]

(* An amount spread over installments in order, none over its limit.       *)
Spread(amount, limit) ==
    [i \in Installments |->
        Larger(0, Smaller(limit[i], amount - Before(limit, i)))]

-----------------------------------------------------------------------------
(* The schedule made at disbursement: generate_schedule.                   *)

Share == RoundDiv(Principal, LastPeriod)

(* Opening balance of installment i; the last one takes what is left.      *)
Opening(i) == Larger(0, Principal - (i - 1) * Share)

ScheduledP(i) ==
    IF i < LastPeriod /\ (method = "flat" \/ Share <= Opening(i))
    THEN Share
    ELSE Opening(i)

ScheduledI(i) ==
    IF method = "flat"
    THEN RoundDiv(Interest(Principal * LastPeriod, PerYear), LastPeriod)
    ELSE Interest(Opening(i), PerYear)

ScheduledInterest == SumFunction([i \in Installments |-> ScheduledI(i)])

RepaymentInit ==
    /\ method \in {"flat", "reducing_balance"}
    /\ entries = [i \in Installments |->
                    [expP |-> ScheduledP(i), expI |-> ScheduledI(i),
                     paidP |-> 0, paidI |-> 0, paid |-> FALSE]]
    /\ loan = [principal |-> Principal, interest |-> ScheduledInterest,
               status |-> "active"]
    /\ ledger = [cash |-> 0, portfolio |-> 0, interest |-> 0, suspense |-> 0]
    /\ count = 0
    /\ obj = [w \in Workers |-> NoRow]

-----------------------------------------------------------------------------
(* What is due.                                                            *)

RemP(e) == Larger(0, e.expP - e.paidP)
RemI(e) == Larger(0, e.expI - e.paidI)

Unpaid == {i \in Installments : ~entries[i].paid}

(* Remaining interest and principal of the unpaid entries, zero elsewhere. *)
OpenI == [i \in Installments |-> IF i \in Unpaid THEN RemI(entries[i]) ELSE 0]
OpenP == [i \in Installments |-> IF i \in Unpaid THEN RemP(entries[i]) ELSE 0]

(* The installments from day d on; the first is the active cycle.          *)
Ahead(d) == {i \in Installments : d <= DueDate(i)}
Active(d) == CHOOSE i \in Ahead(d) : \A j \in Ahead(d) : i <= j

(* Reducing balance: overdue interest and the interest of the active       *)
(* cycle, which after the last due date is the last entry again, except in *)
(* an early settlement.                                                    *)
CycleDue(d, settling) ==
    SumFunctionOnSet(OpenI, {i \in Installments : DueDate(i) < d})
    + (IF Ahead(d) # {} THEN OpenI[Active(d)]
       ELSE IF settling THEN 0 ELSE OpenI[LastPeriod])

(* Flat: the interest of the installments that the amount reaches, and as  *)
(* much of the rest as the header still shows interest for.                *)
InstallmentDue(h, a) ==
    LET total      == [i \in Installments |-> OpenI[i] + OpenP[i]]
        reached(i) == Larger(0, a - Before(total, i))
        interest   == [i \in Installments |-> Smaller(reached(i), OpenI[i])]
        left       == Larger(0, a - SumFunction(total))
    IN  Smaller(h.interest, SumFunction(interest) + left)

InterestDue(h, a, d) ==
    IF method = "reducing_balance" /\ Unpaid # {} THEN CycleDue(d, FALSE)
    ELSE IF a >= h.principal + h.interest \/ Unpaid = {} THEN h.interest
    ELSE InstallmentDue(h, a)

SettlementDue(d) ==
    IF method = "reducing_balance" THEN CycleDue(d, TRUE)
    ELSE SumFunctionOnSet(OpenI, {i \in Installments : DueDate(i) <= d})

Split(h, a, due) ==
    Allocate(a, [Nothing EXCEPT !["interest"] = due, !["principal"] = h.principal], Order)

-----------------------------------------------------------------------------
(* What a payment changes.                                                 *)

(* The unpaid entries take the allocation in order; principal beyond all   *)
(* of them goes to the last.  An entry is paid when a cent or less is left.*)
PayEntries(alloc) ==
    LET int    == Spread(alloc["interest"], OpenI)
        prn    == Spread(alloc["principal"], OpenP)
        extra  == alloc["principal"] - SumFunction(prn)
        isLast(i) == \A j \in Unpaid : j <= i
        pay(i) == [entries[i] EXCEPT
                     !.paidI = @ + int[i],
                     !.paidP = @ + prn[i] + (IF isLast(i) THEN extra ELSE 0)]
        mark(e) == [e EXCEPT !.paid = RemP(e) <= Cent /\ RemI(e) <= Cent]
    IN  [i \in Installments |->
            IF i \in Unpaid THEN mark(pay(i)) ELSE entries[i]]

(* Fault: the interest of an installment is that of a year.                *)
Recalculate_Yearly(es, balance) ==
    LET U       == {i \in Installments : ~es[i].paid}
        share   == RoundDiv(balance, Cardinality(U))
        rank(i) == Cardinality({j \in U : j < i})
    IN  [i \in Installments |->
            IF i \in U
            THEN [es[i] EXCEPT !.expI = Interest(balance - rank(i) * share, 1),
                               !.expP = share]
            ELSE es[i]]

(* Reducing balance: the balance is shared out anew over the unpaid        *)
(* entries es, and their interest charged on what is left at each of them. *)
(* The rate is a month's, whatever the repayment frequency is.             *)
Recalculate(es, balance) ==
    LET U       == {i \in Installments : ~es[i].paid}
        n       == Cardinality(U)
        share   == RoundDiv(balance, n)
        rank(i) == Cardinality({j \in U : j < i})
        open(i) == balance - rank(i) * share
    IN  [i \in Installments |->
            IF i \in U
            THEN [es[i] EXCEPT
                    !.expI = Interest(open(i), 12),
                    !.expP = IF rank(i) = n - 1 THEN open(i) ELSE share]
            ELSE es[i]]

OpenInterest(es) ==
    SumFunction([i \in Installments |-> IF es[i].paid THEN 0 ELSE RemI(es[i])])

(* Fault: the portfolio is credited with the interest, too.                *)
Post_Gross(a, s) ==
    ledger' = [cash      |-> ledger.cash + a,
               portfolio |-> ledger.portfolio + a - s.rem,
               interest  |-> ledger.interest,
               suspense  |-> ledger.suspense + s.rem]

Post(a, s) ==
    ledger' = [cash      |-> ledger.cash + a,
               portfolio |-> ledger.portfolio + s.alloc["principal"],
               interest  |-> ledger.interest + s.alloc["interest"],
               suspense  |-> ledger.suspense + s.rem]

-----------------------------------------------------------------------------
(* Requests.                                                               *)

(* Validation resolves the loan of the request, whatever its status.       *)
Begin(w) ==
    /\ obj[w] = NoRow
    /\ count < MaxRepayments
    /\ obj' = [obj EXCEPT ![w] = loan]
    /\ UNCHANGED <<method, loan, entries, ledger, count>>

Answer(w) == obj' = [obj EXCEPT ![w] = NoRow] /\ UNCHANGED method

(* Fault: the header's principal falls by the whole payment.               *)
Record_Gross(w, a, d) ==
    LET h   == obj[w]
        due == InterestDue(h, a, d)
        s   == Split(h, a, due)
    IN
    /\ h # NoRow
    /\ Larger(0, h.principal - s.alloc["principal"]) > Cent
    /\ entries' = PayEntries(s.alloc)
    /\ loan' = [principal |-> h.principal - a, status |-> h.status,
                interest |-> Larger(0, h.interest - s.alloc["interest"])]
    /\ Post(a, s)
    /\ count' = count + 1
    /\ Answer(w)

(* Fault: the header keeps its interest balance.                           *)
Record_KeepsInterest(w, a, d) ==
    LET h         == obj[w]
        due       == InterestDue(h, a, d)
        s         == Split(h, a, due)
        principal == Larger(0, h.principal - s.alloc["principal"])
    IN
    /\ h # NoRow
    /\ principal > Cent
    /\ entries' = PayEntries(s.alloc)
    /\ loan' = [principal |-> principal, status |-> h.status, interest |-> h.interest]
    /\ Post(a, s)
    /\ count' = count + 1
    /\ Answer(w)

(* An ordinary payment that leaves more than a cent of principal.          *)
Record(w, a, d) ==
    LET h         == obj[w]
        due       == InterestDue(h, a, d)
        s         == Split(h, a, due)
        principal == Larger(0, h.principal - s.alloc["principal"])
        es        == PayEntries(s.alloc)
        renew     == /\ method = "reducing_balance"
                     /\ s.alloc["principal"] > 0
                     /\ Cardinality({i \in Installments : ~es[i].paid}) > 1
    IN
    /\ h # NoRow
    /\ principal > Cent
    /\ entries' = IF renew THEN Recalculate(es, principal) ELSE es
    /\ loan' = [principal |-> principal, status |-> h.status,
                interest |-> IF renew THEN OpenInterest(entries')
                             ELSE Larger(0, h.interest - s.alloc["interest"])]
    /\ Post(a, s)
    /\ count' = count + 1
    /\ Answer(w)

(* An ordinary payment that clears the principal reads an undefined name:  *)
(* the exception undoes the transaction.                                   *)
RecordFails(w, a, d) ==
    LET h   == obj[w]
        due == InterestDue(h, a, d)
        s   == Split(h, a, due)
    IN
    /\ h # NoRow
    /\ h.principal - s.alloc["principal"] <= Cent
    /\ Answer(w)
    /\ UNCHANGED <<loan, entries, ledger, count>>

(* An early settlement: the rest of the debt is waived, the loan closed.   *)
Settle(w, a, d) ==
    LET h  == obj[w]
        s  == Split(h, a, SettlementDue(d))
        es == PayEntries(s.alloc)
        close(e) == [e EXCEPT !.expP = e.paidP, !.expI = e.paidI, !.paid = TRUE]
    IN
    /\ h # NoRow
    /\ entries' = [i \in Installments |-> IF es[i].paid THEN es[i] ELSE close(es[i])]
    /\ loan' = [principal |-> 0, interest |-> 0, status |-> "closed"]
    /\ Post(a, s)
    /\ count' = count + 1
    /\ Answer(w)

(* A request dies before it writes.                                        *)
Abort(w) ==
    /\ obj[w] # NoRow
    /\ Answer(w)
    /\ UNCHANGED <<loan, entries, ledger, count>>

RepaymentNext ==
    \E w \in Workers :
        \/ Begin(w)
        \/ Abort(w)
        \/ \E a \in Payments, d \in Days :
              Record(w, a, d) \/ RecordFails(w, a, d) \/ Settle(w, a, d)

RepaymentSpec == RepaymentInit /\ [][RepaymentNext]_repaymentVars

-----------------------------------------------------------------------------
(* Properties.                                                             *)

RepaymentTypeOK ==
    /\ method \in {"flat", "reducing_balance"}
    /\ loan \in Header
    /\ entries \in [Installments -> Entry]
    /\ ledger \in [{"cash", "portfolio", "interest", "suspense"} -> Nat]
    /\ count \in 0..(MaxRepayments + Cardinality(Workers))
    /\ obj \in [Workers -> Header \cup {NoRow}]

(* Equal up to the cent each installment may leave unpaid.                 *)
Near(a, b) == a - b <= LastPeriod * Cent /\ b - a <= LastPeriod * Cent

(* The header owes what was disbursed less the principal that repayment    *)
(* journals credited to the portfolio account.                             *)
PrincipalMatchesLedger ==
    loan.status = "active" => loan.principal = Principal - ledger.portfolio

(* However many requests overlap, what they write over each other never    *)
(* forgives a debt: a running loan owes at least what was disbursed less    *)
(* the principal that was posted.  The header may lose a payment that      *)
(* RepaymentSerializer.create recorded, and never gains one.               *)
NothingForgiven ==
    loan.status = "active" => loan.principal >= Principal - ledger.portfolio

(* These two are about flat loans: on a reducing balance the schedule is    *)
(* made anew by each payment, without what its entries were paid.           *)

(* Interest income in the ledger is interest paid on installments: "interest*)
(* is charged only once", no income beyond what an installment asked for.   *)
InterestOnInstallments ==
    method = "flat" =>
        SumFunction([i \in Installments |-> entries[i].paidI]) = ledger.interest

(* The header's balances are what the unpaid installments still ask for.    *)
HeaderMatchesSchedule ==
    loan.status = "active" /\ method = "flat" =>
        /\ Near(loan.interest, SumFunction(OpenI))
        /\ Near(loan.principal, SumFunction(OpenP))

(* No installment asks for more interest than a period of the loan earns   *)
(* on the whole amount disbursed, however often it was recalculated.       *)
InterestAtLoanRate ==
    \A i \in Unpaid : entries[i].expI <= Interest(Principal, PerYear)

(* What LoanHeader sees of the loan and the books.                         *)
Abstract == INSTANCE LoanHeader WITH
    Disbursed   <- Principal,
    Dues        <- {[Nothing EXCEPT !["interest"] = k] : k \in Interests},
    principal   <- loan.principal,
    received    <- ledger.cash,
    credited    <- [Nothing EXCEPT !["interest"]  = ledger.interest,
                                   !["principal"] = ledger.portfolio],
    unallocated <- ledger.suspense

=============================================================================
