--------------------------- MODULE LoanLifecycle ---------------------------
(***************************************************************************)
(* The life of a loan account in LoanViewSet (loans/views/loan_views.py):  *)
(* application, appraisal, approval, rejection, disbursement, the aging    *)
(* report that downgrades delinquent loans, repayment as far as it changes *)
(* the status of a loan, deletion, and the voiding of journals.            *)
(*                                                                         *)
(* A request is served by one of several workers.  It reads a loan row     *)
(* into memory, decides on that copy, and writes later.  No request locks  *)
(* the row it read, so the two halves of a request are two steps and other *)
(* requests run in between.  The body of a database transaction, once it   *)
(* starts to write, is one step.                                           *)
(***************************************************************************)
EXTENDS Integers, FiniteSets

CONSTANTS
    Members,     \* borrowers
    Workers,     \* request handlers running at the same time
    MaxLoans,    \* bound: loan rows ever inserted
    MaxAmount,   \* bound: largest sum a loan or a payment can have
    Ops,         \* the operations clients and administrators issue
    NoRow        \* no such row in the loan table

AllOps == {"apply", "appraise", "approve", "reject", "disburse", "aging",
           "repay", "settle", "destroy", "void"}

Pks      == 1..MaxLoans            \* primary keys, in order of insertion
Numbers  == 0..(MaxLoans + 1)      \* n stands for LN-n, 0 for none yet
Amounts  == 1..MaxAmount

Serviced == {"active", "watchful", "non_performing", "doubtful", "defaulted"}
Applied  == {"pending_application", "appraised", "approved"}
Open     == Applied \cup Serviced
Status   == Open \cup {"closed", "rejected"}

(* Aging categories by rank; 0 is "current", Loss is past every threshold. *)
Category == <<"watchful", "non_performing", "doubtful">>
Loss     == 4

Stages == {"idle", "numbering", "inserting", "saving", "disbursing",
           "marking", "repaying", "settling", "deleting"}

LoanRow == [member : Members, number : Numbers, status : Status,
            amount : Amounts, balance : 0..MaxAmount]

(* A disbursement journal: `paid' is the loan whose money it paid out, and  *)
(* stays when the foreign key `loan' is nulled.                            *)
Transactions == [number : Numbers, loan : 0..MaxLoans, paid : Pks]

ASSUME ConstantsOK ==
    /\ MaxLoans \in Nat \ {0}
    /\ MaxAmount \in Nat \ {0}
    /\ Ops \subseteq AllOps
    /\ NoRow \notin LoanRow

VARIABLES
    loans,      \* the loan table, by primary key
    nextPk,     \* the next value of its auto-increment key
    unpaid,     \* keys of loans that have unpaid schedule entries
    repaid,     \* keys of loans that have Repayment rows
    journal,    \* TXN-DISB ledger transactions; loan 0 is a nulled foreign key
    payouts,    \* how many disbursements of each loan have been committed
    voided,     \* how many of their journals an administrator has voided
    overdue,    \* rank of the aging category of each loan's oldest unpaid entry
    matured,    \* loans whose maturity date has passed
    stage,      \* what each worker will do next
    target,     \* the primary key the request of each worker is about
    obj         \* the loan object each worker holds in memory

dbVars  == <<loans, nextPk, unpaid, repaid, journal, payouts, voided>>
dueVars == <<overdue, matured>>
reqVars == <<stage, target, obj>>
vars    == <<dbVars, dueVars, reqVars>>

TypeOK ==
    /\ loans \in [Pks -> LoanRow \cup {NoRow}]
    /\ nextPk \in 1..(MaxLoans + 1)
    /\ unpaid \subseteq Pks
    /\ repaid \subseteq Pks
    /\ journal \subseteq Transactions
    /\ payouts \in [Pks -> Nat]
    /\ voided \in [Pks -> Nat]
    /\ overdue \in [Pks -> 0..Loss]
    /\ matured \subseteq Pks
    /\ stage \in [Workers -> Stages]
    /\ target \in [Workers -> 0..MaxLoans]
    /\ obj \in [Workers -> LoanRow \cup {NoRow}]

Init ==
    /\ loans = [p \in Pks |-> NoRow]
    /\ nextPk = 1
    /\ unpaid = {} /\ repaid = {} /\ journal = {}
    /\ payouts = [p \in Pks |-> 0]
    /\ voided = [p \in Pks |-> 0]
    /\ overdue = [p \in Pks |-> 0]
    /\ matured = {}
    /\ stage = [w \in Workers |-> "idle"]
    /\ target = [w \in Workers |-> 0]
    /\ obj = [w \in Workers |-> NoRow]

-----------------------------------------------------------------------------
(* The loan table.                                                         *)

Rows          == {p \in Pks : loans[p] # NoRow}
NumberFree(n) == \A p \in Rows : loans[p].number # n      \* unique column
Posted(n)     == \E t \in journal : t.number = n          \* unique column

(* A request keeps what it read (or built) and goes on to stage s.         *)
Hold(w, s, p, row) ==
    /\ stage'  = [stage EXCEPT ![w] = s]
    /\ target' = [target EXCEPT ![w] = p]
    /\ obj'    = [obj EXCEPT ![w] = row]

Respond(w) == Hold(w, "idle", 0, NoRow)

(* get_object() of an operation: the row as it is now.                     *)
Read(w, o, p) ==
    /\ o \in Ops
    /\ stage[w] = "idle"
    /\ loans[p] # NoRow

-----------------------------------------------------------------------------
(* Application: perform_create                                             *)

(* Fault: only the serviced statuses count as an open loan.                *)
ApplyCheck_ServicedOnly(w, m, a) ==
    /\ "apply" \in Ops
    /\ stage[w] = "idle"
    /\ nextPk <= MaxLoans
    /\ \A p \in Rows : loans[p].member = m => loans[p].status \notin Serviced
    /\ Hold(w, "numbering", 0,
            [member |-> m, number |-> 0, status |-> "pending_application",
             amount |-> a, balance |-> a])
    /\ UNCHANGED <<dbVars, dueVars>>

(* The member must have no open loan.                                      *)
ApplyCheck(w, m, a) ==
    /\ "apply" \in Ops
    /\ stage[w] = "idle"
    /\ nextPk <= MaxLoans
    /\ \A p \in Rows : loans[p].member = m => loans[p].status \notin Open
    /\ Hold(w, "numbering", 0,
            [member |-> m, number |-> 0, status |-> "pending_application",
             amount |-> a, balance |-> a])
    /\ UNCHANGED <<dbVars, dueVars>>

(* The loan number is the count of loans plus one.                         *)
ApplyNumber(w) ==
    /\ stage[w] = "numbering"
    /\ Hold(w, "inserting", 0, [obj[w] EXCEPT !.number = Cardinality(Rows) + 1])
    /\ UNCHANGED <<dbVars, dueVars>>

(* The row is inserted, unless its number is taken.                        *)
ApplyInsert(w) ==
    /\ stage[w] = "inserting"
    /\ nextPk <= MaxLoans
    /\ NumberFree(obj[w].number)
    /\ loans' = [loans EXCEPT ![nextPk] = obj[w]]
    /\ nextPk' = nextPk + 1
    /\ Respond(w)
    /\ UNCHANGED <<unpaid, repaid, journal, payouts, voided, dueVars>>

-----------------------------------------------------------------------------
(* Appraisal, approval, rejection: a read, a decision, a full-row save.    *)

Appraise(w, p) ==
    /\ Read(w, "appraise", p)
    /\ loans[p].status = "pending_application"
    /\ Hold(w, "saving", p, [loans[p] EXCEPT !.status = "appraised"])
    /\ UNCHANGED <<dbVars, dueVars>>

(* The approved amount replaces the principal and the balance.             *)
Approve(w, p, a) ==
    /\ Read(w, "approve", p)
    /\ loans[p].status \in {"pending_application", "appraised"}
    /\ Hold(w, "saving", p, [loans[p] EXCEPT !.status = "approved",
                                             !.amount = a, !.balance = a])
    /\ UNCHANGED <<dbVars, dueVars>>

(* Fault: closed loans can be rejected.                                    *)
Reject_Closed(w, p) ==
    /\ Read(w, "reject", p)
    /\ loans[p].status # "active"
    /\ Hold(w, "saving", p, [loans[p] EXCEPT !.status = "rejected"])
    /\ UNCHANGED <<dbVars, dueVars>>

Reject(w, p) ==
    /\ Read(w, "reject", p)
    /\ loans[p].status \notin {"active", "closed"}
    /\ Hold(w, "saving", p, [loans[p] EXCEPT !.status = "rejected"])
    /\ UNCHANGED <<dbVars, dueVars>>

(* Model.save() updates every column of the row with the object's values;  *)
(* where the row is gone it inserts it again, if the number is still free. *)
Save(w) ==
    /\ stage[w] = "saving"
    /\ loans[target[w]] = NoRow => NumberFree(obj[w].number)
    /\ loans' = [loans EXCEPT ![target[w]] = obj[w]]
    /\ Respond(w)
    /\ UNCHANGED <<nextPk, unpaid, repaid, journal, payouts, voided, dueVars>>

-----------------------------------------------------------------------------
(* Disbursement: one transaction after the read of the loan.               *)

(* Fault: the status is saved ahead of the transaction that pays out.      *)
Disburse_EarlySave(w, p, a) ==
    /\ Read(w, "disburse", p)
    /\ loans[p].status = "approved"
    /\ Hold(w, "disbursing", p, [loans[p] EXCEPT !.status = "active", !.balance = a])
    /\ loans' = [loans EXCEPT ![p].status = "active"]
    /\ UNCHANGED <<nextPk, unpaid, repaid, journal, payouts, voided, dueVars>>

Disburse(w, p, a) ==
    /\ Read(w, "disburse", p)
    /\ loans[p].status = "approved"
    /\ Hold(w, "disbursing", p, [loans[p] EXCEPT !.status = "active", !.balance = a])
    /\ UNCHANGED <<dbVars, dueVars>>

(* Fault: the journal accepts a number it already has.                     *)
DisburseCommit_NoUnique(w) ==
    LET p == target[w] IN
    /\ stage[w] = "disbursing"
    /\ loans[p] # NoRow
    /\ loans' = [loans EXCEPT ![p] = obj[w]]
    /\ unpaid' = unpaid \cup {p}
    /\ journal' = journal \cup {[number |-> obj[w].number, loan |-> p, paid |-> p]}
    /\ payouts' = [payouts EXCEPT ![p] = @ + 1]
    /\ overdue' = [overdue EXCEPT ![p] = 0]
    /\ matured' = matured \ {p}
    /\ Respond(w)
    /\ UNCHANGED <<nextPk, repaid, voided>>

(* The schedule entries need their loan row, and the journal its number.   *)
DisburseCommit(w) ==
    LET p == target[w] IN
    /\ stage[w] = "disbursing"
    /\ loans[p] # NoRow
    /\ ~Posted(obj[w].number)
    /\ loans' = [loans EXCEPT ![p] = obj[w]]
    /\ unpaid' = unpaid \cup {p}
    /\ journal' = journal \cup {[number |-> obj[w].number, loan |-> p, paid |-> p]}
    /\ payouts' = [payouts EXCEPT ![p] = @ + 1]
    /\ overdue' = [overdue EXCEPT ![p] = 0]
    /\ matured' = matured \ {p}
    /\ Respond(w)
    /\ UNCHANGED <<nextPk, repaid, voided>>

-----------------------------------------------------------------------------
(* Aging: the report reads the serviced loans and writes their status.     *)

(* The status the report decides on for a row, given the loan's arrears.   *)
AgedStatus(row, rank, late) ==
    CASE late /\ row.balance > 0                        -> "defaulted"
      [] ~(late /\ row.balance > 0) /\ rank \in 1..3   -> Category[rank]
      [] OTHER                                          -> row.status

AgingRead(w, p) ==
    LET aged == AgedStatus(loans[p], overdue[p], p \in matured) IN
    /\ Read(w, "aging", p)
    /\ loans[p].status \in Serviced
    /\ loans[p].status # aged
    /\ Hold(w, "marking", p, [loans[p] EXCEPT !.status = aged])
    /\ UNCHANGED <<dbVars, dueVars>>

(* save(update_fields=...) writes the status only; it fails on a lost row. *)
AgingSave(w) ==
    /\ stage[w] = "marking"
    /\ loans[target[w]] # NoRow
    /\ loans' = [loans EXCEPT ![target[w]].status = obj[w].status]
    /\ Respond(w)
    /\ UNCHANGED <<nextPk, unpaid, repaid, journal, payouts, voided, dueVars>>

-----------------------------------------------------------------------------
(* Repayment: RepaymentSerializer.create, as far as it moves the header.   *)
(* The loan comes with the validated request, whatever its status is.      *)

(* Fault: a payment may take the balance to zero and leave the status.     *)
Repay_ToZero(w, p, k) ==
    /\ Read(w, "repay", p)
    /\ k <= loans[p].balance
    /\ Hold(w, "repaying", p, [loans[p] EXCEPT !.balance = @ - k])
    /\ UNCHANGED <<dbVars, dueVars>>

(* An ordinary payment leaves some principal owed: where nothing is left   *)
(* the code fails on an undefined name and the transaction is undone.      *)
Repay(w, p, k) ==
    /\ Read(w, "repay", p)
    /\ k < loans[p].balance
    /\ Hold(w, "repaying", p, [loans[p] EXCEPT !.balance = @ - k])
    /\ UNCHANGED <<dbVars, dueVars>>

(* An early settlement closes the loan, whatever was paid.                 *)
Settle(w, p) ==
    /\ Read(w, "settle", p)
    /\ Hold(w, "settling", p, [loans[p] EXCEPT !.status = "closed", !.balance = 0])
    /\ UNCHANGED <<dbVars, dueVars>>

(* The Repayment row needs its loan; the header is saved in full.          *)
SaveRepaid(w) ==
    /\ loans[target[w]] # NoRow
    /\ loans' = [loans EXCEPT ![target[w]] = obj[w]]
    /\ repaid' = repaid \cup {target[w]}
    /\ Respond(w)
    /\ UNCHANGED <<nextPk, journal, payouts, voided, matured>>

(* The installments a payment covers move the oldest unpaid entry on.      *)
RepayCommit(w) ==
    /\ stage[w] = "repaying"
    /\ SaveRepaid(w)
    /\ \E rank \in 0..overdue[target[w]] :
          overdue' = [overdue EXCEPT ![target[w]] = rank]
    /\ UNCHANGED unpaid

SettleCommit(w) ==
    /\ stage[w] = "settling"
    /\ SaveRepaid(w)
    /\ overdue' = [overdue EXCEPT ![target[w]] = 0]
    /\ unpaid' = unpaid \ {target[w]}

-----------------------------------------------------------------------------
(* Deletion of a loan, and of a disbursement journal.                      *)

Destroy(w, p) ==
    /\ Read(w, "destroy", p)
    /\ loans[p].status \notin
          {"active", "closed", "watchful", "non_performing", "doubtful"}
    /\ Hold(w, "deleting", p, loans[p])
    /\ UNCHANGED <<dbVars, dueVars>>

(* Fault: repayments do not protect their loan.                            *)
DestroyCommit_Cascades(w) ==
    LET p == target[w] IN
    /\ stage[w] = "deleting"
    /\ loans' = [loans EXCEPT ![p] = NoRow]
    /\ unpaid' = unpaid \ {p}
    /\ overdue' = [overdue EXCEPT ![p] = 0]
    /\ Respond(w)
    /\ UNCHANGED <<nextPk, repaid, journal, payouts, voided, matured>>

(* Repayments protect their loan; schedule entries go with it; the ledger  *)
(* keeps its transaction with a null loan.                                 *)
DestroyCommit(w) ==
    LET p == target[w]
        Detach(t) == IF t.loan = p THEN [t EXCEPT !.loan = 0] ELSE t
    IN
    /\ stage[w] = "deleting"
    /\ p \notin repaid
    /\ loans' = [loans EXCEPT ![p] = NoRow]
    /\ unpaid' = unpaid \ {p}
    /\ journal' = {Detach(t) : t \in journal}
    /\ overdue' = [overdue EXCEPT ![p] = 0]
    /\ Respond(w)
    /\ UNCHANGED <<nextPk, repaid, payouts, voided, matured>>

(* LedgerTransactionViewSet.destroy: an administrator voids a journal.     *)
(* The loan it paid out keeps its status.                                  *)
VoidJournal(t) ==
    /\ "void" \in Ops
    /\ journal' = journal \ {t}
    /\ voided' = [voided EXCEPT ![t.paid] = @ + 1]
    /\ UNCHANGED <<loans, nextPk, unpaid, repaid, payouts, dueVars, reqVars>>

-----------------------------------------------------------------------------
(* A request dies before it writes: an exception, a deadlock, a timeout.   *)
Abort(w) ==
    /\ stage[w] # "idle"
    /\ Respond(w)
    /\ UNCHANGED <<dbVars, dueVars>>

(* The calendar moves: arrears grow, and maturity dates pass.              *)
DayPasses(p) ==
    /\ p \in unpaid
    /\ overdue[p] < Loss
    /\ overdue' = [overdue EXCEPT ![p] = @ + 1]
    /\ UNCHANGED <<dbVars, matured, reqVars>>

Mature(p) ==
    /\ payouts[p] > 0
    /\ p \in unpaid => overdue[p] > 0
    /\ matured' = matured \cup {p}
    /\ UNCHANGED <<dbVars, overdue, reqVars>>

Serve(w) ==
    \/ \E m \in Members, a \in Amounts : ApplyCheck(w, m, a)
    \/ ApplyNumber(w)
    \/ ApplyInsert(w)
    \/ \E p \in Pks :
          \/ Appraise(w, p)
          \/ \E a \in Amounts : Approve(w, p, a)
          \/ Reject(w, p)
          \/ \E a \in Amounts : Disburse(w, p, a)
          \/ AgingRead(w, p)
          \/ \E k \in 0..MaxAmount : Repay(w, p, k)
          \/ Settle(w, p)
          \/ Destroy(w, p)
    \/ Save(w)
    \/ DisburseCommit(w)
    \/ AgingSave(w)
    \/ RepayCommit(w)
    \/ SettleCommit(w)
    \/ DestroyCommit(w)
    \/ Abort(w)

Next ==
    \/ \E w \in Workers : Serve(w)
    \/ \E t \in journal : VoidJournal(t)
    \/ \E p \in Pks : DayPasses(p) \/ Mature(p)

Spec == Init /\ [][Next]_vars

-----------------------------------------------------------------------------
(* Properties that hold however requests interleave.                       *)

(* A loan the portfolio counts as serviced was paid out: no stale save, no *)
(* aging run and no repayment moves an application into the portfolio.     *)
ServicedWasPaidOut ==
    \A p \in Rows : loans[p].status \in Serviced => payouts[p] > 0

(* At most one payout of a loan stands: two officers who disburse from the *)
(* same stale copy pay it out once (the second transaction is undone by    *)
(* the unique number of the journal), and a loan is paid out again only    *)
(* after an administrator voided the journal of the payout before.         *)
PaidOutOnce == \A p \in Pks : payouts[p] <= 1 + voided[p]

(* A loan that received repayments is never deleted, although a destroy    *)
(* request checked a status that has changed by the time it deletes.       *)
RepaidLoanKept == \A p \in repaid : loans[p] # NoRow

=============================================================================
