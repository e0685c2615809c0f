------------------------------ MODULE LoanDesk ------------------------------
(***************************************************************************)
(* The desk of the loan officers in the web front end: the page of a loan  *)
(* (app/(DashboardLayout)/loans/[id]/page.tsx), the list of loans          *)
(* (loans/page.tsx) with its dialogs, and the collection page              *)
(* (collections/receive/page.tsx).                                         *)
(*                                                                         *)
(* Every tab works on the copies of loans it loaded last.  A request is    *)
(* served in one step here: what happens inside one is the matter of       *)
(* LoanLifecycle and Repayment, whose transitions the server below keeps.  *)
(* An answer may be lost: the form stays as it is, for another try.        *)
(***************************************************************************)
EXTENDS Naturals, FiniteSets

CONSTANTS Loans,
          Tabs,
          Slips,          \* receipts of M-Pesa payments that operators type in
          None,           \* no loan, no receipt
          Links,          \* loans in addresses of the collection page, or none
          Starts,         \* a bound: the loans a run begins with
          Opens,          \* a bound: the pages that each tab opens
          MaxOwed,        \* the greatest amount
          MaxRepayments   \* how many repayments are ever recorded

Statuses == {"pending", "appraised", "approved", "active", "closed", "rejected", "gone"}

\* What is owed, and the amount approved, 0 before there is one.
Loan == [status : Statuses, owed : 0..MaxOwed, approved : 0..MaxOwed]

ASSUME DeskAssumption ==
    /\ None \notin Loans \cup Slips
    /\ Links \subseteq Loans \cup {None}
    /\ MaxOwed \in Nat /\ MaxRepayments \in Nat
    /\ Starts \subseteq [Loans -> Loan]
    /\ \A start \in Starts : \A l \in Loans :
         start[l].status = "approved" => start[l].approved > 0
    /\ Opens \in [Tabs -> SUBSET {"loan", "list", "receive"}]

VARIABLES loans,        \* Loan rows
          repayments,   \* Repayment rows
          tab           \* what each tab shows and waits for

vars == <<loans, repayments, tab>>

\* A repayment with where it was entered, the receipt typed there, whether it
\* settled the loan early, the loan a settlement was asked for there, and
\* whether another loan was then selected without taking the choice back.
Repayment == [id : 1..MaxRepayments, loan : Loans, page : {"loan", "receive"},
              slip : Slips \cup {None}, early : BOOLEAN, asked : Loans \cup {None},
              moved : BOOLEAN]

\* typed: whether an amount to pay out was typed over the approved one.
Form == [amount : 0..MaxOwed, slip : Slips \cup {None}, early : BOOLEAN,
         asked : Loans \cup {None}, moved : BOOLEAN, typed : BOOLEAN]

Tab == [page : {"loan", "list", "receive"}, loan : Loans \cup {None},
        link : Loans \cup {None},
        seen : [Loans -> Loan],
        dialog : {"none", "appraise", "approve", "reject", "disburse", "delete", "pay"},
        form : Form, loading : BOOLEAN, quoting : BOOLEAN,
        stage : {"idle", "sent", "ok", "failed"},
        sent : [loan : Loans \cup {None}, form : Form]]

Empty == [amount |-> 0, slip |-> None, early |-> FALSE, asked |-> None,
          moved |-> FALSE, typed |-> FALSE]
Ordinary(form) == [Empty EXCEPT !.amount = form.amount, !.slip = form.slip]
NoRequest == [loan |-> None, form |-> Empty]
Unseen == [status |-> "gone", owed |-> 0, approved |-> 0]

Page(page, l, link) ==
    [page |-> page, loan |-> l, link |-> link, dialog |-> "none", form |-> Empty,
     seen |-> [k \in Loans |-> IF page = "loan" /\ k # l THEN Unseen ELSE loans[k]],
     loading |-> FALSE, quoting |-> FALSE, stage |-> "idle", sent |-> NoRequest]

Front == UNCHANGED <<loans, repayments>>

Show(t, new) == tab' = [tab EXCEPT ![t] = new] /\ Front
Fill(t, form) == Show(t, [tab[t] EXCEPT !.form = form])

\* A request holds what the form was when it was sent.
Send(t) ==
    /\ tab[t].stage = "idle"
    /\ Show(t, [tab[t] EXCEPT !.stage = "sent",
                   !.sent = [loan |-> tab[t].loan, form |-> tab[t].form]])

-----------------------------------------------------------------------------
\* The page of a loan and the list

On(t, page) == tab[t].page = page /\ tab[t].dialog = "none" /\ tab[t].stage = "idle"

\* A page loads what it shows when it is opened, after each change and on
\* demand, which no dialog is open for.
Visit(t, l) ==
    /\ "loan" \in Opens[t] /\ tab[t].stage = "idle"
    /\ Show(t, Page("loan", l, None))

Loaded(t) == [tab[t].seen EXCEPT ![tab[t].loan] = loans[tab[t].loan]]

LoadLoan(t) ==
    /\ On(t, "loan")
    /\ Show(t, [tab[t] EXCEPT !.seen = Loaded(t)])

OpenList(t) ==
    /\ "list" \in Opens[t] /\ tab[t].stage = "idle"
    /\ Show(t, Page("list", None, None))

\* A loan a dialog may be opened for from a page of the tab, as seen there.
Offers(t, statuses, pages) ==
    {l \in Loans : /\ \E page \in pages : On(t, page)
                   /\ tab[t].page = "loan" => l = tab[t].loan
                   /\ tab[t].seen[l].status \in statuses}

Starting(form, n) == [form EXCEPT !.amount = n, !.typed = FALSE]

Open(t, l, dialog, amount) ==
    Show(t, [tab[t] EXCEPT !.dialog = dialog, !.loan = l, !.form = Starting(@, amount)])

OpenAppraise(t) == \E l \in Offers(t, {"pending"}, {"loan"}) : Open(t, l, "appraise", 0)

OpenReject(t) ==
    \E l \in Offers(t, {"pending", "appraised", "approved"}, {"loan"}) : Open(t, l, "reject", 0)

OpenDelete(t) ==
    \E l \in Offers(t, {"pending", "appraised", "approved", "rejected"}, {"loan"}) :
        Open(t, l, "delete", 0)

\* The dialog starts with the amount applied for and takes any other.
OpenApprove(t) ==
    \E l \in Offers(t, {"pending", "appraised"}, {"loan", "list"}) :
        \E n \in 1..MaxOwed : Open(t, l, "approve", n)

\* The amount the dialog starts with, which is approved or else applied for.
ToDisburse(l, seen) == IF seen[l].approved # 0 THEN seen[l].approved ELSE seen[l].owed

\* Fault: the button is there before the approval is seen.
OpenDisburse_Early(t) ==
    \E l \in Offers(t, {"pending", "appraised", "approved"}, {"loan", "list"}) :
        Open(t, l, "disburse", ToDisburse(l, tab[t].seen))

OpenDisburse(t) ==
    \E l \in Offers(t, {"approved"}, {"loan", "list"}) :
        Open(t, l, "disburse", ToDisburse(l, tab[t].seen))

TypeDisbursed(t) ==
    /\ tab[t].dialog = "disburse" /\ tab[t].stage = "idle"
    /\ \E n \in 1..MaxOwed : Fill(t, [tab[t].form EXCEPT !.amount = n, !.typed = TRUE])

\* A button of the header and one above the payments, which differ in that
\* only the second takes back an earlier choice to settle.
OpenPay(t) ==
    \E l \in Offers(t, {"active"}, {"loan"}), form \in {tab[t].form, Ordinary(tab[t].form)} :
        Show(t, [tab[t] EXCEPT !.dialog = "pay", !.form = Starting(form, 0)])

\* The choice to settle and the receipt are kept.
CloseDialog(t) ==
    /\ tab[t].dialog # "none" /\ tab[t].stage = "idle"
    /\ Show(t, [tab[t] EXCEPT !.dialog = "none", !.form = Starting(@, 0)])

\* The buttons of the five dialogs; one that is busy takes no second press.
ConfirmAppraise(t) == tab[t].dialog = "appraise" /\ Send(t)
ConfirmApprove(t) == tab[t].dialog = "approve" /\ Send(t)
ConfirmReject(t) == tab[t].dialog = "reject" /\ Send(t)
ConfirmDisburse(t) == tab[t].dialog = "disburse" /\ Send(t)
ConfirmDelete(t) == tab[t].dialog = "delete" /\ Send(t)

\* The quote of the payoff amount: meanwhile the operator goes on.
AskQuote(t) ==
    /\ tab[t].dialog = "pay" /\ ~tab[t].quoting /\ tab[t].seen[tab[t].loan].owed > 0
    /\ Show(t, [tab[t] EXCEPT !.quoting = TRUE])

Settle(form, l, n) ==
    [form EXCEPT !.amount = n, !.early = TRUE, !.asked = l, !.moved = FALSE]

\* Without an answer the balance on display is the amount.
QuoteAnswer(t) ==
    /\ tab[t].quoting
    /\ \E n \in {loans[tab[t].loan].owed, tab[t].seen[tab[t].loan].owed} :
         Show(t, [tab[t] EXCEPT !.quoting = FALSE, !.form = Settle(@, tab[t].loan, n)])

TypePayment(t) ==
    /\ tab[t].dialog = "pay" /\ tab[t].stage = "idle"
    /\ \E n \in 1..MaxOwed, s \in Slips \cup {None} :
         Fill(t, [tab[t].form EXCEPT !.amount = n, !.slip = s])

SubmitPayment(t) ==
    /\ tab[t].dialog = "pay" /\ tab[t].form.amount > 0
    /\ Send(t)

-----------------------------------------------------------------------------
\* The collection page

\* The first loan selected is an active one where there is one.
OpenReceive(t) ==
    /\ "receive" \in Opens[t] /\ tab[t].stage = "idle"
    /\ \E l \in Loans, link \in Links :
         /\ loans[l].status # "gone"
         /\ IF link # None THEN l = link
            ELSE (\E k \in Loans : loans[k].status = "active") => loans[l].status = "active"
         /\ Show(t, Page("receive", l, link))

Receiving(t) == tab[t].page = "receive"

Refresh(t) ==
    /\ Receiving(t) /\ ~tab[t].loading
    /\ Show(t, [tab[t] EXCEPT !.loading = TRUE])

\* Another loan is selected, and the amount and the choice to settle stay.
Moves(t, l, form) ==
    [form EXCEPT !.moved = IF l = tab[t].loan THEN @ ELSE form.early /\ form.asked # l]

\* The list returns to the loan of the address, where there is one.
ListAnswer(t) ==
    LET link == tab[t].link
        l == IF link # None /\ loans[link].status # "gone" THEN link ELSE tab[t].loan IN
    /\ Receiving(t) /\ tab[t].loading
    /\ Show(t, [tab[t] EXCEPT !.loading = FALSE, !.seen = loans,
                   !.loan = l, !.form = Moves(t, l, @)])

Selects(t, l) == Receiving(t) /\ ~tab[t].loading /\ tab[t].seen[l].status # "gone"

\* Fault: the choice to settle is kept for another loan.
SelectLoan_KeepsChoice(t, l) ==
    /\ Selects(t, l)
    /\ Show(t, [tab[t] EXCEPT !.loan = l])

SelectLoan(t, l) ==
    /\ Selects(t, l)
    /\ Show(t, [tab[t] EXCEPT !.loan = l, !.form = Ordinary(@)])

\* The button of a row of the table keeps the choice to settle, and the amount.
SelectRow(t, l) ==
    /\ Selects(t, l)
    /\ Show(t, [tab[t] EXCEPT !.loan = l, !.form = Moves(t, l, @)])

Payoff(t) ==
    LET l == tab[t].loan IN
    /\ Receiving(t) /\ tab[t].seen[l].status = "active" /\ tab[t].seen[l].owed > 0
    /\ Fill(t, Settle(tab[t].form, l, tab[t].seen[l].owed))

TypeReceived(t) ==
    /\ Receiving(t)
    /\ \E n \in 1..MaxOwed : Fill(t, [tab[t].form EXCEPT !.amount = n])

SubmitReceived(t) ==
    /\ Receiving(t) /\ tab[t].form.amount > 0
    /\ Send(t)

-----------------------------------------------------------------------------
\* The server

Sent(t, op) == tab[t].stage = "sent" /\ tab[t].dialog = op
Answer(t, stage) ==
    tab' = [tab EXCEPT ![t] = [@ EXCEPT !.stage = stage, !.sent = NoRequest]]

Becomes(t, op, from, new) ==
    LET l == tab[t].sent.loan IN
    /\ Sent(t, op)
    /\ IF loans[l].status \in from
       THEN loans' = [loans EXCEPT ![l] = new] /\ Answer(t, "ok")
       ELSE UNCHANGED loans /\ Answer(t, "failed")
    /\ UNCHANGED repayments

Appraise(t) ==
    Becomes(t, "appraise", {"pending"}, [loans[tab[t].sent.loan] EXCEPT !.status = "appraised"])

Approve(t) ==
    LET n == tab[t].sent.form.amount IN
    Becomes(t, "approve", {"pending", "appraised"},
            [status |-> "approved", owed |-> n, approved |-> n])

Reject(t) ==
    Becomes(t, "reject", {"pending", "appraised", "approved", "rejected"},
            [loans[tab[t].sent.loan] EXCEPT !.status = "rejected"])

Disburse(t) ==
    Becomes(t, "disburse", {"approved"},
            [loans[tab[t].sent.loan] EXCEPT !.status = "active", !.owed = tab[t].sent.form.amount])

\* Repayments protect their loan, and a loan not yet paid out may have some.
Delete(t) ==
    LET repaid == \E x \in repayments : x.loan = tab[t].sent.loan IN
    Becomes(t, "delete",
            IF repaid THEN {} ELSE {"pending", "appraised", "approved", "rejected"}, Unseen)

Paying(t) == Sent(t, "pay") \/ (Receiving(t) /\ tab[t].stage = "sent")

\* Fault: the references of settlements are not looked at.
Free_Ordinary(ref) == ref = None \/ \A x \in repayments : x.early \/ x.slip # ref

\* The reference of a repayment is unique: the receipt typed on the page of a
\* loan.  The collection page puts a receipt into the notes only, and where
\* there is none a reference is made up from the clock, which is always free.
Free(ref) == ref = None \/ \A x \in repayments : x.slip # ref

\* An ordinary payment that clears the loan fails; an early settlement closes
\* the loan, whatever is paid.  No status is refused.
Payable(t) ==
    LET l == tab[t].sent.loan
        f == tab[t].sent.form IN
    /\ loans[l].status # "gone"
    /\ Free(f.slip)
    /\ f.early \/ f.amount < loans[l].owed

\* Fault: the number counts the repayments of the loan.
RecordPayment_PerLoan(t) ==
    LET l == tab[t].sent.loan
        f == tab[t].sent.form IN
    /\ Paying(t) /\ Payable(t) /\ Cardinality(repayments) < MaxRepayments
    /\ repayments' = repayments \cup
         {[id |-> Cardinality({x \in repayments : x.loan = l}) + 1, loan |-> l,
           page |-> tab[t].page, slip |-> f.slip, early |-> f.early, asked |-> f.asked,
           moved |-> f.moved]}
    /\ loans' = IF f.early
                THEN [loans EXCEPT ![l].status = "closed", ![l].owed = 0]
                ELSE [loans EXCEPT ![l].owed = @ - f.amount]
    /\ Answer(t, "ok")

RecordPayment(t) ==
    LET l == tab[t].sent.loan
        f == tab[t].sent.form IN
    /\ Paying(t) /\ Payable(t) /\ Cardinality(repayments) < MaxRepayments
    /\ repayments' = repayments \cup
         {[id |-> Cardinality(repayments) + 1, loan |-> l, page |-> tab[t].page,
           slip |-> f.slip, early |-> f.early, asked |-> f.asked,
           moved |-> f.moved]}
    /\ loans' = IF f.early
                THEN [loans EXCEPT ![l].status = "closed", ![l].owed = 0]
                ELSE [loans EXCEPT ![l].owed = @ - f.amount]
    /\ Answer(t, "ok")

RefusePayment(t) ==
    /\ Paying(t) /\ ~Payable(t)
    /\ Answer(t, "failed")
    /\ Front

-----------------------------------------------------------------------------
\* The answers

\* The dialog closes and the loan or the list is loaded, the list after a
\* deletion.
Done(t) ==
    /\ tab[t].stage = "ok" /\ tab[t].dialog \notin {"none", "pay"}
    /\ IF tab[t].page = "loan" /\ tab[t].dialog # "delete"
       THEN Show(t, [tab[t] EXCEPT !.stage = "idle", !.dialog = "none",
                       !.form = Starting(@, 0), !.seen = Loaded(t)])
       ELSE Show(t, Page("list", None, None))

\* Amount and receipt are cleared; the choice to settle is not.
Clear(form) == [form EXCEPT !.amount = 0, !.slip = None]

Paid(t) ==
    /\ tab[t].stage = "ok" /\ tab[t].dialog = "pay"
    /\ Show(t, [tab[t] EXCEPT !.stage = "idle", !.dialog = "none",
                   !.form = Clear(@), !.seen = Loaded(t)])

Received(t) ==
    /\ tab[t].stage = "ok" /\ Receiving(t)
    /\ Show(t, [tab[t] EXCEPT !.stage = "idle", !.form = Clear(@), !.loading = TRUE])

\* A refusal, or an answer that is lost after the server did its work.
Failed(t) ==
    /\ tab[t].stage \in {"ok", "failed"}
    /\ Show(t, [tab[t] EXCEPT !.stage = "idle"])

-----------------------------------------------------------------------------
Init ==
    /\ loans \in Starts
    /\ repayments = {}
    /\ tab = [t \in Tabs |-> Page("list", None, None)]

LoanPage(t) ==
    \/ \E l \in Loans : loans[l].status # "gone" /\ Visit(t, l)
    \/ LoadLoan(t) \/ OpenList(t)
    \/ OpenAppraise(t) \/ OpenApprove(t) \/ OpenReject(t) \/ OpenDelete(t)
    \/ OpenDisburse(t) \/ TypeDisbursed(t)
    \/ ConfirmAppraise(t) \/ ConfirmApprove(t) \/ ConfirmReject(t)
    \/ ConfirmDisburse(t) \/ ConfirmDelete(t) \/ CloseDialog(t)
    \/ OpenPay(t)
    \/ AskQuote(t) \/ QuoteAnswer(t) \/ TypePayment(t) \/ SubmitPayment(t)

ReceivePage(t) ==
    \/ OpenReceive(t) \/ Refresh(t) \/ ListAnswer(t)
    \/ \E l \in Loans : SelectLoan(t, l) \/ SelectRow(t, l)
    \/ Payoff(t) \/ TypeReceived(t) \/ SubmitReceived(t)

Server(t) ==
    \/ Appraise(t) \/ Approve(t) \/ Reject(t) \/ Disburse(t) \/ Delete(t)
    \/ RecordPayment(t) \/ RefusePayment(t)

Answers(t) == Done(t) \/ Paid(t) \/ Received(t) \/ Failed(t)

Next == \E t \in Tabs : LoanPage(t) \/ ReceivePage(t) \/ Server(t) \/ Answers(t)

Spec == Init /\ [][Next]_vars

-----------------------------------------------------------------------------
\* Properties

\* What tabs show are loans and pages; repayments have ids of their own.
TypeOK ==
    /\ loans \in [Loans -> Loan]
    /\ repayments \subseteq Repayment
    /\ \A x, y \in repayments : x.id = y.id => x = y
    /\ \A t \in Tabs : tab[t].form \in Form

\* A receipt typed on the page of a loan is credited there once, however often
\* answers are lost and the payment is entered again, in whatever tab
\* (handleRecordPaymentSubmit, Repayment.transaction_reference).
SlipCreditedOnce ==
    \A x, y \in repayments :
        x.page = "loan" /\ y.page = "loan" /\ x.slip = y.slip /\ x.slip # None => x = y

\* A loan is settled early only where its settlement was asked for, not that
\* of a loan on display before (setIsEarlySettlement).  The exceptions are the
\* Select button of the table of loans and a list that returns to the loan of
\* the address, which both keep the choice.
SettlementWasAsked ==
    \A x \in repayments : x.early => x.asked = x.loan \/ x.moved

\* A loan is paid out as it was approved, whatever the tab that pays it out
\* had seen of it before, or with an amount its operator typed over the one
\* the dialog starts with (LoanDisbursementDialog, LoanApprovalDialog).
TypedOver(l) == \E t \in Tabs : tab[t].sent.loan = l /\ tab[t].sent.form.typed
DisbursedAsApproved ==
    [][\A l \in Loans : loans[l].status = "approved" /\ loans'[l].status = "active"
         => loans'[l].owed = loans[l].approved \/ TypedOver(l)]_vars
=============================================================================
