--------------------------- MODULE LoanDeskProofs ---------------------------
(***************************************************************************)
(* For any number of loans, tabs, receipts and amounts: the desk keeps its *)
(* types, a receipt typed on the page of a loan is credited once, only a   *)
(* settlement that was asked for is one, and a loan is paid out as it was  *)
(* approved unless the operator typed another amount.                      *)
(*                                                                         *)
(* What a tab shows is old, so the invariant says what survives of it: a   *)
(* loan once seen approved never goes back to an application, and while it *)
(* is approved its approved amount is the one that was seen.               *)
(***************************************************************************)
EXTENDS LoanDesk, FiniteSetTheorems, TLAPS

Applications == {"pending", "appraised"}
Running == {"active", "closed"}

\* The amount n is what loan l of table L is paid out with, if it ever is.
Stands(L, l, n) ==
    /\ L[l].status \notin Applications
    /\ L[l].status = "approved" => L[l].approved = n

SeenOld(r, L) ==
    \A l \in Loans :
        /\ r.seen[l].status = "approved" =>
             r.seen[l].approved > 0 /\ Stands(L, l, r.seen[l].approved)
        /\ r.seen[l].status \in Running => L[l].status \in Running

\* Dialogs and requests are about a loan.
AboutLoan(r) ==
    /\ r.dialog # "none" \/ r.page # "list" => r.loan \in Loans
    /\ r.stage = "sent" => r.sent.loan \in Loans
    /\ r.page = "receive" => r.dialog = "none"
    /\ r.dialog = "pay" => r.page = "loan" /\ r.seen[r.loan].status \in Running
    /\ r.quoting => /\ r.page = "loan" /\ r.dialog \in {"none", "pay"}
                    /\ r.seen[r.loan].status \in Running

Approving(r) ==
    r.dialog = "approve" => /\ r.form.amount > 0
                            /\ r.stage = "sent" => r.sent.form.amount > 0

PayingOut(r, L) ==
    r.dialog = "disburse" =>
        /\ ~r.form.typed => Stands(L, r.loan, r.form.amount)
        /\ r.stage = "sent" /\ ~r.sent.form.typed =>
             Stands(L, r.sent.loan, r.sent.form.amount)

Asked(form, l) == form.early => form.asked = l \/ form.moved
Settling(r) ==
    /\ r.form.early => r.page # "list"
    /\ Asked(r.form, r.loan)
    /\ r.stage = "sent" => Asked(r.sent.form, r.sent.loan)

Good(r, L) ==
    r \in Tab /\ SeenOld(r, L) /\ AboutLoan(r) /\ Approving(r) /\ PayingOut(r, L) /\ Settling(r)

ApprovedPositive(L) ==
    \A l \in Loans : L[l].status = "approved" => L[l].approved > 0

DeskInv ==
    /\ loans \in [Loans -> Loan] /\ ApprovedPositive(loans)
    /\ tab \in [Tabs -> Tab]
    /\ \A t \in Tabs : Good(tab[t], loans)

BookInv ==
    /\ IsFiniteSet(repayments) /\ repayments \subseteq Repayment
    /\ \A x \in repayments : x.id <= Cardinality(repayments)
    /\ \A x, y \in repayments : x.id = y.id => x = y
    /\ SlipCreditedOnce /\ SettlementWasAsked

-----------------------------------------------------------------------------
\* Steps of the pages

\* Amounts that are typed are amounts.
LEMMA Amounts == 0 \in 0..MaxOwed /\ \A n \in 1..MaxOwed : n \in 0..MaxOwed /\ n > 0
  BY DeskAssumption

\* What a tab of a good desk holds.
LEMMA TabGood ==
    ASSUME DeskInv, NEW t \in Tabs
    PROVE  /\ tab[t] \in Tab /\ Good(tab[t], loans)
           /\ tab[t].form \in Form /\ tab[t].seen \in [Loans -> Loan]
  BY DEF DeskInv, Tab

\* A step of one tab that leaves it good keeps the desk good.
LEMMA FrontStep ==
    ASSUME DeskInv, NEW t \in Tabs, NEW r, Show(t, r), Good(r, loans)
    PROVE  DeskInv'
  BY DEF DeskInv, Good, Show, Front

\* A page just opened shows the loans as they are.
LEMMA PageGood ==
    ASSUME DeskInv, NEW page \in {"loan", "list", "receive"},
           NEW l \in Loans \cup {None}, NEW link \in Loans \cup {None},
           page # "list" => l \in Loans
    PROVE  Good(Page(page, l, link), loans)
<1> DEFINE r == Page(page, l, link)
<1>1. Empty \in Form /\ Unseen \in Loan
  BY DeskAssumption DEF Empty, Form, Unseen, Loan, Statuses
<1>2. r \in Tab
  BY <1>1 DEF Page, Tab, NoRequest, DeskInv
<1>3. SeenOld(r, loans)
  BY DEF SeenOld, Page, DeskInv, ApprovedPositive, Stands, Applications, Unseen, Running
<1>4. AboutLoan(r) /\ Approving(r) /\ PayingOut(r, loans) /\ Settling(r)
  BY DEF Page, AboutLoan, Approving, PayingOut, Settling, Asked, Empty, NoRequest
<1> QED
  BY <1>2, <1>3, <1>4 DEF Good

\* A step that only fills in the form of a tab.
LEMMA FormStep ==
    ASSUME DeskInv, NEW t \in Tabs, NEW f \in Form, Fill(t, f),
           tab[t].dialog = "approve" => f.amount > 0,
           tab[t].dialog = "disburse" => f.typed,
           f.early => tab[t].page # "list",
           Asked(f, tab[t].loan)
    PROVE  DeskInv'
<1> DEFINE r == [tab[t] EXCEPT !.form = f]
<1>1. tab[t] \in Tab /\ Good(tab[t], loans)
  BY TabGood
<1>2. r \in Tab
  BY <1>1 DEF Tab
<1>3. SeenOld(r, loans) /\ AboutLoan(r)
  BY <1>1 DEF Tab, Good, SeenOld, AboutLoan
<1>4. Approving(r) /\ PayingOut(r, loans) /\ Settling(r)
  BY <1>1 DEF Tab, Good, Approving, PayingOut, Settling
<1> QED
  BY <1>2, <1>3, <1>4, FrontStep DEF Fill, Good

\* A request takes the loan and the form of its tab.
LEMMA SendStep ==
    ASSUME DeskInv, NEW t \in Tabs, Send(t), tab[t].loan \in Loans
    PROVE  DeskInv'
<1> DEFINE r == [tab[t] EXCEPT !.stage = "sent",
                   !.sent = [loan |-> tab[t].loan, form |-> tab[t].form]]
<1>1. tab[t] \in Tab /\ Good(tab[t], loans)
  BY TabGood
<1>2. r \in Tab
  BY <1>1 DEF Tab
<1>3. SeenOld(r, loans) /\ AboutLoan(r)
  BY <1>1 DEF Tab, Good, SeenOld, AboutLoan
<1>4. Approving(r) /\ PayingOut(r, loans) /\ Settling(r)
  BY <1>1 DEF Tab, Good, Approving, PayingOut, Settling
<1> QED
  BY <1>2, <1>3, <1>4, FrontStep DEF Send, Good

\* A dialog on a loan that is not seen running, with no quote under way.
LEMMA OpenStep ==
    ASSUME DeskInv, NEW t \in Tabs, NEW from, NEW pages \in SUBSET {"loan", "list"},
           NEW l \in Offers(t, from, pages), "active" \notin from, "closed" \notin from,
           NEW n \in 0..MaxOwed, NEW dialog \in {"appraise", "approve", "reject", "disburse", "delete"},
           dialog = "approve" => n > 0,
           dialog = "disburse" => Stands(loans, l, n),
           Open(t, l, dialog, n)
    PROVE  DeskInv'
<1> DEFINE f == Starting(tab[t].form, n)
           r == [tab[t] EXCEPT !.dialog = dialog, !.loan = l, !.form = f]
<1>1. tab[t] \in Tab /\ Good(tab[t], loans) /\ tab[t].form \in Form
  BY TabGood
<1>2. /\ l \in Loans /\ tab[t].seen[l].status \notin Running
      /\ tab[t].page = "loan" => l = tab[t].loan
      /\ tab[t].stage = "idle" /\ tab[t].page # "receive"
  BY DEF Offers, On, Running
<1>3. ~tab[t].quoting
  BY <1>1, <1>2 DEF Good, AboutLoan
<1>4. f \in Form /\ f.amount = n /\ f.early = tab[t].form.early /\ ~f.typed
      /\ f.asked = tab[t].form.asked /\ f.moved = tab[t].form.moved
  BY <1>1 DEF Starting, Form
<1>5. r \in Tab
  BY <1>1, <1>2, <1>4 DEF Tab
<1>6. SeenOld(r, loans) /\ AboutLoan(r)
  BY <1>1, <1>2, <1>3 DEF Tab, Good, SeenOld, AboutLoan
<1>7. Approving(r) /\ PayingOut(r, loans)
  BY <1>1, <1>2, <1>4 DEF Tab, Approving, PayingOut
<1>8. tab[t].page = "loan" \/ ~f.early
  BY <1>1, <1>2, <1>4 DEF Good, Settling, Tab
<1>9. Settling(r)
  BY <1>1, <1>2, <1>4, <1>8 DEF Tab, Good, Settling, Asked
<1> QED
  BY <1>5, <1>6, <1>7, <1>9, FrontStep DEF Open, Good

\* The dialogs and forms of the page of a loan and the list.
LEMMA LoanPageStep ==
    ASSUME DeskInv, NEW t \in Tabs, LoanPage(t)
    PROVE  DeskInv'
<1>1. tab[t] \in Tab /\ Good(tab[t], loans) /\ tab[t].form \in Form
  BY TabGood
<1>2. ASSUME NEW l \in Loans, Visit(t, l)
      PROVE  DeskInv'
  BY <1>2, PageGood, FrontStep DEF Visit
<1>3. CASE OpenList(t)
  BY <1>3, PageGood, FrontStep DEF OpenList
<1>4. CASE LoadLoan(t)
  <2> DEFINE r == [tab[t] EXCEPT !.seen = Loaded(t)]
  <2>1. Loaded(t) \in [Loans -> Loan]
        /\ \A l \in Loans : Loaded(t)[l] \in {tab[t].seen[l], loans[l]}
    BY <1>1 DEF Loaded, DeskInv, Tab
  <2>2. r \in Tab
    BY <1>1, <2>1 DEF Tab
  <2>3. SeenOld(r, loans)
    BY <1>1, <2>1 DEF Tab, Good, SeenOld, DeskInv, ApprovedPositive, Stands, Applications
  <2>4. AboutLoan(r)
    BY <1>1, <2>1 DEF Tab, Good, SeenOld, AboutLoan
  <2>5. Approving(r) /\ PayingOut(r, loans) /\ Settling(r)
    BY <1>1 DEF Tab, Good, Approving, PayingOut, Settling
  <2> QED
    BY <1>4, <2>2, <2>3, <2>4, <2>5, FrontStep DEF LoadLoan, Good
<1>5. CASE OpenAppraise(t) \/ OpenReject(t) \/ OpenDelete(t)
  BY <1>5, Amounts, OpenStep DEF OpenAppraise, OpenReject, OpenDelete
<1>6. CASE OpenApprove(t)
  BY <1>6, Amounts, OpenStep DEF OpenApprove
<1>7. CASE OpenDisburse(t)
  <2>1. PICK l \in Offers(t, {"approved"}, {"loan", "list"}) :
          Open(t, l, "disburse", ToDisburse(l, tab[t].seen))
    BY <1>7 DEF OpenDisburse
  <2>2. l \in Loans /\ tab[t].seen[l].status = "approved" /\ tab[t].seen[l] \in Loan
    BY <1>1, TabGood DEF Offers
  <2>3. /\ ToDisburse(l, tab[t].seen) = tab[t].seen[l].approved
        /\ ToDisburse(l, tab[t].seen) \in 0..MaxOwed
        /\ Stands(loans, l, ToDisburse(l, tab[t].seen))
    BY <1>1, <2>2 DEF ToDisburse, Good, SeenOld, Loan
  <2> QED
    BY <2>1, <2>3, OpenStep
<1>8. CASE TypeDisbursed(t)
  <2>1. PICK n \in 1..MaxOwed : Fill(t, [tab[t].form EXCEPT !.amount = n, !.typed = TRUE])
    BY <1>8 DEF TypeDisbursed
  <2> DEFINE f == [tab[t].form EXCEPT !.amount = n, !.typed = TRUE]
  <2>2. f \in Form /\ f.amount = n /\ f.typed
    BY <1>1, Amounts DEF Form
  <2>3. (f.early => tab[t].page # "list") /\ Asked(f, tab[t].loan)
    BY <1>1 DEF Good, Settling, Asked, Form
  <2> QED
    BY <2>1, <2>2, <2>3, <1>8, FormStep DEF TypeDisbursed
<1>9. CASE TypePayment(t)
  <2>1. PICK n \in 1..MaxOwed, s \in Slips \cup {None} :
          Fill(t, [tab[t].form EXCEPT !.amount = n, !.slip = s])
    BY <1>9 DEF TypePayment
  <2> DEFINE f == [tab[t].form EXCEPT !.amount = n, !.slip = s]
  <2>2. f \in Form /\ f.amount = n
    BY <1>1, Amounts DEF Form
  <2>3. (f.early => tab[t].page # "list") /\ Asked(f, tab[t].loan)
    BY <1>1 DEF Good, Settling, Asked, Form
  <2> QED
    BY <2>1, <2>2, <2>3, <1>9, FormStep DEF TypePayment
<1>10. CASE OpenPay(t)
  <2>1. PICK l \in Offers(t, {"active"}, {"loan"}), form \in {tab[t].form, Ordinary(tab[t].form)} :
          Show(t, [tab[t] EXCEPT !.dialog = "pay", !.form = Starting(form, 0)])
    BY <1>10 DEF OpenPay
  <2> DEFINE f == Starting(form, 0)
             r == [tab[t] EXCEPT !.dialog = "pay", !.form = f]
  <2>2. /\ l \in Loans /\ l = tab[t].loan /\ tab[t].page = "loan"
        /\ tab[t].seen[l].status = "active" /\ tab[t].stage = "idle"
    BY DEF Offers, On
  <2>3. form \in Form /\ Asked(form, l)
    BY <1>1, <2>2 DEF Ordinary, Empty, Form, Good, Settling, Asked
  <2>4. f \in Form /\ Asked(f, l)
    BY <2>3, Amounts DEF Starting, Form, Asked
  <2>5. r \in Tab
    BY <1>1, <2>4 DEF Tab
  <2>6. SeenOld(r, loans) /\ AboutLoan(r)
    BY <1>1, <2>2 DEF Tab, Good, SeenOld, AboutLoan, Running
  <2>7. Approving(r) /\ PayingOut(r, loans) /\ Settling(r)
    BY <1>1, <2>2, <2>4 DEF Tab, Approving, PayingOut, Settling
  <2> QED
    BY <2>1, <2>5, <2>6, <2>7, FrontStep DEF Good
<1>11. CASE CloseDialog(t)
  <2> DEFINE f == Starting(tab[t].form, 0)
             r == [tab[t] EXCEPT !.dialog = "none", !.form = f]
  <2>1. f \in Form /\ f.early = tab[t].form.early
        /\ f.asked = tab[t].form.asked /\ f.moved = tab[t].form.moved
    BY <1>1, Amounts DEF Starting, Form
  <2>2. r \in Tab
    BY <1>1, <2>1 DEF Tab
  <2>3. SeenOld(r, loans) /\ AboutLoan(r)
    BY <1>1 DEF Tab, Good, SeenOld, AboutLoan
  <2>4. Approving(r) /\ PayingOut(r, loans) /\ Settling(r)
    BY <1>1, <2>1 DEF Tab, Good, Approving, PayingOut, Settling, Asked
  <2> QED
    BY <1>11, <2>2, <2>3, <2>4, FrontStep DEF CloseDialog, Good
<1>12. CASE ConfirmAppraise(t) \/ ConfirmApprove(t) \/ ConfirmReject(t) \/ ConfirmDisburse(t)
            \/ ConfirmDelete(t) \/ SubmitPayment(t)
  BY <1>12, <1>1, SendStep
  DEF ConfirmAppraise, ConfirmApprove, ConfirmReject, ConfirmDisburse, ConfirmDelete,
      SubmitPayment, Good, AboutLoan
<1>13. CASE AskQuote(t)
  <2> DEFINE r == [tab[t] EXCEPT !.quoting = TRUE]
  <2>1. r \in Tab
    BY <1>1 DEF Tab
  <2>2. SeenOld(r, loans) /\ AboutLoan(r)
    BY <1>1, <1>13 DEF AskQuote, Tab, Good, SeenOld, AboutLoan
  <2>3. Approving(r) /\ PayingOut(r, loans) /\ Settling(r)
    BY <1>1 DEF Tab, Good, Approving, PayingOut, Settling
  <2> QED
    BY <1>13, <2>1, <2>2, <2>3, FrontStep DEF AskQuote, Good
<1>14. CASE QuoteAnswer(t)
  <2>1. PICK n \in {loans[tab[t].loan].owed, tab[t].seen[tab[t].loan].owed} :
          Show(t, [tab[t] EXCEPT !.quoting = FALSE, !.form = Settle(@, tab[t].loan, n)])
    BY <1>14 DEF QuoteAnswer
  <2> DEFINE f == Settle(tab[t].form, tab[t].loan, n)
             r == [tab[t] EXCEPT !.quoting = FALSE, !.form = f]
  <2>2. /\ tab[t].quoting /\ tab[t].loan \in Loans /\ tab[t].page = "loan"
        /\ tab[t].dialog \in {"none", "pay"}
    BY <1>1, <1>14 DEF QuoteAnswer, Good, AboutLoan
  <2>3. n \in 0..MaxOwed
    BY <2>2, TabGood DEF DeskInv, Loan
  <2>4. f \in Form /\ f.early /\ f.asked = tab[t].loan
    BY <1>1, <2>2, <2>3 DEF Settle, Form
  <2>5. r \in Tab
    BY <1>1, <2>4 DEF Tab
  <2>6. SeenOld(r, loans) /\ AboutLoan(r)
    BY <1>1 DEF Tab, Good, SeenOld, AboutLoan
  <2>7. Approving(r) /\ PayingOut(r, loans) /\ Settling(r)
    BY <1>1, <2>2, <2>4 DEF Tab, Good, Approving, PayingOut, Settling, Asked
  <2> QED
    BY <2>1, <2>5, <2>6, <2>7, FrontStep DEF Good
<1> QED
  BY <1>2, <1>3, <1>4, <1>5, <1>6, <1>7, <1>8, <1>9, <1>10, <1>11, <1>12, <1>13, <1>14
  DEF LoanPage

\* The collection page.
LEMMA ReceivePageStep ==
    ASSUME DeskInv, NEW t \in Tabs, ReceivePage(t)
    PROVE  DeskInv'
<1>1. tab[t] \in Tab /\ Good(tab[t], loans) /\ tab[t].form \in Form
  BY TabGood
<1>2. CASE OpenReceive(t)
  BY <1>2, PageGood, FrontStep, DeskAssumption DEF OpenReceive
<1>3. CASE Refresh(t)
  <2> DEFINE r == [tab[t] EXCEPT !.loading = TRUE]
  <2>1. r \in Tab
    BY <1>1 DEF Tab
  <2>2. SeenOld(r, loans) /\ AboutLoan(r)
    BY <1>1 DEF Tab, Good, SeenOld, AboutLoan
  <2>3. Approving(r) /\ PayingOut(r, loans) /\ Settling(r)
    BY <1>1 DEF Tab, Good, Approving, PayingOut, Settling
  <2> QED
    BY <1>3, <2>1, <2>2, <2>3, FrontStep DEF Refresh, Good
\* Whatever else it changes, a page that selects loan l keeps its request.
<1>4. ASSUME NEW l \in Loans, NEW f \in Form, NEW seen \in {tab[t].seen, loans},
             NEW loading \in BOOLEAN, Receiving(t), Asked(f, l),
             Show(t, [tab[t] EXCEPT !.loading = loading, !.seen = seen,
                                    !.loan = l, !.form = f])
      PROVE  DeskInv'
  <2> DEFINE r == [tab[t] EXCEPT !.loading = loading, !.seen = seen, !.loan = l, !.form = f]
  <2>1. tab[t].dialog = "none" /\ ~tab[t].quoting
    BY <1>1, <1>4 DEF Good, AboutLoan, Receiving
  <2>2. r \in Tab
    BY <1>1, <1>4 DEF Tab, DeskInv
  <2>3. SeenOld(r, loans)
    BY <1>1 DEF Tab, Good, SeenOld, DeskInv, ApprovedPositive, Stands, Applications, Running
  <2>4. AboutLoan(r)
    BY <1>1, <2>1 DEF Tab, Good, AboutLoan
  <2>5. Approving(r) /\ PayingOut(r, loans) /\ Settling(r)
    BY <1>1, <1>4, <2>1 DEF Tab, Good, Approving, PayingOut, Settling, Receiving
  <2> QED
    BY <1>4, <2>2, <2>3, <2>4, <2>5, FrontStep DEF Good
<1>5. ASSUME NEW l \in Loans
      PROVE  Moves(t, l, tab[t].form) \in Form /\ Asked(Moves(t, l, tab[t].form), l)
  BY <1>1 DEF Moves, Form, Good, Settling, Asked
<1>6. CASE ListAnswer(t)
  <2> DEFINE l == IF tab[t].link # None /\ loans[tab[t].link].status # "gone"
                  THEN tab[t].link ELSE tab[t].loan
  <2>1. l \in Loans
    BY <1>1, <1>6 DEF ListAnswer, Receiving, Good, AboutLoan, Tab
  <2> QED
    BY <1>6, <1>4, <1>5, <2>1 DEF ListAnswer
<1>7. ASSUME NEW l \in Loans, NEW f \in Form, Receiving(t), Asked(f, l),
             Show(t, [tab[t] EXCEPT !.loan = l, !.form = f])
      PROVE  DeskInv'
  <2>1. [tab[t] EXCEPT !.loan = l, !.form = f] =
        [tab[t] EXCEPT !.loading = tab[t].loading, !.seen = tab[t].seen, !.loan = l, !.form = f]
    BY <1>1 DEF Tab
  <2>2. tab[t].loading \in BOOLEAN
    BY <1>1 DEF Tab
  <2> QED
    BY <1>4, <1>7, <2>1, <2>2
<1>8. ASSUME NEW l \in Loans, SelectLoan(t, l) \/ SelectRow(t, l)
      PROVE  DeskInv'
  <2>1. Ordinary(tab[t].form) \in Form /\ Asked(Ordinary(tab[t].form), l)
    BY <1>1 DEF Ordinary, Empty, Form, Asked
  <2> QED
    BY <1>5, <1>7, <1>8, <2>1 DEF SelectLoan, SelectRow, Selects
<1>9. CASE Payoff(t)
  <2> DEFINE f == Settle(tab[t].form, tab[t].loan, tab[t].seen[tab[t].loan].owed)
  <2>1. tab[t].loan \in Loans /\ tab[t].dialog = "none"
    BY <1>1, <1>9 DEF Payoff, Receiving, Good, AboutLoan
  <2>2. tab[t].seen[tab[t].loan].owed \in 0..MaxOwed
    BY <2>1, TabGood DEF Loan
  <2>3. f \in Form /\ f.asked = tab[t].loan
    BY <1>1, <2>1, <2>2 DEF Settle, Form
  <2> QED
    BY <1>9, <2>1, <2>3, FormStep DEF Payoff, Receiving, Asked
<1>10. CASE TypeReceived(t)
  <2>1. PICK n \in 1..MaxOwed : Fill(t, [tab[t].form EXCEPT !.amount = n])
    BY <1>10 DEF TypeReceived
  <2> DEFINE f == [tab[t].form EXCEPT !.amount = n]
  <2>2. f \in Form /\ Asked(f, tab[t].loan)
    BY <1>1, Amounts DEF Form, Good, Settling, Asked
  <2>3. tab[t].dialog = "none"
    BY <1>1, <1>10 DEF TypeReceived, Receiving, Good, AboutLoan
  <2> QED
    BY <2>1, <2>2, <2>3, <1>10, FormStep DEF TypeReceived, Receiving
<1>11. CASE SubmitReceived(t)
  BY <1>1, <1>11, SendStep DEF SubmitReceived, Receiving, Good, AboutLoan
<1> QED
  BY <1>2, <1>3, <1>6, <1>8, <1>9, <1>10, <1>11 DEF ReceivePage

\* What a tab does with an answer.
LEMMA AnswersStep ==
    ASSUME DeskInv, NEW t \in Tabs, Answers(t)
    PROVE  DeskInv'
<1>1. tab[t] \in Tab /\ Good(tab[t], loans) /\ tab[t].form \in Form
  BY TabGood
<1>2. /\ Loaded(t) \in [Loans -> Loan]
      /\ \A l \in Loans : Loaded(t)[l] \in {tab[t].seen[l], loans[l]}
  BY <1>1 DEF Loaded, DeskInv, Tab
\* A dialog that closes on the page of a loan.
<1>3. ASSUME NEW f \in Form, Asked(f, tab[t].loan), tab[t].page = "loan",
             Show(t, [tab[t] EXCEPT !.stage = "idle", !.dialog = "none",
                                    !.form = f, !.seen = Loaded(t)])
      PROVE  DeskInv'
  <2> DEFINE r == [tab[t] EXCEPT !.stage = "idle", !.dialog = "none",
                                 !.form = f, !.seen = Loaded(t)]
  <2>1. r \in Tab
    BY <1>1, <1>2 DEF Tab
  <2>2. SeenOld(r, loans)
    BY <1>1, <1>2 DEF Tab, Good, SeenOld, DeskInv, ApprovedPositive, Stands, Applications
  <2>3. AboutLoan(r)
    BY <1>1, <1>2 DEF Tab, Good, SeenOld, AboutLoan
  <2>4. Approving(r) /\ PayingOut(r, loans) /\ Settling(r)
    BY <1>1, <1>3 DEF Tab, Good, Approving, PayingOut, Settling
  <2> QED
    BY <1>3, <2>1, <2>2, <2>3, <2>4, FrontStep DEF Good
<1>4. Clear(tab[t].form) \in Form /\ Starting(tab[t].form, 0) \in Form
      /\ Asked(Clear(tab[t].form), tab[t].loan) /\ Asked(Starting(tab[t].form, 0), tab[t].loan)
      /\ Clear(tab[t].form).early = tab[t].form.early
  BY <1>1, Amounts DEF Clear, Starting, Form, Good, Settling, Asked
<1>5. CASE Done(t)
  BY <1>3, <1>4, <1>5, PageGood, FrontStep DEF Done
<1>6. CASE Paid(t)
  BY <1>1, <1>3, <1>4, <1>6 DEF Paid, Good, AboutLoan
<1>7. CASE Received(t)
  <2> DEFINE f == Clear(tab[t].form)
             r == [tab[t] EXCEPT !.stage = "idle", !.form = f, !.loading = TRUE]
  <2>1. tab[t].dialog = "none" /\ tab[t].page = "receive"
    BY <1>1, <1>7 DEF Received, Receiving, Good, AboutLoan
  <2>2. r \in Tab
    BY <1>1, <1>4 DEF Tab
  <2>3. SeenOld(r, loans) /\ AboutLoan(r)
    BY <1>1 DEF Tab, Good, SeenOld, AboutLoan
  <2>4. Approving(r) /\ PayingOut(r, loans) /\ Settling(r)
    BY <1>1, <1>4, <2>1 DEF Tab, Good, Approving, PayingOut, Settling
  <2> QED
    BY <1>7, <2>2, <2>3, <2>4, FrontStep DEF Received, Good
<1>8. CASE Failed(t)
  <2> DEFINE r == [tab[t] EXCEPT !.stage = "idle"]
  <2>1. r \in Tab
    BY <1>1 DEF Tab
  <2>2. SeenOld(r, loans) /\ AboutLoan(r)
    BY <1>1 DEF Tab, Good, SeenOld, AboutLoan
  <2>3. Approving(r) /\ PayingOut(r, loans) /\ Settling(r)
    BY <1>1 DEF Tab, Good, Approving, PayingOut, Settling
  <2> QED
    BY <1>8, <2>1, <2>2, <2>3, FrontStep DEF Failed, Good
<1> QED
  BY <1>5, <1>6, <1>7, <1>8 DEF Answers

-----------------------------------------------------------------------------
\* Steps of the server

\* What a request may do to a loan: only an application becomes approved, and
\* what runs keeps running or is closed.
Later(old, new) ==
    /\ old.status \notin Applications => new.status \notin Applications
    /\ old.status \in Running => new.status \in Running
    /\ new.status = "approved" /\ old.status \notin Applications =>
         old.status = "approved" /\ new.approved = old.approved

\* Whatever the pages show stays good when loans go on.
LEMMA GoodLater ==
    ASSUME NEW L, NEW M, NEW r, Good(r, L), \A l \in Loans : Later(L[l], M[l])
    PROVE  Good(r, M)
<1>1. \A l \in Loans : \A n : Stands(L, l, n) => Stands(M, l, n)
  BY DEF Stands, Later
<1>2. SeenOld(r, M)
  BY <1>1 DEF Good, SeenOld, Later
<1>3. PayingOut(r, M)
  BY <1>1 DEF Good, AboutLoan, PayingOut
<1> QED
  BY <1>2, <1>3 DEF Good

\* A request that takes loans further leaves every page good.
LEMMA ServerStep ==
    ASSUME DeskInv, NEW t \in Tabs, NEW stage \in {"ok", "failed"}, Answer(t, stage),
           loans' \in [Loans -> Loan], \A l \in Loans : Later(loans[l], loans'[l]),
           ApprovedPositive(loans')
    PROVE  DeskInv'
<1> DEFINE r == [tab[t] EXCEPT !.stage = stage, !.sent = NoRequest]
<1>1. tab[t] \in Tab /\ Good(tab[t], loans)
  BY TabGood
<1>2. NoRequest.loan \in Loans \cup {None} /\ NoRequest.form \in Form
      /\ NoRequest \in [loan : Loans \cup {None}, form : Form]
  BY Amounts DEF NoRequest, Empty, Form
<1>3. r \in Tab
  BY <1>1, <1>2 DEF Tab
<1>4. SeenOld(r, loans) /\ AboutLoan(r)
  BY <1>1 DEF Tab, Good, SeenOld, AboutLoan
<1>5. Approving(r) /\ PayingOut(r, loans) /\ Settling(r)
  BY <1>1 DEF Tab, Good, Approving, PayingOut, Settling
<1>6. Good(r, loans)
  BY <1>3, <1>4, <1>5 DEF Good
<1>7. tab' = [tab EXCEPT ![t] = r]
  BY DEF Answer
<1>8. \A s \in Tabs : tab'[s] \in Tab /\ Good(tab'[s], loans)
  BY <1>3, <1>6, <1>7 DEF DeskInv
<1>9. \A s \in Tabs : Good(tab'[s], loans')
  BY <1>8, GoodLater
<1> QED
  BY <1>7, <1>8, <1>9 DEF DeskInv

\* A decision that the status of the loan allows.
LEMMA BecomesStep ==
    ASSUME DeskInv, NEW t \in Tabs, NEW op, NEW from, NEW new, Becomes(t, op, from, new),
           LET l == tab[t].sent.loan IN
             l \in Loans /\ loans[l].status \in from =>
               new \in Loan /\ Later(loans[l], new) /\ (new.status = "approved" => new.approved > 0)
    PROVE  DeskInv'
<1> DEFINE l == tab[t].sent.loan
<1>1. l \in Loans
  BY TabGood DEF Becomes, Sent, Good, AboutLoan
<1>2. CASE loans[l].status \in from
  <2>1. loans' = [loans EXCEPT ![l] = new] /\ Answer(t, "ok")
    BY <1>2 DEF Becomes
  <2>2. loans' \in [Loans -> Loan] /\ ApprovedPositive(loans')
    BY <1>1, <1>2, <2>1 DEF DeskInv, ApprovedPositive
  <2>3. \A k \in Loans : Later(loans[k], loans'[k])
    BY <1>1, <1>2, <2>1 DEF DeskInv, Later
  <2> QED
    BY <2>1, <2>2, <2>3, ServerStep
<1>3. CASE loans[l].status \notin from
  BY <1>3, ServerStep DEF Becomes, DeskInv, Later
<1> QED
  BY <1>2, <1>3

\* Appraisal, approval, rejection, disbursement and deletion.
LEMMA DecisionStep ==
    ASSUME DeskInv, NEW t \in Tabs,
           Appraise(t) \/ Approve(t) \/ Reject(t) \/ Disburse(t) \/ Delete(t)
    PROVE  DeskInv'
<1> DEFINE l == tab[t].sent.loan
           n == tab[t].sent.form.amount
<1>1. l \in Loans => loans[l] \in Loan
  BY DEF DeskInv
<1>2. n \in 0..MaxOwed
  BY TabGood DEF Tab, Form
<1>3. CASE Appraise(t)
  <2>1. l \in Loans /\ loans[l].status \in {"pending"} =>
          LET new == [loans[l] EXCEPT !.status = "appraised"] IN
          new \in Loan /\ Later(loans[l], new) /\ new.status # "approved"
    BY <1>1 DEF Loan, Statuses, Later, Applications, Running
  <2> QED
    BY <1>3, <2>1, BecomesStep DEF Appraise
<1>4. CASE Approve(t)
  <2> DEFINE new == [status |-> "approved", owed |-> n, approved |-> n]
  <2>1. n > 0
    BY <1>4, TabGood DEF Approve, Becomes, Sent, Good, Approving
  <2>2. loans[l].status \in {"pending", "appraised"} =>
          new \in Loan /\ Later(loans[l], new) /\ new.approved > 0
    BY <1>2, <2>1 DEF Loan, Statuses, Later, Applications, Running
  <2> QED
    BY <1>4, <2>2, BecomesStep DEF Approve
<1>5. CASE Reject(t)
  <2>1. l \in Loans /\ loans[l].status \in {"pending", "appraised", "approved", "rejected"} =>
          LET new == [loans[l] EXCEPT !.status = "rejected"] IN
          new \in Loan /\ Later(loans[l], new) /\ new.status # "approved"
    BY <1>1 DEF Loan, Statuses, Later, Applications, Running
  <2> QED
    BY <1>5, <2>1, BecomesStep DEF Reject
<1>6. CASE Disburse(t)
  <2>1. l \in Loans /\ loans[l].status \in {"approved"} =>
          LET new == [loans[l] EXCEPT !.status = "active", !.owed = n] IN
          new \in Loan /\ Later(loans[l], new) /\ new.status # "approved"
    BY <1>1, <1>2 DEF Loan, Statuses, Later, Applications, Running
  <2> QED
    BY <1>6, <2>1, BecomesStep DEF Disburse
<1>7. CASE Delete(t)
  <2> DEFINE from == IF \E x \in repayments : x.loan = l THEN {}
                     ELSE {"pending", "appraised", "approved", "rejected"}
  <2>1. l \in Loans /\ loans[l].status \in from =>
          Unseen \in Loan /\ Later(loans[l], Unseen) /\ Unseen.status # "approved"
    BY <1>1, Amounts DEF Loan, Statuses, Later, Applications, Running, Unseen
  <2> QED
    BY <1>7, <2>1, BecomesStep DEF Delete
<1> QED
  BY <1>3, <1>4, <1>5, <1>6, <1>7

\* A payment reduces what is owed or closes the loan.
LEMMA PaymentStep ==
    ASSUME DeskInv, NEW t \in Tabs, RecordPayment(t) \/ RefusePayment(t)
    PROVE  DeskInv'
<1> DEFINE l == tab[t].sent.loan
           f == tab[t].sent.form
<1>1. CASE RefusePayment(t)
  BY <1>1, ServerStep DEF RefusePayment, Front, DeskInv, Later
<1>2. CASE RecordPayment(t)
  <2>1. l \in Loans /\ f \in Form
    BY <1>2, TabGood DEF RecordPayment, Paying, Sent, Tab, Good, AboutLoan
  <2>2. loans[l] \in Loan
    BY <2>1 DEF DeskInv
  <2> DEFINE new == IF f.early THEN [loans[l] EXCEPT !.status = "closed", !.owed = 0]
                    ELSE [loans[l] EXCEPT !.owed = @ - f.amount]
  <2>3. loans' = [loans EXCEPT ![l] = new]
    BY <1>2 DEF RecordPayment, DeskInv
  <2>4. ~f.early => f.amount < loans[l].owed
    BY <1>2 DEF RecordPayment, Payable
  <2>5. f.amount \in 0..MaxOwed /\ loans[l].owed \in 0..MaxOwed
    BY <2>1, <2>2 DEF Form, Loan
  <2>6. ~f.early => loans[l].owed - f.amount \in 0..MaxOwed
    BY <2>4, <2>5, DeskAssumption
  <2>7. new \in Loan
    BY <2>2, <2>6, Amounts DEF Loan, Statuses
  <2>8. Later(loans[l], new) /\ (new.status = "approved" => new.approved = loans[l].approved
                                                            /\ loans[l].status = "approved")
    BY <2>2 DEF Later, Loan, Applications, Running
  <2>9. loans' \in [Loans -> Loan] /\ ApprovedPositive(loans')
    BY <2>1, <2>3, <2>7, <2>8 DEF DeskInv, ApprovedPositive
  <2>10. \A k \in Loans : Later(loans[k], loans'[k])
    BY <2>1, <2>3, <2>8 DEF DeskInv, Later
  <2> QED
    BY <1>2, <2>9, <2>10, ServerStep DEF RecordPayment
<1> QED
  BY <1>1, <1>2

-----------------------------------------------------------------------------
\* The book of repayments

\* A payment is a new row, with a reference and a reason of its own.
LEMMA BookStep ==
    ASSUME DeskInv, BookInv, NEW t \in Tabs, RecordPayment(t)
    PROVE  BookInv'
<1> DEFINE l == tab[t].sent.loan
           f == tab[t].sent.form
           n == Cardinality(repayments)
           x == [id |-> n + 1, loan |-> l, page |-> tab[t].page, slip |-> f.slip,
                 early |-> f.early, asked |-> f.asked, moved |-> f.moved]
<1>1. /\ repayments' = repayments \cup {x} /\ n < MaxRepayments
      /\ Paying(t) /\ Free(f.slip)
  BY DEF RecordPayment, Payable
<1>2. n \in Nat
  BY FS_CardinalityType DEF BookInv
<1>3. x \notin repayments
  BY <1>2 DEF BookInv
<1>4. IsFiniteSet(repayments') /\ Cardinality(repayments') = n + 1
  BY <1>1, <1>3, FS_AddElement DEF BookInv
<1>5. l \in Loans /\ f \in Form /\ tab[t].page \in {"loan", "receive"} /\ Asked(f, l)
  <2>1. tab[t].stage = "sent" /\ (tab[t].dialog = "pay" \/ tab[t].page = "receive")
    BY <1>1 DEF Paying, Sent, Receiving
  <2> QED
    BY <2>1, TabGood DEF Tab, Good, AboutLoan, Settling
<1>6. x \in Repayment
  BY <1>1, <1>2, <1>5, DeskAssumption DEF Form, Repayment
<1>7. /\ repayments' \subseteq Repayment
      /\ \A y \in repayments' : y.id <= Cardinality(repayments')
      /\ \A y, z \in repayments' : y.id = z.id => y = z
  <2>1. \A y \in repayments : y.id \in Nat /\ y.id <= n
    BY DEF BookInv, Repayment
  <2>2. x.id = n + 1
    OBVIOUS
  <2> QED
    BY <1>1, <1>2, <1>4, <1>6, <2>1, <2>2 DEF BookInv
<1>8. SlipCreditedOnce'
  BY <1>1 DEF BookInv, SlipCreditedOnce, Free
<1>9. SettlementWasAsked'
  BY <1>1, <1>5 DEF BookInv, SettlementWasAsked, Asked
<1> QED
  BY <1>4, <1>7, <1>8, <1>9 DEF BookInv

-----------------------------------------------------------------------------
\* Theorems

\* The invariant holds at first, and every step keeps it.
LEMMA InitInv ==
    ASSUME Init
    PROVE  DeskInv /\ BookInv
<1>1. loans \in [Loans -> Loan] /\ ApprovedPositive(loans)
  BY DeskAssumption DEF Init, ApprovedPositive
<1>2. Empty \in Form
  BY Amounts DEF Empty, Form
<1>3. Page("list", None, None) \in Tab
  BY <1>1, <1>2 DEF Page, Tab, NoRequest
<1>4. Good(Page("list", None, None), loans)
  <2>1. SeenOld(Page("list", None, None), loans)
    BY <1>1 DEF SeenOld, Page, ApprovedPositive, Stands, Applications
  <2>2. LET r == Page("list", None, None) IN
        AboutLoan(r) /\ Approving(r) /\ PayingOut(r, loans) /\ Settling(r)
    BY DEF Page, AboutLoan, Approving, PayingOut, Settling, Asked, Empty, NoRequest
  <2> QED
    BY <1>3, <2>1, <2>2 DEF Good
<1>5. DeskInv
  BY <1>1, <1>3, <1>4 DEF Init, DeskInv
<1>6. BookInv
  BY FS_EmptySet DEF Init, BookInv, SlipCreditedOnce, SettlementWasAsked
<1> QED
  BY <1>5, <1>6

LEMMA NextInv ==
    ASSUME DeskInv, BookInv, [Next]_vars
    PROVE  DeskInv' /\ BookInv'
<1>1. CASE UNCHANGED vars
  BY <1>1 DEF vars, DeskInv, BookInv, SlipCreditedOnce, SettlementWasAsked
<1>2. ASSUME NEW t \in Tabs, LoanPage(t) \/ ReceivePage(t) \/ Server(t) \/ Answers(t)
      PROVE  DeskInv' /\ BookInv'
  <2>1. DeskInv'
    BY <1>2, LoanPageStep, ReceivePageStep, AnswersStep, DecisionStep, PaymentStep DEF Server
  <2>2. RecordPayment(t) \/ UNCHANGED repayments
    BY <1>2
    DEF LoanPage, ReceivePage, Server, Answers, Visit, LoadLoan, OpenList, Open, OpenAppraise,
        OpenApprove, OpenReject, OpenDelete, OpenDisburse, TypeDisbursed, ConfirmAppraise,
        ConfirmApprove, ConfirmReject, ConfirmDisburse, ConfirmDelete, CloseDialog, OpenPay,
        AskQuote, QuoteAnswer, TypePayment, SubmitPayment, OpenReceive, Refresh, ListAnswer,
        SelectLoan, SelectRow, Payoff, TypeReceived, SubmitReceived, Appraise, Approve, Reject,
        Disburse, Delete, Becomes, RefusePayment, Done, Paid, Received, Failed, Send, Show,
        Fill, Front
  <2>3. CASE RecordPayment(t)
    BY <2>1, <2>3, BookStep
  <2>4. CASE UNCHANGED repayments
    BY <2>1, <2>4 DEF BookInv, SlipCreditedOnce, SettlementWasAsked
  <2> QED
    BY <2>2, <2>3, <2>4
<1> QED
  BY <1>1, <1>2 DEF Next

\* The invariant of the desk and its book.
LEMMA Inductive == Spec => [](DeskInv /\ BookInv)
<1>1. Init => DeskInv /\ BookInv
  BY InitInv
<1>2. DeskInv /\ BookInv /\ [Next]_vars => (DeskInv /\ BookInv)'
  BY NextInv
<1> QED
  BY <1>1, <1>2, PTL DEF Spec

\* A payment never pays out, nor does a decision other than a disbursement.
LEMMA OnlyDisburse ==
    ASSUME DeskInv, [Next]_vars, NEW l \in Loans,
           loans[l].status = "approved", loans'[l].status = "active"
    PROVE  \E t \in Tabs : Disburse(t) /\ tab[t].sent.loan = l
<1>1. loans' # loans
  OBVIOUS
<1>2. PICK t \in Tabs : LoanPage(t) \/ ReceivePage(t) \/ Server(t) \/ Answers(t)
  BY <1>1 DEF Next, vars
<1>3. Server(t)
  BY <1>1, <1>2
  DEF LoanPage, ReceivePage, Answers, Visit, LoadLoan, OpenList, Open, OpenAppraise,
      OpenApprove, OpenReject, OpenDelete, OpenDisburse, TypeDisbursed, ConfirmAppraise,
      ConfirmApprove, ConfirmReject, ConfirmDisburse, ConfirmDelete, CloseDialog, OpenPay,
      AskQuote, QuoteAnswer, TypePayment, SubmitPayment, OpenReceive, Refresh, ListAnswer,
      SelectLoan, SelectRow, Payoff, TypeReceived, SubmitReceived, Done, Paid, Received,
      Failed, Send, Show, Fill, Front
<1>4. loans \in [Loans -> Loan] /\ loans[l] \in Loan
  BY DEF DeskInv
<1>5. ~Appraise(t)
  BY <1>4 DEF Appraise, Becomes, Loan
<1>6. ~Approve(t)
  BY <1>4 DEF Approve, Becomes
<1>7. ~Reject(t)
  BY <1>4 DEF Reject, Becomes, Loan
<1>8. ~Delete(t)
  BY <1>4 DEF Delete, Becomes, Unseen
<1>9. ~RecordPayment(t) /\ ~RefusePayment(t)
  BY <1>1, <1>4 DEF RecordPayment, RefusePayment, Front, Loan
<1>10. Disburse(t)
  BY <1>3, <1>5, <1>6, <1>7, <1>8, <1>9 DEF Server
<1>11. tab[t].sent.loan = l
  BY <1>1, <1>4, <1>10 DEF Disburse, Becomes
<1> QED
  BY <1>10, <1>11

\* Loans, repayments and forms keep their types, and repayments have ids of
\* their own, for any number of loans, tabs and amounts (LoanDetailPage,
\* ReceivePaymentContent, Repayment).
THEOREM DeskTypes == Spec => []TypeOK
<1>1. DeskInv /\ BookInv => TypeOK
  BY DEF DeskInv, BookInv, TypeOK, Tab
<1> QED
  BY <1>1, Inductive, PTL

\* A receipt typed on the pages of loans is credited once, in however many
\* tabs and retries it is typed (handleRecordPaymentSubmit).
THEOREM SlipsCreditedOnce == Spec => []SlipCreditedOnce
<1>1. BookInv => SlipCreditedOnce
  BY DEF BookInv
<1> QED
  BY <1>1, Inductive, PTL

\* Every early settlement was asked for, or its loan was selected by one of
\* the two ways that keep an earlier choice (setIsEarlySettlement).
THEOREM SettlementsAsked == Spec => []SettlementWasAsked
<1>1. BookInv => SettlementWasAsked
  BY DEF BookInv
<1> QED
  BY <1>1, Inductive, PTL

\* Whatever the tab that pays a loan out had seen, it is paid out as it was
\* approved or with an amount typed over (LoanDisbursementDialog).
THEOREM PaidOutAsApproved == Spec => DisbursedAsApproved
<1> DEFINE Step == \A l \in Loans : loans[l].status = "approved" /\ loans'[l].status = "active"
                     => loans'[l].owed = loans[l].approved \/ TypedOver(l)
<1>1. DeskInv /\ [Next]_vars => [Step]_vars
  <2> SUFFICES ASSUME DeskInv, [Next]_vars, NEW l \in Loans,
                      loans[l].status = "approved", loans'[l].status = "active"
               PROVE  loans'[l].owed = loans[l].approved \/ TypedOver(l)
    OBVIOUS
  <2>1. PICK t \in Tabs : Disburse(t) /\ tab[t].sent.loan = l
    BY OnlyDisburse
  <2>2. /\ tab[t].stage = "sent" /\ tab[t].dialog = "disburse"
        /\ loans'[l].owed = tab[t].sent.form.amount
    BY <2>1 DEF Disburse, Becomes, Sent, DeskInv, Loan
  <2>3. tab[t].sent.form.typed \/ Stands(loans, l, tab[t].sent.form.amount)
    BY <2>1, <2>2, TabGood DEF Good, PayingOut
  <2> QED
    BY <2>1, <2>2, <2>3 DEF Stands, TypedOver
<1> QED
  BY <1>1, Inductive, PTL DEF Spec, DisbursedAsApproved
=============================================================================
