---------------------------- MODULE GeneralLedger ----------------------------
(***************************************************************************)
(* The general ledger as accountants keep it in the web front end: the     *)
(* journal desk (app/(DashboardLayout)/finance/journals/page.tsx), the     *)
(* finance page (finance/page.tsx) and the dialog that adds an account     *)
(* (components/finance/AddLedgerAccountDialog.tsx), with the service       *)
(* behind them (backend apps/loans/views/ledger_views.py).                 *)
(*                                                                         *)
(* A request reads accounts, then writes in one transaction.  What is in a *)
(* form is chosen when it is sent: the fields stay editable until then.    *)
(* Voucher numbers are left out: nothing depends on them.                  *)
(***************************************************************************)
EXTENDS Integers

CONSTANTS Tabs,         \* browser tabs
          Codes,        \* account codes
          Typed,        \* amounts that are typed, any sign
          Opens,        \* a bound: the pages that each tab opens
          Start,        \* a bound: the chart of accounts a run begins with
          Begun,        \* a bound: the transactions a run begins with
          MaxAccount,   \* how many accounts are ever made
          MaxPosted,    \* how many transactions are ever posted
          MaxCalls      \* how many requests are ever sent

Cash == "1010"
Equity == "3000"

Account == [id : 1..MaxAccount, code : Codes, active : BOOLEAN]
Asked == [id : 0..MaxAccount, code : Codes, active : BOOLEAN]

ASSUME LedgerAssumption ==
    /\ {Cash, Equity} \subseteq Codes
    /\ Typed \subseteq Int
    /\ Opens \in [Tabs -> SUBSET {"journals", "finance"}]
    /\ MaxAccount \in Nat /\ MaxPosted \in Nat /\ MaxCalls \in Nat
    /\ Start \subseteq Account
    /\ \A a, b \in Start : a.id = b.id \/ a.code = b.code => a = b
    /\ \E n \in 0..MaxAccount : {a.id : a \in Start} = 1..n

VARIABLES accounts,   \* LedgerAccount rows
          txns,       \* LedgerTransaction rows with their two entries
          tab,        \* what each tab shows
          calls,      \* requests under way
          made,       \* the greatest key given to an account
          posted,     \* the greatest key given to a transaction
          sent        \* how many requests were sent

dbVars == <<accounts, txns, made, posted>>
vars == <<accounts, txns, tab, calls, made, posted, sent>>

Ids(rows) == {r.id : r \in rows}

\* A leg of a form; account 0 is the one the service adds, looked up by code.
Leg == [account : 0..MaxAccount, debit : Int, credit : Int]
Entry == [account : 1..MaxAccount, side : {"debit", "credit"}, amount : Int]
Transaction == [id : 1..MaxPosted, from : Entry, to : Entry]

ASSUME BegunAssumption ==
    \A begun \in Begun :
        /\ begun \subseteq Transaction
        /\ \E n \in 0..MaxPosted : {x.id : x \in begun} = 1..n
        /\ \A x, y \in begun : x.id = y.id => x = y
        /\ \A x \in begun :
             /\ {x.from.account, x.to.account} \subseteq {a.id : a \in Start}
             /\ {x.from.side, x.to.side} = {"debit", "credit"}
             /\ x.from.amount = x.to.amount /\ x.from.amount > 0

Forms == {"general", "forward", "income"}
Ops == Forms \cup {"void", "create", "delete", "toggle"}

\* waited: the page still waits for the answer.  mine: the form it was sent from
\* has not been cleared since.
Call == [n : 1..MaxCalls, tab : Tabs, op : Ops, waited : BOOLEAN, mine : BOOLEAN,
         txn : 0..MaxPosted, row : Asked, from : Leg, to : Leg,
         stage : {"sent", "read", "ok", "refused", "used"}]

\* posted: the transactions that what is in a form was posted as.  told: whether
\* the page has shown how one of its postings ended.
Tab == [page : {"journals", "finance"}, chart : SUBSET Account,
        journal : SUBSET (1..MaxPosted),
        dialog : {"none", "income", "void", "account", "add"},
        row : Asked, txn : 0..MaxPosted, offered : BOOLEAN, toggling : 0..MaxAccount,
        posted : [Forms -> 0..MaxPosted], told : [Forms -> BOOLEAN],
        timers : 0..MaxCalls]

NoRow == [id |-> 0, code |-> Cash, active |-> FALSE]
NoLeg == [account |-> 0, debit |-> 0, credit |-> 0]

\* The journal desk only displays its list.
Journal(page) == IF page = "finance" THEN Ids(txns) ELSE {}

Page(page) ==
    [page |-> page, chart |-> accounts, journal |-> Journal(page),
     dialog |-> "none", row |-> NoRow, txn |-> 0, offered |-> FALSE, toggling |-> 0,
     posted |-> [f \in Forms |-> 0], told |-> [f \in Forms |-> FALSE], timers |-> 0]

Waiting(t, ops) == \E c \in calls : c.tab = t /\ c.op \in ops /\ c.waited

Show(t, new) == tab' = [tab EXCEPT ![t] = new] /\ UNCHANGED <<calls, sent, dbVars>>

New(t, op) == [n |-> sent + 1, tab |-> t, op |-> op, waited |-> TRUE, mine |-> TRUE,
               txn |-> 0, row |-> NoRow, from |-> NoLeg, to |-> NoLeg, stage |-> "sent"]

Send(c) ==
    /\ sent < MaxCalls
    /\ sent' = sent + 1 /\ calls' = calls \cup {c}
    /\ UNCHANGED dbVars

-----------------------------------------------------------------------------
\* The pages

\* A page that is left waits for nothing, and its timers do nothing.
Visit(t) ==
    /\ \E page \in Opens[t] : tab' = [tab EXCEPT ![t] = Page(page)]
    /\ calls' = {IF c.tab = t THEN [c EXCEPT !.waited = FALSE, !.mine = FALSE] ELSE c :
                   c \in calls}
    /\ UNCHANGED <<sent, dbVars>>

\* The lists are loaded with the page, after a change and on demand.
Load(t) ==
    Show(t, [tab[t] EXCEPT !.chart = accounts, !.journal = Journal(tab[t].page)])

\* A form is emptied: what was sent from it before is no longer what it holds.
Clear(t, form, new, open) ==
    /\ tab' = [tab EXCEPT ![t] = [new EXCEPT !.posted[form] = 0, !.told[form] = FALSE]]
    /\ calls' = {IF c.tab = t /\ c.op = form THEN [c EXCEPT !.mine = FALSE] ELSE c :
                   c \in open}

\* The journal desk: to type one side of a leg empties the other.

\* Fault: the other side stays.
Legs_BothSides(t) == [account : Ids(tab[t].chart), debit : Typed \cup {0}, credit : Typed \cup {0}]

Legs(t) ==
    {l \in [account : Ids(tab[t].chart), debit : Typed \cup {0}, credit : Typed \cup {0}] :
       l.debit = 0 \/ l.credit = 0}

Balanced(from, to) ==
    /\ from.debit + to.debit > 0
    /\ from.debit + to.debit = from.credit + to.credit

Desk(t) == tab[t].page = "journals" /\ ~Waiting(t, {"general", "forward"})

\* Fault: the button works while an entry is being saved.
SubmitGeneral_Twice(t) ==
    /\ tab[t].page = "journals"
    /\ \E from, to \in Legs(t) :
         /\ Balanced(from, to)
         /\ Send([New(t, "general") EXCEPT !.from = from, !.to = to])
    /\ UNCHANGED tab

SubmitGeneral(t) ==
    /\ Desk(t)
    /\ \E from, to \in Legs(t) :
         /\ Balanced(from, to)
         /\ Send([New(t, "general") EXCEPT !.from = from, !.to = to])
    /\ UNCHANGED tab

\* The service adds the equity account on the other side.
Opposite(l) ==
    IF l.debit > 0 THEN [account |-> 0, debit |-> 0, credit |-> l.debit]
                   ELSE [account |-> 0, debit |-> l.credit, credit |-> 0]

SubmitForward(t) ==
    /\ Desk(t)
    /\ \E l \in Legs(t) :
         /\ l.debit > 0 \/ l.credit > 0
         /\ Send([New(t, "forward") EXCEPT !.from = l, !.to = Opposite(l)])
    /\ UNCHANGED tab

\* The button is there while an entry is being saved, too.
ResetForm(t) ==
    /\ tab[t].page = "journals"
    /\ Clear(t, "general", tab[t], calls)
    /\ UNCHANGED <<sent, dbVars>>

\* The finance page: a dialog that waits is not closed, an icon needs no dialog.
Finance(t) == tab[t].page = "finance" /\ tab[t].dialog = "none"

OpenIncome(t) == Finance(t) /\ Show(t, [tab[t] EXCEPT !.dialog = "income"])
OpenAdd(t) == Finance(t) /\ Show(t, [tab[t] EXCEPT !.dialog = "add"])

OpenVoid(t) ==
    /\ Finance(t)
    /\ \E x \in tab[t].journal : Show(t, [tab[t] EXCEPT !.dialog = "void", !.txn = x])

OpenAccount(t) ==
    /\ Finance(t)
    /\ \E a \in tab[t].chart : Show(t, [tab[t] EXCEPT !.dialog = "account", !.row = a])

NoDialog(new) == [new EXCEPT !.dialog = "none", !.row = NoRow, !.txn = 0, !.offered = FALSE]

Behind(dialog) == CASE dialog = "income" -> "income" [] dialog = "void" -> "void"
                    [] dialog = "account" -> "delete" [] dialog = "add" -> "create"

In(t, dialog) == tab[t].dialog = dialog /\ ~Waiting(t, {Behind(dialog)})

Cancel(t) ==
    /\ \E dialog \in {"income", "void", "account", "add"} : In(t, dialog)
    /\ Show(t, NoDialog(tab[t]))

\* Any account but cash is credited, with any amount; cash is debited.
PostIncome(t) ==
    /\ In(t, "income")
    /\ \E a \in tab[t].chart, n \in Typed :
         /\ a.code # Cash
         /\ Send([New(t, "income") EXCEPT
                    !.from = [account |-> 0, debit |-> n, credit |-> 0],
                    !.to = [account |-> a.id, debit |-> 0, credit |-> n]])
    /\ UNCHANGED tab

\* The dialog closes a second after success and its form is emptied, whatever was
\* opened or sent in that second.
IncomeTimer(t) ==
    /\ tab[t].timers > 0
    /\ Clear(t, "income", [tab[t] EXCEPT !.timers = @ - 1,
                             !.dialog = IF @ = "income" THEN "none" ELSE @], calls)
    /\ UNCHANGED <<sent, dbVars>>

ConfirmVoid(t) ==
    /\ In(t, "void")
    /\ Send([New(t, "void") EXCEPT !.txn = tab[t].txn])
    /\ UNCHANGED tab

ConfirmDelete(t) ==
    /\ In(t, "account") /\ ~tab[t].offered
    /\ Send([New(t, "delete") EXCEPT !.row = tab[t].row])
    /\ UNCHANGED tab

SubmitAdd(t) ==
    /\ In(t, "add")
    /\ \E code \in Codes, active \in BOOLEAN :
         Send([New(t, "create") EXCEPT !.row = [id |-> 0, code |-> code, active |-> active]])
    /\ UNCHANGED tab

\* The state shown is turned round, also by the button that offers to mark an
\* account inactive.
SendToggle(t, a, new) ==
    /\ Send([New(t, "toggle") EXCEPT !.row = [a EXCEPT !.active = ~@]])
    /\ tab' = [tab EXCEPT ![t] = [new EXCEPT !.toggling = a.id]]

Toggle(t) ==
    /\ Finance(t)
    /\ \E a \in tab[t].chart : tab[t].toggling # a.id /\ SendToggle(t, a, tab[t])

MarkInactive(t) ==
    /\ In(t, "account") /\ tab[t].offered
    /\ SendToggle(t, tab[t].row, NoDialog(tab[t]))

-----------------------------------------------------------------------------
\* The service

\* What becomes of a request: an answer, where one is waited for.
Becomes(c, new) == calls' = (calls \ {c}) \cup {new}
Ends(c, stage) ==
    calls' = (calls \ {c}) \cup
        (IF c.waited THEN {[c EXCEPT !.stage = stage, !.txn = 0, !.row = NoRow,
                                     !.from = NoLeg, !.to = NoLeg]} ELSE {})

Named(c) == {l.account : l \in {c.from, c.to}} \ {0}
Used(id) == \E x \in txns : id \in {x.from.account, x.to.account}
OneSide(l) == (l.debit > 0) # (l.credit > 0)

\* The accounts of a posting exist, each leg has an amount on one side, and the
\* sides have the same total.  (An id that is gone is tried as a code and a name;
\* here no id is a code.)
ReadPosting(c) ==
    /\ c.stage = "sent" /\ c.op \in Forms
    /\ Named(c) \subseteq Ids(accounts)
    /\ OneSide(c.from) /\ OneSide(c.to)
    /\ c.from.debit + c.to.debit = c.from.credit + c.to.credit
    /\ Becomes(c, [c EXCEPT !.stage = "read"])
    /\ UNCHANGED <<tab, sent, dbVars>>

ReadVoid(c) ==
    /\ c.stage = "sent" /\ c.op = "void"
    /\ \E x \in txns : x.id = c.txn
    /\ Becomes(c, [c EXCEPT !.stage = "read"])
    /\ UNCHANGED <<tab, sent, dbVars>>

ReadDelete(c) ==
    /\ c.stage = "sent" /\ c.op = "delete"
    /\ c.row.id \in Ids(accounts)
    /\ IF Used(c.row.id) THEN Ends(c, "used") ELSE Becomes(c, [c EXCEPT !.stage = "read"])
    /\ UNCHANGED <<tab, sent, dbVars>>

\* The whole row is read, and the state asked for is put into it.
ReadToggle(c) ==
    /\ c.stage = "sent" /\ c.op = "toggle"
    /\ \E a \in accounts :
         /\ a.id = c.row.id
         /\ Becomes(c, [c EXCEPT !.stage = "read", !.row = [a EXCEPT !.active = c.row.active]])
    /\ UNCHANGED <<tab, sent, dbVars>>

Taken(code) == \E a \in accounts : a.code = code

\* Cash and equity are made when they are first needed.
Contra(form) == IF form = "income" THEN Cash ELSE Equity

Ensured(c) ==
    IF c.op = "general" \/ Taken(Contra(c.op)) THEN accounts
    ELSE accounts \cup {[id |-> made + 1, code |-> Contra(c.op), active |-> TRUE]}

EntryOf(l, contra) ==
    [account |-> IF l.account = 0 THEN contra ELSE l.account,
     side |-> IF l.debit > 0 THEN "debit" ELSE "credit",
     amount |-> IF l.debit > 0 THEN l.debit ELSE l.credit]

\* A posting counts for the form that still holds it.
Counted(c) ==
    IF c.mine THEN [tab EXCEPT ![c.tab].posted[c.op] = @ + 1] ELSE tab

\* The header and both entries; an entry refers to an account that is there.
PostEntries(c) ==
    /\ c.stage = "read" /\ c.op \in Forms
    /\ posted < MaxPosted /\ (Ensured(c) # accounts => made < MaxAccount)
    /\ Named(c) \subseteq Ids(accounts)
    /\ accounts' = Ensured(c)
    /\ made' = IF Ensured(c) = accounts THEN made ELSE made + 1
    /\ posted' = posted + 1
    /\ \E contra \in accounts' :
         /\ c.op # "general" => contra.code = Contra(c.op)
         /\ txns' = txns \cup {[id |-> posted + 1, from |-> EntryOf(c.from, contra.id),
                                to |-> EntryOf(c.to, contra.id)]}
    /\ tab' = Counted(c)
    /\ Ends(c, "ok")
    /\ UNCHANGED sent

\* One that is gone by now is voided again without an error.
VoidEntries(c) ==
    /\ c.stage = "read" /\ c.op = "void"
    /\ txns' = {x \in txns : x.id # c.txn}
    /\ Ends(c, "ok")
    /\ UNCHANGED <<accounts, made, posted, tab, sent>>

CreateAccount(c) ==
    /\ c.stage = "sent" /\ c.op = "create"
    /\ made < MaxAccount /\ ~Taken(c.row.code)
    /\ made' = made + 1
    /\ accounts' = accounts \cup {[c.row EXCEPT !.id = made + 1]}
    /\ Ends(c, "ok")
    /\ UNCHANGED <<txns, posted, tab, sent>>

\* Fault: only the count that was read protects the account.
DeleteAccount_Unprotected(c) ==
    /\ c.stage = "read" /\ c.op = "delete"
    /\ accounts' = {a \in accounts : a.id # c.row.id}
    /\ Ends(c, "ok")
    /\ UNCHANGED <<txns, made, posted, tab, sent>>

\* Entries protect their account.
DeleteAccount(c) ==
    /\ c.stage = "read" /\ c.op = "delete"
    /\ ~Used(c.row.id)
    /\ accounts' = {a \in accounts : a.id # c.row.id}
    /\ Ends(c, "ok")
    /\ UNCHANGED <<txns, made, posted, tab, sent>>

\* Every column is written, and a row deleted meanwhile is inserted again.
SaveAccount(c) ==
    LET others == {a \in accounts : a.id # c.row.id} IN
    /\ c.stage = "read" /\ c.op = "toggle"
    /\ \A a \in others : a.code # c.row.code
    /\ accounts' = others \cup {c.row}
    /\ Ends(c, "ok")
    /\ UNCHANGED <<txns, made, posted, tab, sent>>

\* A check fails, a key is violated, or the worker dies: nothing is written.
Refuse(c) ==
    /\ c.stage \in {"sent", "read"}
    /\ Ends(c, "refused")
    /\ UNCHANGED <<tab, sent, dbVars>>

-----------------------------------------------------------------------------
\* The answers

Done(c, stages, new) ==
    /\ c.stage \in stages /\ c.waited
    /\ calls' = calls \ {c}
    /\ tab' = [tab EXCEPT ![c.tab] = new]
    /\ UNCHANGED <<sent, dbVars>>

Told(c) == [tab[c.tab] EXCEPT !.told[c.op] = TRUE]

\* The next voucher number is read before the form is emptied.
JournalSaved(c) ==
    /\ c.op \in {"general", "forward"} /\ c.stage = "ok" /\ c.waited
    /\ Clear(c.tab, c.op, tab[c.tab], calls \ {c})
    /\ UNCHANGED <<sent, dbVars>>

\* Where that fails, a failure is shown and the form kept, though it was posted.
JournalFailed(c) ==
    /\ c.op \in {"general", "forward"}
    /\ Done(c, {"ok", "refused"}, Told(c))

IncomePosted(c) ==
    /\ c.op = "income" /\ tab[c.tab].timers < MaxCalls
    /\ Done(c, {"ok"}, [Told(c) EXCEPT !.timers = @ + 1])

IncomeFailed(c) == c.op = "income" /\ Done(c, {"refused"}, Told(c))

DialogDone(c) ==
    /\ c.op \in {"void", "delete", "create"}
    /\ Done(c, {"ok"}, NoDialog(tab[c.tab]))

DialogFailed(c) ==
    /\ c.op \in {"void", "delete", "create"}
    /\ Done(c, {"refused", "used"}, [tab[c.tab] EXCEPT !.offered = c.stage = "used"])

ToggleDone(c) ==
    /\ c.op = "toggle"
    /\ Done(c, {"ok", "refused"}, [tab[c.tab] EXCEPT !.toggling = 0])

\* The connection breaks: the page shows a failure, and the service goes on.
Lost(c) ==
    /\ c.waited
    /\ calls' = (calls \ {c}) \cup
         (IF c.stage \in {"sent", "read"} THEN {[c EXCEPT !.waited = FALSE]} ELSE {})
    /\ tab' = [tab EXCEPT ![c.tab] =
                 IF c.op \in Forms THEN Told(c)
                 ELSE IF c.op = "toggle" THEN [@ EXCEPT !.toggling = 0]
                 ELSE [@ EXCEPT !.offered = FALSE]]
    /\ UNCHANGED <<sent, dbVars>>

-----------------------------------------------------------------------------
Init ==
    /\ accounts = Start /\ made \in 0..MaxAccount /\ Ids(Start) = 1..made
    /\ txns \in Begun /\ posted \in 0..MaxPosted /\ Ids(txns) = 1..posted
    /\ sent = 0 /\ calls = {}
    /\ tab \in [Tabs -> {Page("journals"), Page("finance")}]
    /\ \A t \in Tabs : tab[t].page \in Opens[t]

AtPage(t) ==
    \/ Visit(t) \/ Load(t)
    \/ SubmitGeneral(t) \/ SubmitForward(t) \/ ResetForm(t)
    \/ OpenIncome(t) \/ OpenAdd(t) \/ OpenVoid(t) \/ OpenAccount(t) \/ Cancel(t)
    \/ PostIncome(t) \/ IncomeTimer(t) \/ ConfirmVoid(t) \/ ConfirmDelete(t)
    \/ SubmitAdd(t) \/ Toggle(t) \/ MarkInactive(t)

Serve(c) ==
    \/ ReadPosting(c) \/ ReadVoid(c) \/ ReadDelete(c) \/ ReadToggle(c)
    \/ PostEntries(c) \/ VoidEntries(c) \/ CreateAccount(c)
    \/ DeleteAccount(c) \/ SaveAccount(c) \/ Refuse(c)

Receive(c) ==
    \/ JournalSaved(c) \/ JournalFailed(c) \/ IncomePosted(c) \/ IncomeFailed(c)
    \/ DialogDone(c) \/ DialogFailed(c) \/ ToggleDone(c) \/ Lost(c)

Next ==
    \/ \E t \in Tabs : AtPage(t)
    \/ \E c \in calls : Serve(c) \/ Receive(c)

Spec == Init /\ [][Next]_vars

-----------------------------------------------------------------------------
\* Properties

\* Keys and codes of the chart are unique, and no key is above the last given.
TypeOK ==
    /\ accounts \subseteq Account /\ txns \subseteq Transaction
    /\ tab \in [Tabs -> Tab] /\ calls \subseteq Call
    /\ made \in 0..MaxAccount /\ posted \in 0..MaxPosted /\ sent \in 0..MaxCalls
    /\ \A a, b \in accounts : a.id = b.id \/ a.code = b.code => a = b
    /\ \A a \in accounts : a.id <= made
    /\ \A x, y \in txns : x.id = y.id => x = y

\* Every transaction debits one entry and credits the other with the same amount
\* (models/ledger.py: "Debits must equal Credits for every transaction").  The
\* service compares totals that negative amounts may enter; that no leg has two
\* sides is left to the forms.
JournalsBalance ==
    \A x \in txns :
        /\ {x.from.side, x.to.side} = {"debit", "credit"}
        /\ x.from.amount = x.to.amount /\ x.from.amount > 0

\* No entry is left without its account, however deletions, postings and the
\* late save of a toggled account come one after another.
EntriesHaveAccounts ==
    \A x \in txns : {x.from.account, x.to.account} \subseteq Ids(accounts)

\* What is in a form is posted a second time only after the page showed how a
\* posting of it ended: a success that is still on display, or a failure, which
\* may be wrong.  Double clicks, a form that was reset while it is saved, late
\* timers and pages left meanwhile never post it twice.
PostedTwiceIfTold ==
    \A t \in Tabs, f \in Forms : tab[t].posted[f] > 1 => tab[t].told[f]
=============================================================================
