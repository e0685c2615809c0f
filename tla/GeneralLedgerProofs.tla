------------------------- MODULE GeneralLedgerProofs -------------------------
(***************************************************************************)
(* For any number of tabs, accounts, amounts and requests: the ledger      *)
(* keeps its types, every transaction balances, every entry keeps its      *)
(* account, and what is in a form is posted again only after the page has  *)
(* told how a posting of it ended.                                         *)
(*                                                                         *)
(* The first three need to know of a request that its legs have one side   *)
(* each, as the forms leave them, and that an account to be saved is one   *)
(* whose key was given out.  The last one needs to know which requests a   *)
(* page still waits for.                                                   *)
(***************************************************************************)
EXTENDS GeneralLedger, TLAPS

Exclusive(l) == l.debit = 0 \/ l.credit = 0

Checked(c) ==
    /\ OneSide(c.from) /\ OneSide(c.to)
    /\ c.from.debit + c.to.debit = c.from.credit + c.to.credit

GoodCall(c, m) ==
    /\ c \in Call
    /\ Exclusive(c.from) /\ Exclusive(c.to)
    /\ c.stage = "read" /\ c.op \in Forms => Checked(c)
    /\ c.op = "toggle" /\ c.stage \in {"sent", "read"} => c.row.id \in 1..m

GoodTab(r, m, p) ==
    /\ r \in Tab
    /\ \A a \in r.chart : a.id \in 1..m
    /\ r.dialog = "account" => r.row.id \in 1..m
    /\ \A f \in Forms : r.posted[f] <= p

ChartInv ==
    /\ accounts \subseteq Account /\ made \in 0..MaxAccount
    /\ \A a, b \in accounts : a.id = b.id \/ a.code = b.code => a = b
    /\ \A a \in accounts : a.id \in 1..made

BookInv ==
    /\ txns \subseteq Transaction /\ posted \in 0..MaxPosted
    /\ \A x, y \in txns : x.id = y.id => x = y
    /\ \A x \in txns : x.id <= posted
    /\ JournalsBalance /\ EntriesHaveAccounts

ScreenInv ==
    /\ tab \in [Tabs -> Tab] /\ sent \in 0..MaxCalls
    /\ \A c \in calls : GoodCall(c, made)
    /\ \A t \in Tabs : GoodTab(tab[t], made, posted)

LedgerInv == ChartInv /\ BookInv /\ ScreenInv

-----------------------------------------------------------------------------
\* Steps of the pages

LEMMA Numbers ==
    /\ MaxAccount \in Nat /\ MaxPosted \in Nat /\ MaxCalls \in Nat
    /\ Typed \subseteq Int /\ Cash \in Codes /\ Equity \in Codes
  BY LedgerAssumption

LEMMA BlankRow == NoRow \in Asked /\ NoLeg \in Leg /\ Exclusive(NoLeg)
  BY Numbers DEF NoRow, Asked, NoLeg, Leg, Exclusive

\* A step that leaves the database alone, and the screens and requests good.
LEMMA ScreenStep ==
    ASSUME LedgerInv, UNCHANGED dbVars, sent' \in 0..MaxCalls,
           \A c \in calls' : GoodCall(c, made),
           NEW t \in Tabs, NEW r, GoodTab(r, made, posted),
           tab' = [tab EXCEPT ![t] = r] \/ tab' = tab
    PROVE  LedgerInv'
<1>1. ChartInv' /\ BookInv'
  BY DEF LedgerInv, ChartInv, BookInv, dbVars, JournalsBalance, EntriesHaveAccounts
<1>2. ScreenInv'
  BY DEF LedgerInv, ScreenInv, GoodTab, dbVars
<1> QED
  BY <1>1, <1>2 DEF LedgerInv

LEMMA ShowStep ==
    ASSUME LedgerInv, NEW t \in Tabs, NEW r, GoodTab(r, made, posted), Show(t, r)
    PROVE  LedgerInv'
<1>1. (\A c \in calls' : GoodCall(c, made)) /\ sent' \in 0..MaxCalls
  BY DEF LedgerInv, ScreenInv, Show
<1> QED
  BY <1>1, ScreenStep DEF Show

LEMMA SendStep ==
    ASSUME LedgerInv, NEW t \in Tabs, NEW r, GoodTab(r, made, posted),
           tab' = [tab EXCEPT ![t] = r] \/ tab' = tab,
           NEW c, sent < MaxCalls => GoodCall(c, made), Send(c)
    PROVE  LedgerInv'
<1>1. sent' \in 0..MaxCalls /\ UNCHANGED dbVars
  BY Numbers DEF LedgerInv, ScreenInv, Send
<1>2. \A d \in calls' : GoodCall(d, made)
  BY DEF LedgerInv, ScreenInv, Send
<1> QED
  BY <1>1, <1>2, ScreenStep

LEMMA TabIsGood ==
    ASSUME LedgerInv, NEW t \in Tabs
    PROVE  tab[t] \in Tab /\ GoodTab(tab[t], made, posted)
  BY DEF LedgerInv, ScreenInv, GoodTab

\* Another flag of a request leaves it good.
LEMMA FlagsGood ==
    ASSUME NEW m, NEW c, GoodCall(c, m), NEW waited \in BOOLEAN, NEW mine \in BOOLEAN
    PROVE  GoodCall([c EXCEPT !.waited = waited, !.mine = mine], m)
  BY DEF GoodCall, Call, Checked

LEMMA FlagGood ==
    ASSUME NEW m, NEW c, GoodCall(c, m), NEW flag \in BOOLEAN
    PROVE  GoodCall([c EXCEPT !.mine = flag], m) /\ GoodCall([c EXCEPT !.waited = flag], m)
  BY DEF GoodCall, Call, Checked

\* A form that is emptied leaves its tab good.
LEMMA EmptiedGood ==
    ASSUME LedgerInv, NEW form \in Forms, NEW r, GoodTab(r, made, posted)
    PROVE  GoodTab([r EXCEPT !.posted[form] = 0, !.told[form] = FALSE], made, posted)
<1> DEFINE s == [r EXCEPT !.posted[form] = 0, !.told[form] = FALSE]
<1>1. posted \in Nat /\ 0 \in 0..MaxPosted
  BY Numbers DEF LedgerInv, BookInv
<1>2. s \in Tab
  BY <1>1 DEF GoodTab, Tab
<1>3. \A f \in Forms : s.posted[f] <= posted
  BY <1>1 DEF GoodTab, Tab
<1>4. s.chart = r.chart /\ s.dialog = r.dialog /\ s.row = r.row
  BY DEF GoodTab, Tab
<1> QED
  BY <1>2, <1>3, <1>4 DEF GoodTab

LEMMA ClearStep ==
    ASSUME LedgerInv, NEW t \in Tabs, NEW form \in Forms, NEW r, NEW open \in SUBSET calls,
           GoodTab(r, made, posted), Clear(t, form, r, open), UNCHANGED <<sent, dbVars>>
    PROVE  LedgerInv'
<1> DEFINE s == [r EXCEPT !.posted[form] = 0, !.told[form] = FALSE]
<1>1. GoodTab(s, made, posted)
  BY EmptiedGood
<1>2. \A c \in calls' : GoodCall(c, made)
  BY FlagGood DEF Clear, LedgerInv, ScreenInv
<1>3. sent' \in 0..MaxCalls /\ UNCHANGED dbVars /\ tab' = [tab EXCEPT ![t] = s]
  BY DEF LedgerInv, ScreenInv, Clear
<1> QED
  BY <1>1, <1>2, <1>3, ScreenStep

LEMMA PageGood ==
    ASSUME LedgerInv, NEW page \in {"journals", "finance"}
    PROVE  GoodTab(Page(page), made, posted)
<1>1. Ids(txns) \subseteq 1..MaxPosted /\ accounts \subseteq Account
  BY DEF LedgerInv, ChartInv, BookInv, Ids, Transaction
<1>2. Page(page) \in Tab
  BY <1>1, BlankRow, Numbers DEF Page, Tab, Journal
<1>3. posted \in Nat
  BY Numbers DEF LedgerInv, BookInv
<1> QED
  BY <1>2, <1>3 DEF GoodTab, Page, LedgerInv, ChartInv

\* A new request is good once it says what it is about.
LEMMA NewGood ==
    ASSUME LedgerInv, NEW t \in Tabs, NEW op \in Ops, sent < MaxCalls
    PROVE  /\ New(t, op) \in Call
           /\ op # "toggle" => GoodCall(New(t, op), made)
<1>1. sent + 1 \in 1..MaxCalls /\ 0 \in 0..MaxPosted
  BY Numbers DEF LedgerInv, ScreenInv
<1>2. New(t, op) \in Call
  BY <1>1, BlankRow DEF New, Call
<1> QED
  BY <1>2, BlankRow DEF New, GoodCall

LEMMA PostingGood ==
    ASSUME LedgerInv, NEW t \in Tabs, NEW op \in Forms, sent < MaxCalls,
           NEW from \in Leg, NEW to \in Leg, Exclusive(from), Exclusive(to)
    PROVE  GoodCall([New(t, op) EXCEPT !.from = from, !.to = to], made)
<1>1. op \in Ops /\ op # "toggle"
  BY DEF Forms, Ops
<1>2. New(t, op) \in Call
  BY <1>1, NewGood
<1>3. New(t, op).stage = "sent" /\ New(t, op).op = op
  BY DEF New
<1> QED
  BY <1>1, <1>2, <1>3 DEF GoodCall, Call

LEMMA LegsTyped ==
    ASSUME LedgerInv, NEW t \in Tabs, NEW l \in Legs(t)
    PROVE  l \in Leg /\ Exclusive(l)
<1>1. Ids(tab[t].chart) \subseteq 0..MaxAccount
  BY TabIsGood, Numbers DEF Ids, Tab, Account
<1>2. Typed \cup {0} \subseteq Int
  BY Numbers
<1>3. /\ l \in [account : Ids(tab[t].chart), debit : Typed \cup {0}, credit : Typed \cup {0}]
      /\ Exclusive(l)
  BY DEF Legs, Exclusive
<1>4. l \in Leg
  BY <1>1, <1>2, <1>3 DEF Leg
<1> QED
  BY <1>3, <1>4

LEMMA ClosedGood ==
    ASSUME LedgerInv, NEW r, GoodTab(r, made, posted)
    PROVE  GoodTab(NoDialog(r), made, posted)
<1> DEFINE s == NoDialog(r)
<1>1. 0 \in 0..MaxPosted /\ r \in Tab
  BY Numbers DEF GoodTab
<1>2. s \in Tab
  BY <1>1, BlankRow DEF NoDialog, Tab
<1>3. s.chart = r.chart /\ s.dialog = "none" /\ s.posted = r.posted
  BY <1>1 DEF NoDialog, Tab
<1> HIDE DEF s
<1>4. GoodTab(s, made, posted)
  BY <1>2, <1>3 DEF GoodTab
<1> QED
  BY <1>4 DEF s

LEMMA PageStep ==
    ASSUME LedgerInv, NEW t \in Tabs, AtPage(t)
    PROVE  LedgerInv'
<1> USE Numbers
<1>0. /\ tab[t] \in Tab /\ GoodTab(tab[t], made, posted)
      /\ \A a \in tab[t].chart : a \in Account /\ a.id \in 1..made
  BY TabIsGood DEF GoodTab, Tab
<1>1. CASE Visit(t)
  <2>1. PICK page \in Opens[t] : tab' = [tab EXCEPT ![t] = Page(page)]
    BY <1>1 DEF Visit
  <2>2. GoodTab(Page(page), made, posted)
    BY PageGood, LedgerAssumption
  <2>3. \A c \in calls' : GoodCall(c, made)
    BY <1>1, FlagsGood DEF Visit, LedgerInv, ScreenInv
  <2> QED
    BY <1>1, <2>1, <2>2, <2>3, ScreenStep DEF Visit, LedgerInv, ScreenInv
<1>2. CASE Load(t)
  <2> DEFINE r == [tab[t] EXCEPT !.chart = accounts, !.journal = Journal(tab[t].page)]
  <2>1. Journal(tab[t].page) \subseteq 1..MaxPosted /\ accounts \subseteq Account
    BY DEF LedgerInv, ChartInv, BookInv, Ids, Transaction, Journal
  <2>2. GoodTab(r, made, posted)
    BY <1>0, <2>1 DEF GoodTab, Tab, LedgerInv, ChartInv
  <2> QED
    BY <1>2, <2>2, ShowStep DEF Load
<1>3. CASE SubmitGeneral(t)
  <2>1. PICK from \in Legs(t), to \in Legs(t) :
          Send([New(t, "general") EXCEPT !.from = from, !.to = to])
    BY <1>3 DEF SubmitGeneral
  <2>2. sent < MaxCalls =>
          GoodCall([New(t, "general") EXCEPT !.from = from, !.to = to], made)
    BY LegsTyped, PostingGood DEF Forms
  <2> QED
    BY <1>0, <1>3, <2>1, <2>2, SendStep DEF SubmitGeneral
<1>4. CASE SubmitForward(t)
  <2>1. PICK l \in Legs(t) :
          Send([New(t, "forward") EXCEPT !.from = l, !.to = Opposite(l)])
    BY <1>4 DEF SubmitForward
  <2>2. l \in Leg /\ Exclusive(l)
    BY LegsTyped
  <2>3. Opposite(l) \in Leg /\ Exclusive(Opposite(l))
    BY <2>2 DEF Opposite, Leg, Exclusive
  <2>4. sent < MaxCalls =>
          GoodCall([New(t, "forward") EXCEPT !.from = l, !.to = Opposite(l)], made)
    BY <2>2, <2>3, PostingGood DEF Forms
  <2> QED
    BY <1>0, <1>4, <2>1, <2>4, SendStep DEF SubmitForward
<1>5. CASE ResetForm(t)
  BY <1>0, <1>5, ClearStep DEF ResetForm, Forms
<1>6. CASE OpenIncome(t) \/ OpenAdd(t) \/ OpenVoid(t) \/ OpenAccount(t) \/ Cancel(t)
  <2>1. CASE OpenIncome(t)
    <3>1. GoodTab([tab[t] EXCEPT !.dialog = "income"], made, posted)
      BY <1>0 DEF GoodTab, Tab
    <3> QED
      BY <2>1, <3>1, ShowStep DEF OpenIncome
  <2>2. CASE OpenAdd(t)
    <3>1. GoodTab([tab[t] EXCEPT !.dialog = "add"], made, posted)
      BY <1>0 DEF GoodTab, Tab
    <3> QED
      BY <2>2, <3>1, ShowStep DEF OpenAdd
  <2>3. CASE OpenVoid(t)
    <3>1. PICK x \in tab[t].journal : Show(t, [tab[t] EXCEPT !.dialog = "void", !.txn = x])
      BY <2>3 DEF OpenVoid
    <3>2. x \in 0..MaxPosted
      BY <1>0 DEF Tab
    <3>3. GoodTab([tab[t] EXCEPT !.dialog = "void", !.txn = x], made, posted)
      BY <1>0, <3>2 DEF GoodTab, Tab
    <3> QED
      BY <3>1, <3>3, ShowStep
  <2>4. CASE OpenAccount(t)
    <3>1. PICK a \in tab[t].chart : Show(t, [tab[t] EXCEPT !.dialog = "account", !.row = a])
      BY <2>4 DEF OpenAccount
    <3>2. a \in Asked /\ a.id \in 1..made
      BY <1>0 DEF Account, Asked
    <3>3. GoodTab([tab[t] EXCEPT !.dialog = "account", !.row = a], made, posted)
      BY <1>0, <3>2 DEF GoodTab, Tab
    <3> QED
      BY <3>1, <3>3, ShowStep
  <2>5. CASE Cancel(t)
    <3>1. GoodTab(NoDialog(tab[t]), made, posted)
      BY <1>0, ClosedGood
    <3> QED
      BY <2>5, <3>1, ShowStep DEF Cancel
  <2> QED
    BY <1>6, <2>1, <2>2, <2>3, <2>4, <2>5
<1>7. CASE PostIncome(t)
  <2> DEFINE debit(n) == [account |-> 0, debit |-> n, credit |-> 0]
             credit(a, n) == [account |-> a.id, debit |-> 0, credit |-> n]
  <2>1. PICK a \in tab[t].chart, n \in Typed :
          Send([New(t, "income") EXCEPT !.from = debit(n), !.to = credit(a, n)])
    BY <1>7 DEF PostIncome
  <2>2. n \in Int /\ 0 \in 0..MaxAccount /\ a.id \in 0..MaxAccount
    BY <1>0 DEF Account
  <2>3. /\ debit(n) \in Leg /\ Exclusive(debit(n))
        /\ credit(a, n) \in Leg /\ Exclusive(credit(a, n))
    BY <2>2 DEF Leg, Exclusive
  <2> HIDE DEF debit, credit
  <2>4. sent < MaxCalls =>
          GoodCall([New(t, "income") EXCEPT !.from = debit(n), !.to = credit(a, n)], made)
    BY <2>3, PostingGood DEF Forms
  <2> QED
    BY <1>0, <1>7, <2>1, <2>4, SendStep DEF PostIncome
<1>8. CASE IncomeTimer(t)
  <2> DEFINE r == [tab[t] EXCEPT !.timers = @ - 1,
                     !.dialog = IF @ = "income" THEN "none" ELSE @]
  <2>1. tab[t].timers - 1 \in 0..MaxCalls
    BY <1>0, <1>8 DEF IncomeTimer, Tab
  <2>2. GoodTab(r, made, posted)
    BY <1>0, <2>1 DEF GoodTab, Tab
  <2> QED
    BY <1>8, <2>2, ClearStep DEF IncomeTimer, Forms
<1>9. CASE ConfirmVoid(t)
  <2> DEFINE c == [New(t, "void") EXCEPT !.txn = tab[t].txn]
  <2>1. sent < MaxCalls => GoodCall(c, made)
    BY <1>0, NewGood DEF GoodCall, Call, Tab, Ops, Checked, New, Forms
  <2> QED
    BY <1>0, <1>9, <2>1, SendStep DEF ConfirmVoid
<1>10. CASE ConfirmDelete(t)
  <2> DEFINE c == [New(t, "delete") EXCEPT !.row = tab[t].row]
  <2>1. sent < MaxCalls => GoodCall(c, made)
    BY <1>0, NewGood DEF GoodCall, Call, Tab, Ops, Checked, New, Forms
  <2> QED
    BY <1>0, <1>10, <2>1, SendStep DEF ConfirmDelete
<1>11. CASE SubmitAdd(t)
  <2>1. PICK code \in Codes, active \in BOOLEAN :
          Send([New(t, "create") EXCEPT !.row = [id |-> 0, code |-> code, active |-> active]])
    BY <1>11 DEF SubmitAdd
  <2> DEFINE row == [id |-> 0, code |-> code, active |-> active]
  <2>2. row \in Asked
    BY DEF Asked
  <2> HIDE DEF row
  <2>3. sent < MaxCalls => GoodCall([New(t, "create") EXCEPT !.row = row], made)
    BY <2>2, NewGood, BlankRow DEF GoodCall, Call, Ops, New
  <2> QED
    BY <1>0, <1>11, <2>1, <2>3, SendStep DEF SubmitAdd, row
<1>12. ASSUME NEW a \in Asked, a.id \in 1..made, NEW r, GoodTab(r, made, posted),
              SendToggle(t, a, r)
       PROVE  LedgerInv'
  <2> DEFINE row == [a EXCEPT !.active = ~@]
             new == [r EXCEPT !.toggling = a.id]
  <2>1. row \in Asked /\ row.id = a.id
    BY <1>12 DEF Asked
  <2>2. GoodTab(new, made, posted)
    BY <1>12 DEF GoodTab, Tab, Asked
  <2> HIDE DEF row
  <2>3. sent < MaxCalls => GoodCall([New(t, "toggle") EXCEPT !.row = row], made)
    BY <1>12, <2>1, NewGood, BlankRow DEF GoodCall, Call, Ops, New, Forms
  <2> QED
    BY <1>12, <2>2, <2>3, SendStep DEF SendToggle, row
<1>13. CASE Toggle(t)
  BY <1>0, <1>12, <1>13 DEF Toggle, Account, Asked
<1>14. CASE MarkInactive(t)
  <2>1. tab[t].row \in Asked /\ tab[t].row.id \in 1..made
    BY <1>0, <1>14 DEF MarkInactive, In, GoodTab, Tab
  <2>2. GoodTab(NoDialog(tab[t]), made, posted)
    BY <1>0, ClosedGood
  <2> QED
    BY <1>12, <1>14, <2>1, <2>2 DEF MarkInactive
<1> QED
  BY <1>1, <1>2, <1>3, <1>4, <1>5, <1>6, <1>7, <1>8, <1>9, <1>10, <1>11, <1>13, <1>14
     DEF AtPage

-----------------------------------------------------------------------------
\* Steps of the service

\* What a step that changes the database must leave behind.
LEMMA ServiceStep ==
    ASSUME LedgerInv, ChartInv', BookInv', made' \in Nat, made <= made',
           posted' \in Nat, posted <= posted', UNCHANGED sent,
           \A c \in calls' : GoodCall(c, made'),
           tab' \in [Tabs -> Tab],
           \A t \in Tabs : GoodTab(tab'[t], made', posted')
    PROVE  LedgerInv'
  BY DEF LedgerInv, ScreenInv

\* More keys and more transactions take nothing away.
LEMMA StillGood ==
    ASSUME NEW m \in Nat, NEW m2 \in Nat, m <= m2
    PROVE  /\ \A c : GoodCall(c, m) => GoodCall(c, m2)
           /\ \A r : \A p \in Nat, p2 \in Nat :
                GoodTab(r, m, p) /\ p <= p2 => GoodTab(r, m2, p2)
<1>1. \A c : GoodCall(c, m) => GoodCall(c, m2)
  BY DEF GoodCall
<1>2. ASSUME NEW r, NEW p \in Nat, NEW p2 \in Nat, GoodTab(r, m, p), p <= p2
      PROVE  GoodTab(r, m2, p2)
  <2>1. \A f \in Forms : r.posted[f] \in Nat
    BY <1>2, Numbers DEF GoodTab, Tab
  <2> QED
    BY <1>2, <2>1 DEF GoodTab
<1> QED
  BY <1>1, <1>2

\* The request that is served goes on as another, or ends with an answer.
LEMMA BecomesGood ==
    ASSUME LedgerInv, NEW c \in calls, NEW d, GoodCall(d, made), Becomes(c, d)
    PROVE  \A e \in calls' : GoodCall(e, made)
  BY DEF LedgerInv, ScreenInv, Becomes

LEMMA EndsGood ==
    ASSUME LedgerInv, NEW c \in calls, NEW stage \in {"ok", "refused", "used"}, Ends(c, stage)
    PROVE  \A e \in calls' : GoodCall(e, made)
<1> DEFINE d == [c EXCEPT !.stage = stage, !.txn = 0, !.row = NoRow,
                          !.from = NoLeg, !.to = NoLeg]
<1>1. GoodCall(c, made) /\ c \in Call /\ 0 \in 0..MaxPosted
  BY Numbers DEF LedgerInv, ScreenInv, GoodCall
<1>2. d \in Call
  BY <1>1, BlankRow DEF Call
<1>3. d.stage = stage /\ d.from = NoLeg /\ d.to = NoLeg
  BY <1>1 DEF Call
<1>4. GoodCall(d, made)
  BY <1>2, <1>3, BlankRow DEF GoodCall
<1> QED
  BY <1>4 DEF LedgerInv, ScreenInv, Ends

\* A step of the service that writes nothing.
LEMMA QuietStep ==
    ASSUME LedgerInv, UNCHANGED <<tab, sent, dbVars>>,
           \A e \in calls' : GoodCall(e, made)
    PROVE  LedgerInv'
<1>1. ChartInv' /\ BookInv'
  BY DEF LedgerInv, ChartInv, BookInv, dbVars, JournalsBalance, EntriesHaveAccounts
<1>2. ScreenInv'
  BY DEF LedgerInv, ScreenInv, GoodTab, dbVars
<1> QED
  BY <1>1, <1>2 DEF LedgerInv

LEMMA ReadStep ==
    ASSUME LedgerInv, NEW c \in calls,
           ReadPosting(c) \/ ReadVoid(c) \/ ReadDelete(c) \/ ReadToggle(c) \/ Refuse(c)
    PROVE  LedgerInv'
<1>0. GoodCall(c, made) /\ c \in Call
  BY DEF LedgerInv, ScreenInv, GoodCall
<1> DEFINE read == [c EXCEPT !.stage = "read"]
<1>1. CASE ReadPosting(c)
  <2>1. GoodCall(read, made)
    BY <1>0, <1>1 DEF ReadPosting, GoodCall, Call, Checked, Forms
  <2> QED
    BY <1>1, <2>1, BecomesGood, QuietStep DEF ReadPosting
<1>2. CASE ReadVoid(c)
  <2>1. GoodCall(read, made)
    BY <1>0, <1>2 DEF ReadVoid, GoodCall, Call, Forms
  <2> QED
    BY <1>2, <2>1, BecomesGood, QuietStep DEF ReadVoid
<1>3. CASE ReadDelete(c)
  <2>1. GoodCall(read, made)
    BY <1>0, <1>3 DEF ReadDelete, GoodCall, Call, Forms
  <2> QED
    BY <1>3, <2>1, BecomesGood, EndsGood, QuietStep DEF ReadDelete
<1>4. CASE ReadToggle(c)
  <2>1. PICK a \in accounts :
          /\ a.id = c.row.id
          /\ Becomes(c, [c EXCEPT !.stage = "read", !.row = [a EXCEPT !.active = c.row.active]])
    BY <1>4 DEF ReadToggle
  <2> DEFINE row == [a EXCEPT !.active = c.row.active]
  <2>2. a \in Account /\ a.id \in 1..made /\ c.row.active \in BOOLEAN
    BY <1>0 DEF LedgerInv, ChartInv, Call, Asked
  <2>3. row \in Asked /\ row.id \in 1..made
    BY <2>2 DEF Account, Asked
  <2> HIDE DEF row
  <2>4. GoodCall([c EXCEPT !.stage = "read", !.row = row], made)
    BY <1>0, <1>4, <2>3 DEF ReadToggle, GoodCall, Call, Forms
  <2> QED
    BY <1>4, <2>1, <2>4, BecomesGood, QuietStep DEF ReadToggle, row
<1>5. CASE Refuse(c)
  BY <1>5, EndsGood, QuietStep DEF Refuse
<1> QED
  BY <1>1, <1>2, <1>3, <1>4, <1>5

\* A chart that leaves out no account in use, with the books as they were.
LEMMA ChartStep ==
    ASSUME LedgerInv, ChartInv', made <= made', NEW c \in calls, Ends(c, "ok"),
           UNCHANGED <<txns, posted, tab, sent>>,
           \A id \in Ids(accounts) : Used(id) => id \in Ids(accounts')
    PROVE  LedgerInv'
<1>1. made \in Nat /\ made' \in Nat /\ posted \in Nat
  BY Numbers DEF LedgerInv, ChartInv, BookInv
<1>2. BookInv'
  BY DEF LedgerInv, BookInv, JournalsBalance, EntriesHaveAccounts, Used
<1>3. \A e \in calls' : GoodCall(e, made')
  BY <1>1, EndsGood, StillGood
<1>4. tab' \in [Tabs -> Tab] /\ \A t \in Tabs : GoodTab(tab'[t], made', posted')
  BY <1>1, StillGood DEF LedgerInv, ScreenInv
<1> QED
  BY <1>1, <1>2, <1>3, <1>4, ServiceStep

LEMMA AccountStep ==
    ASSUME LedgerInv, NEW c \in calls, CreateAccount(c) \/ DeleteAccount(c) \/ SaveAccount(c)
    PROVE  LedgerInv'
<1>0. /\ GoodCall(c, made) /\ c \in Call /\ c.row \in Asked
      /\ made \in 0..MaxAccount /\ made \in Nat
      /\ \A a \in accounts : a \in Account /\ a.id \in 1..made
      /\ \A a, b \in accounts : a.id = b.id \/ a.code = b.code => a = b
  BY Numbers DEF LedgerInv, ScreenInv, ChartInv, GoodCall, Call
<1>1. CASE CreateAccount(c)
  <2> DEFINE new == [c.row EXCEPT !.id = made + 1]
  <2>1. made' = made + 1 /\ made' \in 0..MaxAccount /\ accounts' = accounts \cup {new}
    BY <1>0, <1>1, Numbers DEF CreateAccount
  <2>2. new \in Account /\ new.id = made' /\ new.code = c.row.code
    BY <1>0, <2>1, Numbers DEF Asked, Account
  <2>3. \A a \in accounts : a.id # new.id /\ a.code # new.code
    BY <1>0, <1>1, <2>1, <2>2 DEF CreateAccount, Taken
  <2> HIDE DEF new
  <2>4. ChartInv'
    BY <1>0, <2>1, <2>2, <2>3 DEF ChartInv
  <2> QED
    BY <1>0, <1>1, <2>1, <2>4, ChartStep DEF CreateAccount, Ids
<1>2. CASE DeleteAccount(c)
  <2>1. ChartInv' /\ made' = made
    BY <1>0, <1>2 DEF DeleteAccount, ChartInv
  <2> QED
    BY <1>0, <1>2, <2>1, ChartStep DEF DeleteAccount, Ids
<1>3. CASE SaveAccount(c)
  <2> DEFINE others == {a \in accounts : a.id # c.row.id}
  <2>1. /\ accounts' = others \cup {c.row} /\ made' = made
        /\ \A a \in others : a.code # c.row.code
    BY <1>3 DEF SaveAccount
  <2>2. c.row \in Account /\ c.row.id \in 1..made
    BY <1>0, <1>3 DEF SaveAccount, GoodCall, Asked, Account
  <2>3. ChartInv'
    BY <1>0, <2>1, <2>2 DEF ChartInv
  <2> QED
    BY <1>0, <1>3, <2>1, <2>3, ChartStep DEF SaveAccount, Ids
<1> QED
  BY <1>1, <1>2, <1>3

LEMMA VoidStep ==
    ASSUME LedgerInv, NEW c \in calls, VoidEntries(c)
    PROVE  LedgerInv'
<1>1. ChartInv' /\ BookInv'
  BY DEF LedgerInv, VoidEntries, ChartInv, BookInv, JournalsBalance, EntriesHaveAccounts
<1>2. made \in Nat /\ posted \in Nat
  BY Numbers DEF LedgerInv, ChartInv, BookInv
<1>3. \A e \in calls' : GoodCall(e, made')
  BY EndsGood DEF VoidEntries
<1>4. tab' \in [Tabs -> Tab] /\ \A t \in Tabs : GoodTab(tab'[t], made', posted')
  BY DEF LedgerInv, ScreenInv, VoidEntries
<1> QED
  BY <1>1, <1>2, <1>3, <1>4, ServiceStep DEF VoidEntries

\* The chart with the account the service makes for itself.
LEMMA EnsuredChart ==
    ASSUME LedgerInv, NEW c \in calls, PostEntries(c)
    PROVE  /\ ChartInv' /\ made' \in Nat /\ made <= made' /\ accounts \subseteq accounts'
<1>0. /\ made \in 0..MaxAccount /\ made \in Nat
      /\ \A a \in accounts : a \in Account /\ a.id \in 1..made
      /\ \A a, b \in accounts : a.id = b.id \/ a.code = b.code => a = b
  BY Numbers DEF LedgerInv, ChartInv
<1>1. CASE Ensured(c) = accounts
  BY <1>0, <1>1 DEF PostEntries, ChartInv
<1>2. CASE Ensured(c) # accounts
  <2> DEFINE new == [id |-> made + 1, code |-> Contra(c.op), active |-> TRUE]
  <2>1. /\ accounts' = accounts \cup {new} /\ ~Taken(Contra(c.op))
        /\ made' = made + 1 /\ made' \in 0..MaxAccount
    BY <1>0, <1>2, Numbers DEF PostEntries, Ensured
  <2>2. new \in Account /\ new.id = made' /\ new.code = Contra(c.op)
    BY <1>0, <2>1, Numbers DEF Account, Contra
  <2>3. \A a \in accounts : a.id # new.id /\ a.code # new.code
    BY <1>0, <2>1, <2>2 DEF Taken
  <2> HIDE DEF new
  <2>4. ChartInv'
    BY <1>0, <2>1, <2>2, <2>3 DEF ChartInv
  <2> QED
    BY <1>0, <2>1, <2>4
<1> QED
  BY <1>1, <1>2

\* Two legs with one side each and the same totals are a debit and a credit of
\* the same amount.
LEMMA LegsBalance ==
    ASSUME NEW from \in Leg, NEW to \in Leg, Exclusive(from), Exclusive(to),
           OneSide(from), OneSide(to),
           from.debit + to.debit = from.credit + to.credit,
           NEW id \in 1..MaxAccount
    PROVE  LET x == EntryOf(from, id)
               y == EntryOf(to, id)
           IN  /\ x \in Entry /\ y \in Entry
               /\ {x.side, y.side} = {"debit", "credit"}
               /\ x.amount = y.amount /\ x.amount > 0
<1> DEFINE x == EntryOf(from, id)
           y == EntryOf(to, id)
<1>1. /\ from.account \in 0..MaxAccount /\ to.account \in 0..MaxAccount
      /\ from.debit \in Int /\ from.credit \in Int
      /\ to.debit \in Int /\ to.credit \in Int
  BY DEF Leg
<1>2. x \in Entry /\ y \in Entry
  BY <1>1, Numbers DEF EntryOf, Entry
<1>3. \/ from.debit > 0 /\ from.credit = 0 /\ to.debit = 0 /\ to.credit = from.debit
      \/ from.debit = 0 /\ from.credit > 0 /\ to.credit = 0 /\ to.debit = from.credit
  BY <1>1 DEF Exclusive, OneSide
<1>4. \/ x.side = "debit" /\ y.side = "credit" /\ x.amount = y.amount /\ x.amount > 0
      \/ x.side = "credit" /\ y.side = "debit" /\ x.amount = y.amount /\ x.amount > 0
  BY <1>1, <1>3 DEF EntryOf
<1> HIDE DEF x, y
<1>5. {x.side, y.side} = {"debit", "credit"} /\ x.amount = y.amount /\ x.amount > 0
  BY <1>4
<1> QED
  BY <1>2, <1>5 DEF x, y

LEMMA PostStep ==
    ASSUME LedgerInv, NEW c \in calls, PostEntries(c)
    PROVE  LedgerInv'
<1>0. /\ GoodCall(c, made) /\ c \in Call /\ c.from \in Leg /\ c.to \in Leg
      /\ c.op \in Forms /\ c.stage = "read"
      /\ posted \in Nat /\ posted' = posted + 1 /\ posted' \in 0..MaxPosted
      /\ made \in Nat
  BY Numbers DEF LedgerInv, ScreenInv, ChartInv, BookInv, GoodCall, Call, PostEntries
<1>1. ChartInv' /\ made' \in Nat /\ made <= made' /\ accounts \subseteq accounts'
  BY EnsuredChart
<1>2. PICK contra \in accounts' :
        txns' = txns \cup {[id |-> posted + 1, from |-> EntryOf(c.from, contra.id),
                            to |-> EntryOf(c.to, contra.id)]}
  BY DEF PostEntries
<1> DEFINE x == EntryOf(c.from, contra.id)
           y == EntryOf(c.to, contra.id)
           new == [id |-> posted + 1, from |-> x, to |-> y]
<1>3. /\ x \in Entry /\ y \in Entry
      /\ {x.side, y.side} = {"debit", "credit"} /\ x.amount = y.amount /\ x.amount > 0
  <2>1. contra.id \in 1..MaxAccount
    BY <1>1 DEF ChartInv, Account
  <2>2. Exclusive(c.from) /\ Exclusive(c.to) /\ Checked(c)
    BY <1>0 DEF GoodCall
  <2> QED
    BY <1>0, <2>1, <2>2, LegsBalance DEF Checked
<1>4. x.account \in Ids(accounts') /\ y.account \in Ids(accounts')
  <2>1. Named(c) \subseteq Ids(accounts)
    BY DEF PostEntries
  <2>2. Ids(accounts) \subseteq Ids(accounts') /\ contra.id \in Ids(accounts')
    BY <1>1 DEF Ids
  <2>3. \A l \in {c.from, c.to} : l.account # 0 => l.account \in Ids(accounts')
    BY <2>1, <2>2 DEF Named
  <2> QED
    BY <2>2, <2>3 DEF EntryOf
<1> HIDE DEF x, y
<1>5. BookInv'
  <2>1. new \in Transaction /\ new.id = posted' /\ new.from = x /\ new.to = y
    BY <1>0, <1>3 DEF Transaction
  <2>2. /\ txns' = txns \cup {new} /\ txns \subseteq Transaction
        /\ \A z \in txns : z.id <= posted
        /\ \A z1, z2 \in txns : z1.id = z2.id => z1 = z2
    BY <1>2 DEF LedgerInv, BookInv, x, y
  <2> HIDE DEF new
  <2>3. txns' \subseteq Transaction /\ \A z \in txns : z.id \in Int
    BY <2>1, <2>2 DEF Transaction
  <2>4. /\ \A z1, z2 \in txns' : z1.id = z2.id => z1 = z2
        /\ \A z \in txns' : z.id <= posted'
    BY <1>0, <2>1, <2>2, <2>3
  <2>5. JournalsBalance'
    BY <1>3, <2>1, <2>2 DEF LedgerInv, BookInv, JournalsBalance
  <2>6. EntriesHaveAccounts'
    <3>1. Ids(accounts) \subseteq Ids(accounts')
      BY <1>1 DEF Ids
    <3> QED
      BY <1>4, <2>1, <2>2, <3>1 DEF LedgerInv, BookInv, EntriesHaveAccounts
  <2> QED
    BY <1>0, <2>3, <2>4, <2>5, <2>6 DEF BookInv
<1>6. \A e \in calls' : GoodCall(e, made')
  BY <1>0, <1>1, EndsGood, StillGood DEF PostEntries
<1>7. tab' \in [Tabs -> Tab] /\ \A t \in Tabs : GoodTab(tab'[t], made', posted')
  <2>1. \A t \in Tabs : GoodTab(tab[t], made', posted) /\ GoodTab(tab[t], made', posted')
    <3> TAKE t \in Tabs
    <3>1. GoodTab(tab[t], made, posted)
      BY TabIsGood
    <3>2. posted' \in Nat /\ posted <= posted /\ posted <= posted'
      BY <1>0
    <3> QED
      BY <1>0, <1>1, <3>1, <3>2, StillGood
  <2>2. CASE ~c.mine
    BY <2>1, <2>2 DEF PostEntries, Counted, LedgerInv, ScreenInv
  <2>3. CASE c.mine
    <3> DEFINE t == c.tab
               r == [tab[t] EXCEPT !.posted[c.op] = @ + 1]
    <3>1. t \in Tabs /\ tab[t] \in Tab /\ tab[t].posted \in [Forms -> 0..MaxPosted]
      BY <1>0 DEF Call, LedgerInv, ScreenInv, Tab
    <3>2. tab' = [tab EXCEPT ![t] = r]
      BY <2>3 DEF PostEntries, Counted
    <3>3. \A f \in Forms : tab[t].posted[f] \in Nat /\ tab[t].posted[f] <= posted
      BY <3>1, Numbers DEF LedgerInv, ScreenInv, GoodTab
    <3>4. tab[t].posted[c.op] + 1 \in 0..MaxPosted
      BY <1>0, <3>3, Numbers
    <3>5. /\ r \in Tab /\ \A f \in Forms : r.posted[f] <= posted'
          /\ r.chart = tab[t].chart /\ r.dialog = tab[t].dialog /\ r.row = tab[t].row
      BY <1>0, <3>1, <3>3, <3>4 DEF Tab
    <3> HIDE DEF r
    <3>6. GoodTab(r, made', posted')
      BY <2>1, <3>1, <3>5 DEF GoodTab
    <3> QED
      BY <2>1, <3>1, <3>2, <3>5, <3>6 DEF LedgerInv, ScreenInv
  <2> QED
    BY <2>2, <2>3
<1> QED
  BY <1>0, <1>1, <1>5, <1>6, <1>7, ServiceStep DEF PostEntries

-----------------------------------------------------------------------------
\* The answers

LEMMA DoneStep ==
    ASSUME LedgerInv, NEW c \in calls, NEW stages, NEW r, GoodTab(r, made, posted),
           Done(c, stages, r)
    PROVE  LedgerInv'
<1>1. c.tab \in Tabs
  BY DEF LedgerInv, ScreenInv, GoodCall, Call
<1>2. /\ \A e \in calls' : GoodCall(e, made)
      /\ sent' \in 0..MaxCalls /\ UNCHANGED dbVars /\ tab' = [tab EXCEPT ![c.tab] = r]
  BY DEF Done, LedgerInv, ScreenInv
<1> QED
  BY <1>1, <1>2, ScreenStep

\* What a page notes of an answer leaves it good.
LEMMA NotesGood ==
    ASSUME LedgerInv, NEW c \in calls
    PROVE  /\ c.tab \in Tabs /\ GoodTab(tab[c.tab], made, posted)
           /\ c.op \in Forms => GoodTab(Told(c), made, posted)
           /\ GoodTab([tab[c.tab] EXCEPT !.toggling = 0], made, posted)
           /\ \A offered \in BOOLEAN :
                GoodTab([tab[c.tab] EXCEPT !.offered = offered], made, posted)
<1>1. c.tab \in Tabs
  BY DEF LedgerInv, ScreenInv, GoodCall, Call
<1>2. tab[c.tab] \in Tab /\ GoodTab(tab[c.tab], made, posted)
  BY <1>1, TabIsGood
<1>3. c.op \in Forms => GoodTab(Told(c), made, posted)
  BY <1>2 DEF Told, GoodTab, Tab
<1>4. GoodTab([tab[c.tab] EXCEPT !.toggling = 0], made, posted)
  BY <1>2, Numbers DEF GoodTab, Tab
<1>5. \A offered \in BOOLEAN : GoodTab([tab[c.tab] EXCEPT !.offered = offered], made, posted)
  BY <1>2 DEF GoodTab, Tab
<1> QED
  BY <1>1, <1>2, <1>3, <1>4, <1>5

LEMMA AnswerStep ==
    ASSUME LedgerInv, NEW c \in calls, Receive(c)
    PROVE  LedgerInv'
<1>0. /\ c.tab \in Tabs /\ GoodTab(tab[c.tab], made, posted)
      /\ c.op \in Forms => GoodTab(Told(c), made, posted)
      /\ GoodTab([tab[c.tab] EXCEPT !.toggling = 0], made, posted)
      /\ \A offered \in BOOLEAN :
           GoodTab([tab[c.tab] EXCEPT !.offered = offered], made, posted)
  BY NotesGood
<1>1. CASE JournalSaved(c)
  <2>1. c.op \in Forms /\ calls \ {c} \in SUBSET calls
    BY <1>1 DEF JournalSaved, Forms
  <2> QED
    BY <1>0, <1>1, <2>1, ClearStep DEF JournalSaved
<1>2. CASE JournalFailed(c) \/ IncomeFailed(c)
  BY <1>0, <1>2, DoneStep DEF JournalFailed, IncomeFailed, Forms
<1>3. CASE IncomePosted(c)
  <2> DEFINE r == [Told(c) EXCEPT !.timers = @ + 1]
  <2>1. GoodTab(Told(c), made, posted)
    BY <1>0, <1>3 DEF IncomePosted, Forms
  <2>2. Told(c).timers = tab[c.tab].timers /\ tab[c.tab].timers < MaxCalls
    BY <1>0, <1>3 DEF IncomePosted, Told, GoodTab, Tab
  <2>3. GoodTab(r, made, posted)
    BY <2>1, <2>2, Numbers DEF GoodTab, Tab
  <2> QED
    BY <1>3, <2>3, DoneStep DEF IncomePosted
<1>4. CASE DialogDone(c)
  BY <1>0, <1>4, ClosedGood, DoneStep DEF DialogDone
<1>5. CASE DialogFailed(c)
  BY <1>0, <1>5, DoneStep DEF DialogFailed
<1>6. CASE ToggleDone(c)
  BY <1>0, <1>6, DoneStep DEF ToggleDone
<1>7. CASE Lost(c)
  <2>1. \A e \in calls' : GoodCall(e, made)
    BY <1>7, FlagGood DEF Lost, LedgerInv, ScreenInv
  <2>2. sent' \in 0..MaxCalls /\ UNCHANGED dbVars
    BY <1>7 DEF Lost, LedgerInv, ScreenInv
  <2>3. PICK r : GoodTab(r, made, posted) /\ tab' = [tab EXCEPT ![c.tab] = r]
    BY <1>0, <1>7 DEF Lost
  <2> QED
    BY <1>0, <2>1, <2>2, <2>3, ScreenStep
<1> QED
  BY <1>1, <1>2, <1>3, <1>4, <1>5, <1>6, <1>7 DEF Receive

-----------------------------------------------------------------------------
\* The behaviours

LEMMA LedgerStarts == Init => LedgerInv
<1> SUFFICES ASSUME Init PROVE LedgerInv
  OBVIOUS
<1>1. ChartInv
  <2>1. \A a \in accounts : a.id \in 1..made
    BY DEF Init, Ids
  <2> QED
    BY <2>1, LedgerAssumption DEF Init, ChartInv
<1>2. BookInv
  <2>1. \A x \in txns : x.id \in 1..posted
    BY DEF Init, Ids
  <2>2. posted \in 0..MaxPosted /\ posted \in Nat
    BY Numbers DEF Init
  <2>3. /\ txns \subseteq Transaction
        /\ \A x, y \in txns : x.id = y.id => x = y
        /\ JournalsBalance
    BY BegunAssumption DEF Init, JournalsBalance
  <2>4. EntriesHaveAccounts
    <3> SUFFICES ASSUME NEW x \in txns
                 PROVE  {x.from.account, x.to.account} \subseteq Ids(accounts)
      BY DEF EntriesHaveAccounts
    <3>1. {x.from.account, x.to.account} \subseteq {a.id : a \in Start}
      BY BegunAssumption DEF Init
    <3> QED
      BY <3>1 DEF Init, Ids
  <2>5. \A x \in txns : x.id <= posted
    BY <2>1, <2>2
  <2> QED
    BY <2>2, <2>3, <2>4, <2>5 DEF BookInv
<1>3. ScreenInv
  <2>1. 0 \in 0..MaxCalls /\ posted \in Nat
    BY Numbers DEF Init
  <2>2. \A t \in Tabs : \E page \in {"journals", "finance"} : tab[t] = Page(page)
    BY DEF Init
  <2>3. \A page \in {"journals", "finance"} : GoodTab(Page(page), made, posted)
    <3>1. Ids(txns) \subseteq 1..MaxPosted /\ accounts \subseteq Account
      BY <1>1, <1>2 DEF ChartInv, BookInv, Ids, Transaction
    <3> TAKE page \in {"journals", "finance"}
    <3>2. Page(page) \in Tab
      BY <3>1, BlankRow, Numbers DEF Page, Tab, Journal
    <3> QED
      BY <1>1, <2>1, <3>2 DEF GoodTab, Page, ChartInv
  <2>4. \A t \in Tabs : GoodTab(tab[t], made, posted)
    BY <2>2, <2>3
  <2>5. tab \in [Tabs -> Tab]
    BY <2>4 DEF Init, GoodTab
  <2> QED
    BY <2>1, <2>4, <2>5 DEF Init, ScreenInv
<1> QED
  BY <1>1, <1>2, <1>3 DEF LedgerInv

LEMMA LedgerStep == LedgerInv /\ [Next]_vars => LedgerInv'
<1> SUFFICES ASSUME LedgerInv, [Next]_vars PROVE LedgerInv'
  OBVIOUS
<1>1. CASE \E t \in Tabs : AtPage(t)
  BY <1>1, PageStep
<1>2. CASE \E c \in calls : Serve(c)
  BY <1>2, ReadStep, PostStep, VoidStep, AccountStep DEF Serve
<1>3. CASE \E c \in calls : Receive(c)
  BY <1>3, AnswerStep
<1>4. CASE UNCHANGED vars
  BY <1>4 DEF vars, LedgerInv, ChartInv, BookInv, ScreenInv, GoodTab,
              JournalsBalance, EntriesHaveAccounts
<1> QED
  BY <1>1, <1>2, <1>3, <1>4 DEF Next

LEMMA LedgerAlways == Spec => []LedgerInv
  BY LedgerStarts, LedgerStep, PTL DEF Spec

\* The variables keep their types, keys and codes stay unique: a toggled account
\* that is saved late takes the place of the row it was, or of none.
THEOREM LedgerTypes == Spec => []TypeOK
<1>1. LedgerInv => TypeOK
  <2> SUFFICES ASSUME LedgerInv PROVE TypeOK
    OBVIOUS
  <2>1. \A a \in accounts : a.id <= made
    BY Numbers DEF LedgerInv, ChartInv
  <2>2. calls \subseteq Call
    BY DEF LedgerInv, ScreenInv, GoodCall
  <2> QED
    BY <2>1, <2>2 DEF LedgerInv, ChartInv, BookInv, ScreenInv, TypeOK
<1> QED
  BY <1>1, LedgerAlways, PTL

\* Every transaction in the ledger is one debit and one credit of the same
\* amount, whatever was typed: the forms leave one side of each leg empty, and
\* the service compares the totals.
THEOREM EveryJournalBalances == Spec => []JournalsBalance
<1>1. LedgerInv => JournalsBalance
  BY DEF LedgerInv, BookInv
<1> QED
  BY <1>1, LedgerAlways, PTL

\* No entry loses its account, however deletions, postings and late saves of a
\* toggled account interleave.
THEOREM EntriesKeepAccounts == Spec => []EntriesHaveAccounts
<1>1. LedgerInv => EntriesHaveAccounts
  BY DEF LedgerInv, BookInv
<1> QED
  BY <1>1, LedgerAlways, PTL

-----------------------------------------------------------------------------
\* Posted twice only where the page has told

Rival(c, d) ==
    /\ c.tab = d.tab /\ c.waited /\ d.waited
    /\ \/ c.op \in {"general", "forward"} /\ d.op \in {"general", "forward"}
       \/ c.op = "income" /\ d.op = "income"

Owned(c) == c.mine /\ c.op \in Forms /\ ~tab[c.tab].told[c.op] => c.waited

Answered(t, f) ==
    \E c \in calls : c.tab = t /\ c.op = f /\ c.mine /\ c.waited /\ c.stage = "ok"

\* Of a form that has told nothing the page waits for every request that counts,
\* and for one at most; what was posted is on its way to the page.
TellInv ==
    /\ \A c \in calls : Owned(c)
    /\ \A c, d \in calls : Rival(c, d) => c = d
    /\ \A t \in Tabs, f \in Forms :
         ~tab[t].told[f] =>
            tab[t].posted[f] = 0 \/ (tab[t].posted[f] = 1 /\ Answered(t, f))

SameForms ==
    \A t \in Tabs : tab'[t].told = tab[t].told /\ tab'[t].posted = tab[t].posted

LEMMA CallsTyped == LedgerInv => \A c \in calls : c \in Call /\ c.tab \in Tabs /\ c.op \in Ops
  BY DEF LedgerInv, ScreenInv, GoodCall, Call

LEMMA TellShow ==
    ASSUME LedgerInv, TellInv, SameForms, calls' = calls
    PROVE  TellInv'
  BY CallsTyped DEF TellInv, SameForms, Owned, Answered

LEMMA TellSend ==
    ASSUME LedgerInv, TellInv, SameForms, NEW c, calls' = calls \cup {c},
           c.tab \in Tabs, c.waited, \A d \in calls : ~Rival(c, d)
    PROVE  TellInv'
<1>1. \A d \in calls' : Owned(d)'
  BY CallsTyped DEF TellInv, SameForms, Owned
<1>2. \A d, e \in calls' : Rival(d, e) => d = e
  BY DEF TellInv, Rival
<1>3. \A t \in Tabs, f \in Forms : Answered(t, f) => Answered(t, f)'
  BY DEF Answered
<1> QED
  BY <1>1, <1>2, <1>3 DEF TellInv, SameForms

\* A request that was not answered well goes on as another, or is gone.
LEMMA TellQuiet ==
    ASSUME LedgerInv, TellInv, SameForms, NEW c \in calls, c.stage # "ok", NEW rest,
           calls' = (calls \ {c}) \cup rest,
           \A d, e \in rest : d = e,
           \A d \in rest : /\ d.tab = c.tab /\ d.op = c.op
                           /\ d.waited = c.waited /\ d.mine = c.mine
    PROVE  TellInv'
<1>1. \A d \in calls' : Owned(d)'
  BY CallsTyped DEF TellInv, SameForms, Owned
<1>2. \A d, e \in calls' : Rival(d, e) => d = e
  <2> SUFFICES ASSUME NEW d \in calls', NEW e \in calls', Rival(d, e) PROVE d = e
    OBVIOUS
  <2>1. CASE d \in rest /\ e \in rest
    BY <2>1
  <2>2. CASE d \in rest /\ e \in calls \ {c}
    BY <2>2 DEF TellInv, Rival
  <2>3. CASE d \in calls \ {c} /\ e \in rest
    BY <2>3 DEF TellInv, Rival
  <2>4. CASE d \in calls /\ e \in calls
    BY <2>4 DEF TellInv
  <2> QED
    BY <2>1, <2>2, <2>3, <2>4
<1>3. \A t \in Tabs, f \in Forms : Answered(t, f) => Answered(t, f)'
  BY DEF Answered
<1> QED
  BY <1>1, <1>2, <1>3 DEF TellInv, SameForms

\* A page that stops waiting for a request from a form has told how it ended.
LEMMA TellDone ==
    ASSUME LedgerInv, TellInv, NEW c \in calls, NEW rest,
           calls' = (calls \ {c}) \cup rest,
           \A d \in rest : d.tab = c.tab /\ d.op = c.op /\ ~d.waited,
           \A t \in Tabs, f \in Forms :
              IF t = c.tab /\ f = c.op THEN tab'[t].told[f]
              ELSE /\ tab'[t].told[f] = tab[t].told[f]
                   /\ tab'[t].posted[f] = tab[t].posted[f]
    PROVE  TellInv'
<1>1. \A d \in calls' : Owned(d)'
  <2> SUFFICES ASSUME NEW d \in calls', d.mine, d.op \in Forms, ~tab'[d.tab].told[d.op]
               PROVE  d.waited
    BY DEF Owned
  <2>1. d.tab \in Tabs
    BY CallsTyped
  <2>2. ~(d.tab = c.tab /\ d.op = c.op)
    BY <2>1
  <2>3. d \in calls /\ ~tab[d.tab].told[d.op]
    BY <2>1, <2>2
  <2> QED
    BY <2>3 DEF TellInv, Owned
<1>2. \A d, e \in calls' : Rival(d, e) => d = e
  BY DEF TellInv, Rival
<1>3. \A t \in Tabs, f \in Forms :
        Answered(t, f) /\ ~(t = c.tab /\ f = c.op) => Answered(t, f)'
  BY DEF Answered
<1>4. ASSUME NEW t \in Tabs, NEW f \in Forms, ~tab'[t].told[f]
      PROVE  tab'[t].posted[f] = 0 \/ (tab'[t].posted[f] = 1 /\ Answered(t, f)')
  <2>1. ~(t = c.tab /\ f = c.op)
    BY <1>4
  <2>2. tab'[t].told[f] = tab[t].told[f] /\ tab'[t].posted[f] = tab[t].posted[f]
    BY <2>1
  <2> QED
    BY <1>3, <1>4, <2>1, <2>2 DEF TellInv
<1> QED
  BY <1>1, <1>2, <1>4 DEF TellInv

\* A form that is emptied counts nothing any more.
LEMMA TellClear ==
    ASSUME LedgerInv, TellInv, NEW t \in Tabs, NEW form \in Forms, NEW r,
           r \in Tab, r.told = tab[t].told, r.posted = tab[t].posted,
           NEW open \in SUBSET calls,
           \A c \in calls \ open : c.tab = t /\ c.op = form,
           Clear(t, form, r, open)
    PROVE  TellInv'
<1> DEFINE fl(c) == IF c.tab = t /\ c.op = form THEN [c EXCEPT !.mine = FALSE] ELSE c
           s == [r EXCEPT !.posted[form] = 0, !.told[form] = FALSE]
<1>1. /\ tab' = [tab EXCEPT ![t] = s] /\ tab \in [Tabs -> Tab]
      /\ calls' = {fl(c) : c \in open}
  BY DEF Clear, LedgerInv, ScreenInv
<1>2. \A f \in Forms : /\ s.posted[f] = IF f = form THEN 0 ELSE tab[t].posted[f]
                       /\ s.told[f] = IF f = form THEN FALSE ELSE tab[t].told[f]
  BY DEF Tab
<1>3. \A c \in open : /\ fl(c).tab = c.tab /\ fl(c).op = c.op
                      /\ fl(c).waited = c.waited /\ fl(c).stage = c.stage
                      /\ (c.tab = t /\ c.op = form => ~fl(c).mine)
                      /\ (~(c.tab = t /\ c.op = form) => fl(c) = c)
  BY CallsTyped DEF Call
<1>4. \A u \in Tabs, f \in Forms :
        IF u = t /\ f = form
        THEN tab'[u].posted[f] = 0 /\ ~tab'[u].told[f]
        ELSE tab'[u].posted[f] = tab[u].posted[f] /\ tab'[u].told[f] = tab[u].told[f]
  BY <1>1, <1>2
<1> HIDE DEF fl, s
<1>5. ASSUME NEW d \in calls', d.mine, d.op \in Forms, ~tab'[d.tab].told[d.op]
      PROVE  d.waited
  <2>1. PICK c \in open : d = fl(c)
    BY <1>1
  <2>2. c \in calls /\ c.tab \in Tabs /\ d = c /\ ~(c.tab = t /\ c.op = form)
    BY <1>3, <1>5, <2>1, CallsTyped
  <2>3. ~tab[d.tab].told[d.op]
    BY <1>4, <1>5, <2>2
  <2> QED
    BY <1>5, <2>2, <2>3 DEF TellInv, Owned
<1>6. \A d, e \in calls' : Rival(d, e) => d = e
  <2> SUFFICES ASSUME NEW d \in calls', NEW e \in calls', Rival(d, e) PROVE d = e
    OBVIOUS
  <2>1. PICK c \in open, b \in open : d = fl(c) /\ e = fl(b)
    BY <1>1
  <2>2. Rival(c, b)
    BY <1>3, <2>1 DEF Rival
  <2> QED
    BY <2>1, <2>2 DEF TellInv
<1>7. ASSUME NEW u \in Tabs, NEW f \in Forms, ~tab'[u].told[f]
      PROVE  tab'[u].posted[f] = 0 \/ (tab'[u].posted[f] = 1 /\ Answered(u, f)')
  <2>1. CASE u = t /\ f = form
    BY <1>4, <2>1
  <2>2. CASE ~(u = t /\ f = form)
    <3>1. Answered(u, f) => Answered(u, f)'
      <4> SUFFICES ASSUME NEW c \in calls, c.tab = u, c.op = f, c.mine, c.waited, c.stage = "ok"
                   PROVE  c \in calls'
        BY DEF Answered
      <4>1. c \in open /\ fl(c) = c
        BY <1>3, <2>2
      <4> QED
        BY <1>1, <4>1
    <3> QED
      BY <1>4, <1>7, <2>2, <3>1 DEF TellInv
  <2> QED
    BY <2>1, <2>2
<1> QED
  BY <1>5, <1>6, <1>7 DEF TellInv, Owned

\* A posting counts where the page waits for it and for nothing else of the form.
LEMMA TellPost ==
    ASSUME LedgerInv, TellInv, NEW c \in calls, PostEntries(c)
    PROVE  TellInv'
<1> DEFINE f == c.op
           t == c.tab
           answer == [c EXCEPT !.stage = "ok", !.txn = 0, !.row = NoRow,
                               !.from = NoLeg, !.to = NoLeg]
           rest == IF c.waited THEN {answer} ELSE {}
<1>0. /\ c \in Call /\ t \in Tabs /\ f \in Forms /\ c.stage = "read"
      /\ calls' = (calls \ {c}) \cup rest /\ tab' = Counted(c)
  BY CallsTyped DEF PostEntries, Ends
<1>1. /\ answer.tab = t /\ answer.op = f /\ answer.waited = c.waited
      /\ answer.mine = c.mine /\ answer.stage = "ok"
  BY <1>0 DEF Call
<1>2. CASE ~c.mine
  <2>1. tab' = tab
    BY <1>0, <1>2 DEF Counted
  <2>2. \A d \in rest : d.tab = t /\ d.op = f /\ d.waited = c.waited /\ d.mine = c.mine
    BY <1>1
  <2>3. \A d, e \in rest : d = e
    OBVIOUS
  <2> HIDE DEF rest, answer
  <2> QED
    BY <1>0, <2>1, <2>2, <2>3, TellQuiet DEF SameForms
<1>3. CASE c.mine
  <2>1. \A u \in Tabs, g \in Forms :
          /\ tab'[u].told[g] = tab[u].told[g]
          /\ tab'[u].posted[g] =
                IF u = t /\ g = f THEN tab[u].posted[g] + 1 ELSE tab[u].posted[g]
    BY <1>0, <1>3 DEF Counted, LedgerInv, ScreenInv, Tab
  <2> HIDE DEF answer
  <2>2. \A d \in calls' : Owned(d)'
    <3> SUFFICES ASSUME NEW d \in calls', d.mine, d.op \in Forms, ~tab'[d.tab].told[d.op]
                 PROVE  d.waited
      BY DEF Owned
    <3>1. d \in calls \/ (d = answer /\ c.waited)
      BY <1>0
    <3>2. CASE d \in calls
      <4>1. ~tab[d.tab].told[d.op]
        BY <2>1, <3>2, CallsTyped
      <4> QED
        BY <3>2, <4>1 DEF TellInv, Owned
    <3> QED
      BY <1>1, <3>1, <3>2
  <2>3. \A d, e \in calls' : Rival(d, e) => d = e
    <3> SUFFICES ASSUME NEW d \in calls', NEW e \in calls', Rival(d, e) PROVE d = e
      OBVIOUS
    <3>1. \A b : Rival(answer, b) => Rival(c, b)
      BY <1>1 DEF Rival
    <3>2. \A b : Rival(b, answer) => Rival(b, c)
      BY <1>1 DEF Rival
    <3>3. (d \in calls \ {c} \/ d = answer) /\ (e \in calls \ {c} \/ e = answer)
      BY <1>0
    <3> QED
      BY <3>1, <3>2, <3>3 DEF TellInv
  <2>4. ASSUME NEW u \in Tabs, NEW g \in Forms, ~tab'[u].told[g]
        PROVE  tab'[u].posted[g] = 0 \/ (tab'[u].posted[g] = 1 /\ Answered(u, g)')
    <3>1. ~tab[u].told[g]
      BY <2>1, <2>4
    <3>2. CASE u = t /\ g = f
      <4>1. c.waited
        BY <1>0, <1>3, <3>1, <3>2 DEF TellInv, Owned
      <4>2. tab[u].posted[g] = 0
        <5> SUFFICES ASSUME Answered(u, g) PROVE FALSE
          BY <3>1 DEF TellInv
        <5>1. PICK d \in calls : d.tab = u /\ d.op = g /\ d.waited /\ d.stage = "ok"
          BY DEF Answered
        <5>2. Rival(c, d)
          BY <1>0, <3>2, <4>1, <5>1 DEF Rival, Forms
        <5> QED
          BY <1>0, <5>1, <5>2 DEF TellInv
      <4>3. answer \in calls' /\ Answered(u, g)'
        BY <1>0, <1>1, <1>3, <3>2, <4>1 DEF Answered
      <4>4. tab'[u].posted[g] = 1
        BY <2>1, <3>2, <4>2
      <4> QED
        BY <4>3, <4>4
    <3>3. CASE ~(u = t /\ g = f)
      <4>1. Answered(u, g) => Answered(u, g)'
        BY <1>0, <3>3 DEF Answered
      <4> QED
        BY <2>1, <3>1, <3>3, <4>1 DEF TellInv
    <3> QED
      BY <3>2, <3>3
  <2> QED
    BY <2>2, <2>3, <2>4 DEF TellInv
<1> QED
  BY <1>2, <1>3

LEMMA TellServe ==
    ASSUME LedgerInv, TellInv, NEW c \in calls, Serve(c)
    PROVE  TellInv'
<1>0. c \in Call
  BY CallsTyped
<1>1. ASSUME NEW d, Becomes(c, d), c.stage # "ok", UNCHANGED tab,
             d.tab = c.tab, d.op = c.op, d.waited = c.waited, d.mine = c.mine
      PROVE  TellInv'
  <2> DEFINE rest == {d}
  <2>1. /\ calls' = (calls \ {c}) \cup rest /\ \A a, b \in rest : a = b
        /\ \A a \in rest : /\ a.tab = c.tab /\ a.op = c.op
                         /\ a.waited = c.waited /\ a.mine = c.mine
    BY <1>1 DEF Becomes
  <2>2. SameForms
    BY <1>1 DEF SameForms
  <2> HIDE DEF rest
  <2> QED
    BY <1>1, <2>1, <2>2, TellQuiet
<1>2. ASSUME NEW stage, Ends(c, stage), c.stage # "ok", UNCHANGED tab
      PROVE  TellInv'
  <2> DEFINE d == [c EXCEPT !.stage = stage, !.txn = 0, !.row = NoRow,
                            !.from = NoLeg, !.to = NoLeg]
             rest == IF c.waited THEN {d} ELSE {}
  <2>1. d.tab = c.tab /\ d.op = c.op /\ d.waited = c.waited /\ d.mine = c.mine
    BY <1>0 DEF Call
  <2> HIDE DEF d
  <2>2. calls' = (calls \ {c}) \cup rest
    BY <1>2 DEF Ends, d
  <2>3. /\ \A a, b \in rest : a = b
        /\ \A a \in rest : /\ a.tab = c.tab /\ a.op = c.op
                         /\ a.waited = c.waited /\ a.mine = c.mine
    BY <2>1
  <2>4. SameForms
    BY <1>2 DEF SameForms
  <2> HIDE DEF rest
  <2> QED
    BY <1>2, <2>2, <2>3, <2>4, TellQuiet
<1>3. CASE ReadPosting(c) \/ ReadVoid(c) \/ ReadDelete(c)
  <2> DEFINE d == [c EXCEPT !.stage = "read"]
  <2>1. d.tab = c.tab /\ d.op = c.op /\ d.waited = c.waited /\ d.mine = c.mine
    BY <1>0 DEF Call
  <2>2. c.stage # "ok" /\ UNCHANGED tab /\ (Becomes(c, d) \/ Ends(c, "used"))
    BY <1>3 DEF ReadPosting, ReadVoid, ReadDelete
  <2> QED
    BY <1>1, <1>2, <2>1, <2>2
<1>4. CASE ReadToggle(c)
  <2>1. PICK row : Becomes(c, [c EXCEPT !.stage = "read", !.row = row])
    BY <1>4 DEF ReadToggle
  <2> DEFINE d == [c EXCEPT !.stage = "read", !.row = row]
  <2>2. d.tab = c.tab /\ d.op = c.op /\ d.waited = c.waited /\ d.mine = c.mine
    BY <1>0 DEF Call
  <2> QED
    BY <1>1, <1>4, <2>1, <2>2 DEF ReadToggle
<1>5. CASE VoidEntries(c) \/ CreateAccount(c) \/ DeleteAccount(c) \/ SaveAccount(c) \/ Refuse(c)
  BY <1>2, <1>5 DEF VoidEntries, CreateAccount, DeleteAccount, SaveAccount, Refuse
<1> QED
  BY <1>3, <1>4, <1>5, TellPost DEF Serve

\* A tab whose forms stay as they are.
LEMMA FormsKept ==
    ASSUME LedgerInv, NEW t \in Tabs, NEW r, tab' = [tab EXCEPT ![t] = r],
           r.told = tab[t].told, r.posted = tab[t].posted
    PROVE  SameForms
  BY DEF SameForms, LedgerInv, ScreenInv

LEMMA ClosedKeepsForms ==
    ASSUME NEW r \in Tab
    PROVE  NoDialog(r).told = r.told /\ NoDialog(r).posted = r.posted
  BY DEF NoDialog, Tab

LEMMA TellPage ==
    ASSUME LedgerInv, TellInv, NEW t \in Tabs, AtPage(t)
    PROVE  TellInv'
<1>0. tab \in [Tabs -> Tab] /\ tab[t] \in Tab
  BY DEF LedgerInv, ScreenInv
<1>1. ASSUME NEW r, r.told = tab[t].told, r.posted = tab[t].posted, Show(t, r)
      PROVE  TellInv'
  BY <1>1, FormsKept, TellShow DEF Show
<1>2. ASSUME NEW c, Send(c), SameForms, c.tab = t, c.waited, \A d \in calls : ~Rival(c, d)
      PROVE  TellInv'
  BY <1>2, TellSend DEF Send
<1>3. UNCHANGED tab => SameForms
  BY DEF SameForms
<1>4. CASE Visit(t)
  <2> DEFINE left(c) == IF c.tab = t THEN [c EXCEPT !.waited = FALSE, !.mine = FALSE] ELSE c
  <2>1. PICK page \in Opens[t] : tab' = [tab EXCEPT ![t] = Page(page)]
    BY <1>4 DEF Visit
  <2>2. \A u \in Tabs, f \in Forms :
          /\ u = t => tab'[u].posted[f] = 0 /\ ~tab'[u].told[f]
          /\ u # t => tab'[u] = tab[u]
    BY <1>0, <2>1 DEF Page
  <2>3. calls' = {left(c) : c \in calls}
    BY <1>4 DEF Visit
  <2>4. \A c \in calls : /\ c.tab = t => /\ left(c).tab = t /\ ~left(c).waited /\ ~left(c).mine
                         /\ c.tab # t => left(c) = c
    BY CallsTyped DEF Call
  <2> HIDE DEF left
  <2>5. \A d \in calls' : (d \in calls /\ d.tab # t) \/ (d.tab = t /\ ~d.waited /\ ~d.mine)
    BY <2>3, <2>4
  <2>6. \A d \in calls' : Owned(d)'
    BY <2>2, <2>5, CallsTyped DEF TellInv, Owned
  <2>7. \A d, e \in calls' : Rival(d, e) => d = e
    BY <2>5 DEF TellInv, Rival
  <2>8. \A u \in Tabs, f \in Forms : u # t /\ Answered(u, f) => Answered(u, f)'
    BY <2>3, <2>4 DEF Answered
  <2> QED
    BY <2>2, <2>6, <2>7, <2>8 DEF TellInv
<1>5. CASE Load(t)
  BY <1>0, <1>1, <1>5 DEF Load, Tab
<1>6. CASE SubmitGeneral(t) \/ SubmitForward(t)
  <2>0. \/ \E from, to : Send([New(t, "general") EXCEPT !.from = from, !.to = to])
        \/ \E from, to : Send([New(t, "forward") EXCEPT !.from = from, !.to = to])
    <3>1. CASE SubmitGeneral(t)
      BY <3>1 DEF SubmitGeneral
    <3>2. CASE SubmitForward(t)
      BY <3>2 DEF SubmitForward
    <3> QED
      BY <1>6, <3>1, <3>2
  <2>1. PICK op \in {"general", "forward"} :
          \E from, to : Send([New(t, op) EXCEPT !.from = from, !.to = to])
    BY <2>0
  <2>6. PICK from, to : Send([New(t, op) EXCEPT !.from = from, !.to = to])
    BY <2>1
  <2> DEFINE c == [New(t, op) EXCEPT !.from = from, !.to = to]
  <2>2. c.tab = t /\ c.waited /\ c.op = op
    BY DEF New
  <2>3. \A d \in calls : ~(d.tab = t /\ d.op \in {"general", "forward"} /\ d.waited)
    BY <1>6 DEF SubmitGeneral, SubmitForward, Desk, Waiting
  <2>4. UNCHANGED tab
    BY <1>6 DEF SubmitGeneral, SubmitForward
  <2> HIDE DEF c
  <2>5. \A d \in calls : ~Rival(c, d)
    BY <2>2, <2>3 DEF Rival
  <2> QED
    BY <1>2, <1>3, <2>6, <2>2, <2>4, <2>5 DEF c
<1>7. CASE ResetForm(t)
  <2>1. "general" \in Forms /\ calls \in SUBSET calls
    BY DEF Forms
  <2> QED
    BY <1>0, <1>7, <2>1, TellClear DEF ResetForm
<1>8. CASE OpenIncome(t) \/ OpenAdd(t) \/ OpenVoid(t) \/ OpenAccount(t) \/ Cancel(t)
  <2>1. PICK r : Show(t, r) /\ r.told = tab[t].told /\ r.posted = tab[t].posted
    <3>1. CASE OpenIncome(t)
      BY <1>0, <3>1 DEF OpenIncome, Tab
    <3>2. CASE OpenAdd(t)
      BY <1>0, <3>2 DEF OpenAdd, Tab
    <3>3. CASE OpenVoid(t)
      <4>1. PICK x : Show(t, [tab[t] EXCEPT !.dialog = "void", !.txn = x])
        BY <3>3 DEF OpenVoid
      <4> DEFINE r == [tab[t] EXCEPT !.dialog = "void", !.txn = x]
      <4>2. r.told = tab[t].told /\ r.posted = tab[t].posted
        BY <1>0 DEF Tab
      <4> HIDE DEF r
      <4> QED
        BY <4>1, <4>2 DEF r
    <3>4. CASE OpenAccount(t)
      <4>1. PICK a : Show(t, [tab[t] EXCEPT !.dialog = "account", !.row = a])
        BY <3>4 DEF OpenAccount
      <4> DEFINE r == [tab[t] EXCEPT !.dialog = "account", !.row = a]
      <4>2. r.told = tab[t].told /\ r.posted = tab[t].posted
        BY <1>0 DEF Tab
      <4> HIDE DEF r
      <4> QED
        BY <4>1, <4>2 DEF r
    <3>5. CASE Cancel(t)
      BY <1>0, <3>5, ClosedKeepsForms DEF Cancel
    <3> QED
      BY <1>8, <3>1, <3>2, <3>3, <3>4, <3>5
  <2> QED
    BY <1>1, <2>1
<1>9. CASE PostIncome(t)
  <2>1. PICK from, to : Send([New(t, "income") EXCEPT !.from = from, !.to = to])
    BY <1>9 DEF PostIncome
  <2> DEFINE c == [New(t, "income") EXCEPT !.from = from, !.to = to]
  <2>2. c.tab = t /\ c.waited /\ c.op = "income"
    BY DEF New
  <2>3. \A d \in calls : ~(d.tab = t /\ d.op = "income" /\ d.waited)
    BY <1>9 DEF PostIncome, In, Waiting, Behind
  <2>4. UNCHANGED tab
    BY <1>9 DEF PostIncome
  <2> HIDE DEF c
  <2>5. \A d \in calls : ~Rival(c, d)
    BY <2>2, <2>3 DEF Rival
  <2> QED
    BY <1>2, <1>3, <2>1, <2>2, <2>4, <2>5 DEF c
<1>10. CASE IncomeTimer(t)
  <2> DEFINE r == [tab[t] EXCEPT !.timers = @ - 1,
                     !.dialog = IF @ = "income" THEN "none" ELSE @]
  <2>1. r \in Tab /\ r.told = tab[t].told /\ r.posted = tab[t].posted
    <3>1. tab[t].timers - 1 \in 0..MaxCalls
      BY <1>0, <1>10, Numbers DEF IncomeTimer, Tab
    <3> QED
      BY <1>0, <3>1 DEF Tab
  <2>2. "income" \in Forms /\ calls \in SUBSET calls /\ Clear(t, "income", r, calls)
    BY <1>10 DEF IncomeTimer, Forms
  <2> HIDE DEF r
  <2> QED
    BY <2>1, <2>2, TellClear
<1>11. ASSUME NEW c, c.op \notin Forms, c.tab = t, c.waited, Send(c), SameForms
       PROVE  TellInv'
  BY <1>2, <1>11 DEF Rival, Forms
<1>12. CASE ConfirmVoid(t) \/ ConfirmDelete(t) \/ SubmitAdd(t)
  <2> DEFINE void == [New(t, "void") EXCEPT !.txn = tab[t].txn]
             delete == [New(t, "delete") EXCEPT !.row = tab[t].row]
             create(row) == [New(t, "create") EXCEPT !.row = row]
  <2>1. /\ void.op \notin Forms /\ void.tab = t /\ void.waited
        /\ delete.op \notin Forms /\ delete.tab = t /\ delete.waited
    BY DEF New, Forms
  <2>2. \A row : create(row).op \notin Forms /\ create(row).tab = t /\ create(row).waited
    BY DEF New, Forms
  <2>3. SameForms
    BY <1>3, <1>12 DEF ConfirmVoid, ConfirmDelete, SubmitAdd
  <2>4. Send(void) \/ Send(delete) \/ \E row : Send(create(row))
    BY <1>12 DEF ConfirmVoid, ConfirmDelete, SubmitAdd
  <2> HIDE DEF void, delete, create
  <2> QED
    BY <1>11, <2>1, <2>2, <2>3, <2>4
<1>13. ASSUME NEW a, NEW r \in Tab, r.told = tab[t].told, r.posted = tab[t].posted,
              SendToggle(t, a, r)
       PROVE  TellInv'
  <2> DEFINE c == [New(t, "toggle") EXCEPT !.row = [a EXCEPT !.active = ~@]]
             s == [r EXCEPT !.toggling = a.id]
  <2>1. Send(c) /\ tab' = [tab EXCEPT ![t] = s]
    BY <1>13 DEF SendToggle
  <2>2. c.op \notin Forms /\ c.tab = t /\ c.waited
    BY DEF New, Forms
  <2>3. s.told = tab[t].told /\ s.posted = tab[t].posted
    BY <1>13 DEF Tab
  <2> HIDE DEF c, s
  <2> QED
    BY <1>11, <2>1, <2>2, <2>3, FormsKept
<1>14. CASE Toggle(t) \/ MarkInactive(t)
  <2>1. CASE Toggle(t)
    BY <1>0, <1>13, <2>1 DEF Toggle
  <2>2. CASE MarkInactive(t)
    <3>1. NoDialog(tab[t]) \in Tab
      BY TabIsGood, ClosedGood DEF GoodTab
    <3> QED
      BY <1>0, <1>13, <2>2, <3>1, ClosedKeepsForms DEF MarkInactive
  <2> QED
    BY <1>14, <2>1, <2>2
<1> QED
  BY <1>4, <1>5, <1>6, <1>7, <1>8, <1>9, <1>10, <1>12, <1>14 DEF AtPage

LEMMA TellAnswer ==
    ASSUME LedgerInv, TellInv, NEW c \in calls, Receive(c)
    PROVE  TellInv'
<1>0. /\ c \in Call /\ c.tab \in Tabs /\ tab \in [Tabs -> Tab] /\ tab[c.tab] \in Tab
  BY CallsTyped DEF LedgerInv, ScreenInv
<1> DEFINE t == c.tab
\* What a page that has heard of the request may show of its forms.
<1>1. ASSUME NEW r, NEW rest, tab' = [tab EXCEPT ![t] = r],
             calls' = (calls \ {c}) \cup rest,
             \A d \in rest : d.tab = t /\ d.op = c.op /\ ~d.waited,
             \A f \in Forms : IF f = c.op THEN r.told[f]
                              ELSE r.told[f] = tab[t].told[f] /\ r.posted[f] = tab[t].posted[f]
      PROVE  TellInv'
  <2>1. \A u \in Tabs, f \in Forms :
          IF u = t /\ f = c.op THEN tab'[u].told[f]
          ELSE tab'[u].told[f] = tab[u].told[f] /\ tab'[u].posted[f] = tab[u].posted[f]
    BY <1>0, <1>1
  <2> QED
    BY <1>1, <2>1, TellDone
<1>2. \A f \in Forms : c.op \in Forms =>
        IF f = c.op THEN Told(c).told[f]
        ELSE Told(c).told[f] = tab[t].told[f] /\ Told(c).posted[f] = tab[t].posted[f]
  BY <1>0 DEF Told, Tab
<1>3. CASE JournalSaved(c)
  <2>1. c.op \in Forms /\ calls \ {c} \in SUBSET calls
    BY <1>3 DEF JournalSaved, Forms
  <2>2. \A d \in calls \ (calls \ {c}) : d.tab = t /\ d.op = c.op
    OBVIOUS
  <2>3. Clear(t, c.op, tab[t], calls \ {c})
    BY <1>3 DEF JournalSaved
  <2> QED
    BY <1>0, <2>1, <2>2, <2>3, TellClear
<1>4. ASSUME NEW stages, NEW r, Done(c, stages, r),
             \A f \in Forms : IF f = c.op THEN r.told[f]
                              ELSE r.told[f] = tab[t].told[f] /\ r.posted[f] = tab[t].posted[f]
      PROVE  TellInv'
  <2> DEFINE rest == {}
  <2>1. calls' = (calls \ {c}) \cup rest /\ tab' = [tab EXCEPT ![t] = r]
    BY <1>4 DEF Done
  <2>2. \A d \in rest : d.tab = t /\ d.op = c.op /\ ~d.waited
    OBVIOUS
  <2> HIDE DEF rest
  <2> QED
    BY <1>1, <1>4, <2>1, <2>2
<1>5. CASE JournalFailed(c) \/ IncomeFailed(c)
  BY <1>2, <1>4, <1>5 DEF JournalFailed, IncomeFailed, Forms
<1>6. CASE IncomePosted(c)
  <2> DEFINE r == [Told(c) EXCEPT !.timers = @ + 1]
  <2>1. r.told = Told(c).told /\ r.posted = Told(c).posted /\ c.op \in Forms
    BY <1>0, <1>6 DEF IncomePosted, Told, Tab, Forms
  <2>2. Done(c, {"ok"}, r)
    BY <1>6 DEF IncomePosted
  <2> HIDE DEF r
  <2> QED
    BY <1>2, <1>4, <2>1, <2>2
<1>7. ASSUME NEW stages, NEW r, Done(c, stages, r), c.op \notin Forms,
             r.told = tab[t].told, r.posted = tab[t].posted
      PROVE  TellInv'
  BY <1>4, <1>7
<1>8. CASE DialogDone(c)
  BY <1>0, <1>7, <1>8, ClosedKeepsForms DEF DialogDone, Forms
<1>9. CASE DialogFailed(c)
  BY <1>0, <1>7, <1>9 DEF DialogFailed, Forms, Tab
<1>10. CASE ToggleDone(c)
  BY <1>0, <1>7, <1>10 DEF ToggleDone, Forms, Tab
<1>11. CASE Lost(c)
  <2> DEFINE rest == IF c.stage \in {"sent", "read"} THEN {[c EXCEPT !.waited = FALSE]} ELSE {}
             r == IF c.op \in Forms THEN Told(c)
                  ELSE IF c.op = "toggle" THEN [tab[t] EXCEPT !.toggling = 0]
                  ELSE [tab[t] EXCEPT !.offered = FALSE]
  <2>1. calls' = (calls \ {c}) \cup rest /\ tab' = [tab EXCEPT ![t] = r]
    BY <1>0, <1>11 DEF Lost
  <2>2. \A d \in rest : d.tab = t /\ d.op = c.op /\ ~d.waited
    BY <1>0 DEF Call
  <2>3. c.op \notin Forms => r.told = tab[t].told /\ r.posted = tab[t].posted
    BY <1>0 DEF Tab
  <2>4. c.op \in Forms => r = Told(c)
    OBVIOUS
  <2> HIDE DEF rest, r
  <2>5. \A f \in Forms : IF f = c.op THEN r.told[f]
                         ELSE r.told[f] = tab[t].told[f] /\ r.posted[f] = tab[t].posted[f]
    BY <1>2, <2>3, <2>4
  <2> QED
    BY <1>1, <2>1, <2>2, <2>5
<1> QED
  BY <1>3, <1>5, <1>6, <1>8, <1>9, <1>10, <1>11 DEF Receive

\* What is in a form is posted a second time only after the page has shown how a
\* posting of it ended: clicks while it is saved, forms reset meanwhile, late
\* timers and pages that were left never post it twice.
THEOREM PostedAgainOnlyIfTold == Spec => []PostedTwiceIfTold
<1>1. Init => TellInv
  <2> SUFFICES ASSUME Init PROVE TellInv
    OBVIOUS
  <2>1. \A t \in Tabs, f \in Forms : tab[t].posted[f] = 0
    BY DEF Init, Page
  <2> QED
    BY <2>1 DEF Init, TellInv
<1>2. LedgerInv /\ TellInv /\ [Next]_vars => TellInv'
  <2> SUFFICES ASSUME LedgerInv, TellInv, [Next]_vars PROVE TellInv'
    OBVIOUS
  <2>1. CASE UNCHANGED vars
    BY <2>1, TellShow DEF vars, SameForms
  <2> QED
    BY <2>1, TellPage, TellServe, TellAnswer DEF Next
<1>3. TellInv => PostedTwiceIfTold
  BY DEF TellInv, PostedTwiceIfTold
<1>4. Spec => []TellInv
  BY <1>1, <1>2, LedgerAlways, PTL DEF Spec
<1> QED
  BY <1>3, <1>4, PTL

=============================================================================
