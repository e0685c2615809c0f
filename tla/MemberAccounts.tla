--------------------------- MODULE MemberAccounts ---------------------------
(***************************************************************************)
(* The savings and the share accounts of members: the screens of the web   *)
(* front end that enter, reverse, delete, upload, withdraw and transfer    *)
(* (app/(DashboardLayout)/savings and shares) and the API that carries it  *)
(* out (backend apps/savings, apps/shares, apps/common/triggers.py).       *)
(*                                                                         *)
(* A handler is not one transaction: each save and each delete is written  *)
(* on its own, so a request is a record that walks through stages, and a   *)
(* worker that dies leaves what it has written.  Both books have the same  *)
(* rows: payments, and moves, which are withdrawals of savings with a      *)
(* money-out payment of their own, or transfers of shares with none.       *)
(***************************************************************************)
EXTENDS Integers, FiniteSets, FiniteSetsExt, Functions

CONSTANTS Members,    \* members with an account
          Pool,       \* the SACCO pool, to which shares are redeemed
          Tabs,       \* browser tabs, each with one request at most
          Serving,    \* how many requests the server serves at a time
          Typed,      \* document numbers the forms of a payment may send
          MaxAmount,  \* the greatest amount entered
          MaxRow,     \* how many payments are ever inserted
          MaxWrites   \* how many payments and moves are ever inserted

ASSUME AccountsAssumption ==
    /\ IsFiniteSet(Members) /\ Pool \notin Members
    /\ IsFiniteSet(Tabs)
    /\ Serving \in Nat \ {0}
    /\ Typed \subseteq Nat \ {0}
    /\ MaxAmount \in Nat \ {0} /\ MaxRow \in Nat /\ MaxWrites \in Nat

VARIABLES book,       \* a bound: the book that is worked on
          tab,        \* what each tab shows
          req,        \* the request of each tab and how far it has come
          payments,   \* SavingsPayment or SharePayment rows
          inserted,   \* the greatest key given to a payment
          moves,      \* SavingsWithdrawal or ShareTransfer rows
          journals    \* ledger transactions of reference type SAVINGS, SHARES

dbVars == <<payments, inserted, moves, journals>>
accountsVars == <<book, tab, req, dbVars>>

-----------------------------------------------------------------------------
\* Data

Ids == 0..MaxRow

Payment == [id : 1..MaxRow, member : Members, way : {"in", "out"},
            amount : 1..MaxAmount, doc : Nat, reversed : BOOLEAN]

Move == [id : 1..MaxWrites, from : Members, to : Members \cup {Pool},
         amount : 1..MaxAmount, active : BOOLEAN, paid : Ids]

\* The payment a ledger transaction was posted for and the document number it
\* is found by.
Journal == [of : 1..MaxRow, doc : Nat]

Total(rows) == SumFunction([r \in rows |-> r.amount])

Live(m, way) == {p \in payments : p.member = m /\ p.way = way /\ ~p.reversed}
MovedOut(m) == {w \in moves : w.from = m /\ w.active}
MovedIn(m) == {w \in moves : w.to = m /\ w.active}

SavingsBalance(m) == Total(Live(m, "in")) - Total(Live(m, "out"))
ShareBalance(m) == Total(Live(m, "in")) + Total(MovedIn(m)) - Total(MovedOut(m))
Balance(m) == IF book = "savings" THEN SavingsBalance(m) ELSE ShareBalance(m)

\* The number of a document without one: the greatest key in the table and one.
Greatest == Max({p.id : p \in payments} \cup {0})

\* The bounds leave room for n payments and m moves.
Room(n, m) ==
    /\ inserted + n <= MaxRow
    /\ inserted + Cardinality(moves) + n + m <= MaxWrites

Row(id) == {p \in payments : p.id = id}
Reversed(rows) == {[p EXCEPT !.reversed = TRUE] : p \in rows}

-----------------------------------------------------------------------------
\* The screens

NoReq == [op |-> "none", stage |-> "idle"]
Blank(screen) == [screen |-> screen, dialog |-> "none", target |-> 0, list |-> {}]

Free(t) == req[t].stage = "idle"
On(t, screen) == tab[t].screen = screen /\ tab[t].dialog = "none" /\ Free(t)
In(t, dialog) == tab[t].dialog = dialog /\ Free(t)

Show(t, new) == tab' = [tab EXCEPT ![t] = new]
Send(t, r) == req' = [req EXCEPT ![t] = r] /\ UNCHANGED <<book, tab, dbVars>>

GotoScreen(t, screen) ==
    /\ Free(t) /\ tab[t].dialog = "none" /\ tab[t].screen # screen
    /\ Show(t, Blank(screen))
    /\ UNCHANGED <<book, req, dbVars>>

\* The rows on which the register has buttons: the copy on display may be old.
LoadRegister(t) ==
    /\ tab[t].screen = "register"
    /\ Show(t, [tab[t] EXCEPT !.list = {p.id : p \in {q \in payments : ~q.reversed}}])
    /\ UNCHANGED <<book, req, dbVars>>

ListMoves(t) ==
    /\ tab[t].screen = "moves"
    /\ Show(t, [tab[t] EXCEPT !.list = {w.id : w \in {v \in moves : v.active}}])
    /\ UNCHANGED <<book, req, dbVars>>

LoadWithdrawals(t) == book = "savings" /\ ListMoves(t)
LoadTransfers(t) == book = "shares" /\ ListMoves(t)

Dialog(t, dialog, id) ==
    /\ On(t, "register")
    /\ Show(t, [tab[t] EXCEPT !.dialog = dialog, !.target = id])
    /\ UNCHANGED <<book, req, dbVars>>

OpenReverse(t) == \E id \in tab[t].list : Dialog(t, "reverse", id)
OpenDelete(t) == \E id \in tab[t].list : Dialog(t, "delete", id)
OpenUpload(t) == Dialog(t, "upload", 0)

CloseDialog(t) ==
    /\ tab[t].dialog # "none" /\ Free(t)
    /\ Show(t, [tab[t] EXCEPT !.dialog = "none", !.target = 0])
    /\ UNCHANGED <<book, req, dbVars>>

ConfirmReverse(t) ==
    /\ In(t, "reverse")
    /\ Send(t, [op |-> "reverse", stage |-> "sent", id |-> tab[t].target, copy |-> {}])

ConfirmDelete(t) ==
    /\ In(t, "delete")
    /\ Send(t, [op |-> "delete", stage |-> "sent", id |-> tab[t].target])

\* A file names every member it credits; one line each is enough here.
UploadFile(t) ==
    /\ In(t, "upload")
    /\ \E file \in (SUBSET Members) \ {{}} :
         Send(t, [op |-> "upload", stage |-> "sent", file |-> file])

\* The forms of a payment come with a number drawn at random, which the
\* operator may change and cannot leave out.  They keep their fields after a
\* success until a timer leaves the page, so that the button can be used again.
EnterPayment(t) ==
    /\ On(t, "new")
    /\ \E m \in Members, n \in 1..MaxAmount, d \in Typed :
         Send(t, [op |-> "deposit", stage |-> "sent", member |-> m,
                  amount |-> n, doc |-> d, row |-> 0])

EnterSavings(t) == book = "savings" /\ EnterPayment(t)
EnterShare(t) == book = "shares" /\ EnterPayment(t)

EnterWithdrawal(t) ==
    /\ On(t, "moves") /\ book = "savings"
    /\ \E m \in Members, n \in 1..MaxAmount :
         Send(t, [op |-> "withdraw", stage |-> "sent", member |-> m, to |-> Pool,
                  amount |-> n, doc |-> 0, move |-> 0, row |-> 0])

EnterTransfer(t) ==
    /\ On(t, "moves") /\ book = "shares"
    /\ \E m \in Members, n \in 1..MaxAmount, to \in Members \cup {Pool} :
         Send(t, [op |-> "transfer", stage |-> "sent", member |-> m, to |-> to,
                  amount |-> n])

CancelMove(t) ==
    /\ On(t, "moves")
    /\ \E id \in tab[t].list :
         Send(t, [op |-> "cancel", stage |-> "sent", id |-> id, copy |-> {}])

CancelWithdrawal(t) == book = "savings" /\ CancelMove(t)
CancelTransfer(t) == book = "shares" /\ CancelMove(t)

-----------------------------------------------------------------------------
\* The server

Served == {t \in Tabs : req[t].stage \notin {"idle", "sent", "ok", "failed"}}

\* A new request finds a worker; one under way has it.
At(t, op, stage) ==
    /\ req[t].op = op /\ req[t].stage = stage
    /\ stage = "sent" => Cardinality(Served) < Serving

Stage(t, stage) == req' = [req EXCEPT ![t].stage = stage]
Done(t, stage) == req' = [req EXCEPT ![t] = [op |-> @.op, stage |-> stage]]
Ok(t) == Done(t, "ok")
Fails(t) == Done(t, "failed") /\ UNCHANGED <<book, tab, dbVars>>

\* SavingsPayment.save and SharePayment.save choose the number, then insert.
Number(t) ==
    /\ At(t, "deposit", "sent") \/ At(t, "withdraw", "moved")
    /\ req' = [req EXCEPT ![t].stage = "numbered",
                          ![t].doc = IF @ = 0 THEN Greatest + 1 ELSE @]
    /\ UNCHANGED <<book, tab, dbVars>>

Insert(t) ==
    LET id == inserted + 1
        way == IF req[t].op = "withdraw" THEN "out" ELSE "in" IN
    /\ req[t].stage = "numbered" /\ Room(1, 0)
    /\ inserted' = id
    /\ payments' = payments \cup
         {[id |-> id, member |-> req[t].member, way |-> way,
           amount |-> req[t].amount, doc |-> req[t].doc, reversed |-> FALSE]}
    /\ req' = [req EXCEPT ![t].stage = "inserted", ![t].row = id]
    /\ UNCHANGED <<book, tab, moves, journals>>

\* The ledger posting of a deposit: a failure is printed and passed over.
Post(t) ==
    /\ At(t, "deposit", "inserted")
    /\ Ok(t)
    /\ \E posted \in {{}, {[of |-> req[t].row, doc |-> req[t].doc]}} :
         journals' = journals \cup posted
    /\ UNCHANGED <<book, tab, payments, inserted, moves>>

CheckWithdrawal(t) ==
    /\ At(t, "withdraw", "sent")
    /\ req[t].amount <= SavingsBalance(req[t].member)
    /\ Stage(t, "checked")
    /\ UNCHANGED <<book, tab, dbVars>>

\* Fault: shares given away before are not counted.
CheckTransfer_Bought(t) ==
    /\ At(t, "transfer", "sent")
    /\ req[t].member # req[t].to
    /\ req[t].amount <= Total(Live(req[t].member, "in"))
    /\ Stage(t, "checked")
    /\ UNCHANGED <<book, tab, dbVars>>

CheckTransfer(t) ==
    /\ At(t, "transfer", "sent")
    /\ req[t].member # req[t].to
    /\ req[t].amount <= ShareBalance(req[t].member)
    /\ Stage(t, "checked")
    /\ UNCHANGED <<book, tab, dbVars>>

RefuseMove(t) ==
    /\ At(t, "withdraw", "sent") \/ At(t, "transfer", "sent")
    /\ \/ req[t].member = req[t].to
       \/ req[t].amount > Balance(req[t].member)
    /\ Fails(t)

InsertMove(t) ==
    LET id == Cardinality(moves) + 1 IN
    /\ req[t].stage = "checked" /\ Room(0, 1)
    /\ moves' = moves \cup
         {[id |-> id, from |-> req[t].member, to |-> req[t].to,
           amount |-> req[t].amount, active |-> TRUE, paid |-> 0]}
    /\ IF req[t].op = "transfer" THEN Ok(t)
       ELSE req' = [req EXCEPT ![t].stage = "moved", ![t].move = id]
    /\ UNCHANGED <<book, tab, payments, inserted, journals>>

\* The withdrawal and its money-out payment are joined last, by key: a payment
\* deleted before that breaks the key.
Link(t) ==
    /\ At(t, "withdraw", "inserted")
    /\ IF Row(req[t].row) = {} THEN Fails(t)
       ELSE /\ Ok(t)
            /\ moves' = {IF w.id = req[t].move THEN [w EXCEPT !.paid = req[t].row] ELSE w :
                           w \in moves}
            /\ UNCHANGED <<book, tab, payments, inserted, journals>>

\* One transaction for the file; each line takes its number after the one before.
Upload(t) ==
    LET lines == Cardinality(req[t].file)
        ids == inserted + 1 .. inserted + lines IN
    /\ At(t, "upload", "sent") /\ Room(lines, 0)
    /\ \E who \in Bijection(ids, req[t].file) :
         LET new == {[id |-> i, member |-> who[i], way |-> "in", amount |-> 1,
                      doc |-> IF i = inserted + 1 THEN Greatest + 1 ELSE i,
                      reversed |-> FALSE] : i \in ids} IN
         /\ payments' = payments \cup new
         /\ journals' = journals \cup
              {[of |-> p.id, doc |-> p.doc] : p \in new}
    /\ inserted' = inserted + lines
    /\ Ok(t)
    /\ UNCHANGED <<book, tab, moves>>

\* A reversal reads the payment, then saves the whole copy in a transaction
\* that also takes back a withdrawal joined to it; saving a copy of a row that
\* was deleted inserts it again.
ReadReversed(t) ==
    /\ At(t, "reverse", "sent")
    /\ \E p \in Row(req[t].id) :
         IF p.reversed THEN Fails(t)
         ELSE /\ req' = [req EXCEPT ![t].stage = "read", ![t].copy = {p}]
              /\ UNCHANGED <<book, tab, dbVars>>

\* Fault: the withdrawal the payment belongs to is left standing.
Reverse_KeepsMove(t) ==
    /\ At(t, "reverse", "read")
    /\ payments' = (payments \ Row(req[t].id)) \cup Reversed(req[t].copy)
    /\ Ok(t)
    /\ UNCHANGED <<book, tab, inserted, moves, journals>>

Reverse(t) ==
    /\ At(t, "reverse", "read")
    /\ payments' = (payments \ Row(req[t].id)) \cup Reversed(req[t].copy)
    /\ moves' = {IF w.paid = req[t].id THEN [w EXCEPT !.active = FALSE] ELSE w :
                   w \in moves}
    /\ Ok(t)
    /\ UNCHANGED <<book, tab, inserted, journals>>

\* The key of a deleted payment is cleared from a withdrawal joined to it.
Remove(id) ==
    /\ payments' = payments \ Row(id)
    /\ moves' = {IF w.paid = id THEN [w EXCEPT !.paid = 0] ELSE w : w \in moves}

\* No savings payment has the attribute whose journal would be deleted.
DeleteSavings(t) ==
    /\ At(t, "delete", "sent") /\ book = "savings" /\ Row(req[t].id) # {}
    /\ Remove(req[t].id)
    /\ Ok(t)
    /\ UNCHANGED <<book, tab, inserted, journals>>

DeleteSharesJournal(t) ==
    /\ At(t, "delete", "sent") /\ book = "shares"
    /\ \E p \in Row(req[t].id) : journals' = {j \in journals : j.doc # p.doc}
    /\ Stage(t, "unposted")
    /\ UNCHANGED <<book, tab, payments, inserted, moves>>

DeleteShares(t) ==
    /\ At(t, "delete", "unposted")
    /\ Remove(req[t].id)
    /\ Ok(t)
    /\ UNCHANGED <<book, tab, inserted, journals>>

NotFound(t) ==
    /\ At(t, "delete", "sent") \/ At(t, "reverse", "sent")
    /\ Row(req[t].id) = {}
    /\ Fails(t)

\* Cancelling reads the move, saves the whole copy inactive, and then reverses
\* the payment a withdrawal is joined to.
ReadCancelled(t) ==
    /\ At(t, "cancel", "sent")
    /\ \E w \in moves :
         /\ w.id = req[t].id
         /\ req' = [req EXCEPT ![t].stage = "read", ![t].copy = {w}]
    /\ UNCHANGED <<book, tab, dbVars>>

SaveCancelled(t) ==
    /\ At(t, "cancel", "read")
    /\ \E w \in req[t].copy :
         IF w.paid # 0 /\ Row(w.paid) = {} THEN Fails(t)
         ELSE /\ moves' = {IF v.id = w.id THEN [w EXCEPT !.active = FALSE] ELSE v :
                             v \in moves}
              /\ IF w.paid = 0 THEN Ok(t) ELSE Stage(t, "saved")
              /\ UNCHANGED <<book, tab, payments, inserted, journals>>

ReturnCancelled(t) ==
    /\ At(t, "cancel", "saved")
    /\ \E w \in req[t].copy :
         payments' = (payments \ Row(w.paid)) \cup Reversed(Row(w.paid))
    /\ Ok(t)
    /\ UNCHANGED <<book, tab, inserted, moves, journals>>

\* A worker that dies keeps what it has committed.
Dies(t) == t \in Served /\ Fails(t)

-----------------------------------------------------------------------------
\* The answers

\* A reversal closes its dialog and loads the register, a deletion of savings
\* takes the row off the list, one of shares loads it, an upload is closed by
\* a timer, a payment entered leads back to the register.
Success(t) ==
    LET s == tab[t] IN
    CASE req[t].op = "delete" ->
           [s EXCEPT !.dialog = "none", !.target = 0, !.list = @ \ {s.target}]
      [] req[t].op = "reverse" -> [s EXCEPT !.dialog = "none", !.target = 0]
      [] OTHER -> s

Answer(t) ==
    /\ req[t].stage = "ok"
    /\ Show(t, Success(t))
    /\ req' = [req EXCEPT ![t] = NoReq]
    /\ UNCHANGED <<book, dbVars>>

\* A failure or a lost answer leaves the form or the dialog open for a retry.
Failure(t) ==
    /\ req[t].stage \in {"ok", "failed"}
    /\ req' = [req EXCEPT ![t] = NoReq]
    /\ UNCHANGED <<book, tab, dbVars>>

-----------------------------------------------------------------------------
AccountsInit ==
    /\ book \in {"savings", "shares"}
    /\ tab = [t \in Tabs |-> Blank("register")]
    /\ req = [t \in Tabs |-> NoReq]
    /\ payments = {} /\ inserted = 0 /\ moves = {} /\ journals = {}

Screens(t) ==
    \/ \E s \in {"register", "new", "moves"} : GotoScreen(t, s)
    \/ LoadRegister(t) \/ LoadWithdrawals(t) \/ LoadTransfers(t)
    \/ OpenReverse(t) \/ OpenDelete(t) \/ OpenUpload(t) \/ CloseDialog(t)
    \/ ConfirmReverse(t) \/ ConfirmDelete(t) \/ UploadFile(t)
    \/ EnterSavings(t) \/ EnterShare(t)
    \/ EnterWithdrawal(t) \/ EnterTransfer(t) \/ CancelWithdrawal(t) \/ CancelTransfer(t)
    \/ Answer(t) \/ Failure(t)

Server(t) ==
    \/ Number(t) \/ Insert(t) \/ Post(t) \/ Upload(t)
    \/ CheckWithdrawal(t) \/ CheckTransfer(t) \/ RefuseMove(t)
    \/ InsertMove(t) \/ Link(t)
    \/ ReadReversed(t) \/ Reverse(t) \/ NotFound(t)
    \/ DeleteSavings(t) \/ DeleteSharesJournal(t) \/ DeleteShares(t)
    \/ ReadCancelled(t) \/ SaveCancelled(t) \/ ReturnCancelled(t)
    \/ Dies(t)

AccountsNext == \E t \in Tabs : Screens(t) \/ Server(t)

AccountsSpec == AccountsInit /\ [][AccountsNext]_accountsVars

-----------------------------------------------------------------------------
\* Properties

\* Rows have keys of their own that were given out, and so have moves.
AccountsTypeOK ==
    /\ payments \subseteq Payment /\ moves \subseteq Move /\ journals \subseteq Journal
    /\ inserted \in Ids /\ \A p \in payments : p.id <= inserted
    /\ \A p, q \in payments : p.id = q.id => p = q
    /\ \A v, w \in moves : v.id = w.id => v = w

\* A step that takes more than a member has: a balance falls below zero, and
\* not for a payment that is reversed or deleted or a move that is cancelled.
Acts(t, ops) == req[t].op \in ops /\ req'[t] # req[t]
Overdraws ==
    /\ \E m \in Members : Balance(m) >= 0 /\ Balance(m)' < 0
    /\ ~\E t \in Tabs : Acts(t, {"reverse", "delete", "cancel"})
=============================================================================
