--------------------------- MODULE DeductionRoll ---------------------------
(***************************************************************************)
(* The monthly check-off: the sheet of what each member is to be deducted  *)
(* in a month, the page that generates, edits and clears it, the upload    *)
(* of what employers remitted (app/(DashboardLayout)/deductions, backend   *)
(* apps/deductions).                                                       *)
(*                                                                         *)
(* A line expects charges, interest and principal of the member's loans,   *)
(* the registration fee and a rest, which is savings, shares and others:   *)
(* what a remittance has left over goes to savings anyway.  The schedules  *)
(* of loans expect interest and principal; no charge is ever put on them.  *)
(* Generating again and uploading are transactions that read their rows,   *)
(* work, and write the whole copies when they commit.                      *)
(***************************************************************************)
EXTENDS Integers, FiniteSets, Functions

CONSTANTS Members,      \* active members
          Months,       \* the months that are worked on
          Tabs,         \* browser tabs, each with one request at most
          Pages,        \* the pages, roll and upload, that each tab visits
          Loans,        \* loans that members may come to have
          Borrower,     \* the member whose loan it is
          Installments, \* LoanScheduleEntry rows of these loans
          Of,           \* the loan that an installment is part of
          In,           \* the month in which it falls due
          DueInterest,  \* what an installment is due
          DuePrincipal,
          Estimates,    \* what is estimated where no installment is in a month
          Fee,          \* the registration fee of a member
          Default,      \* the savings expected of every member
          Typed,        \* amounts that an operator may type in
          Remitted,     \* amounts an employer remits for a member
          MaxRows,      \* how many lines are ever inserted
          MaxBatches,   \* how many uploads are ever begun
          MaxEvents     \* how often amounts are typed or something happens elsewhere

Screens == {"roll", "upload"}
Parts == [charges : Nat, interest : Nat, principal : Nat]
NoParts == [charges |-> 0, interest |-> 0, principal |-> 0]

ASSUME RollAssumption ==
    /\ IsFiniteSet(Members) /\ IsFiniteSet(Installments)
    /\ Pages \in [Tabs -> SUBSET Screens]
    /\ Borrower \in [Loans -> Members]
    /\ Of \in [Installments -> Loans] /\ In \in [Installments -> Months]
    /\ DueInterest \in Nat /\ DuePrincipal \in Nat /\ Estimates \subseteq Parts
    /\ Fee \in Nat /\ Default \in Nat
    /\ Typed \subseteq Nat /\ Remitted \subseteq Nat \ {0}
    /\ MaxRows \in Nat /\ MaxBatches \in Nat /\ MaxEvents \in Nat

VARIABLES tab,      \* what each tab shows
          req,      \* the request of each tab and how far it has come
          rows,     \* MonthlyDeduction rows
          made,     \* how many of them were ever inserted
          batches,  \* how many MonthlyDeductionBatch rows there are
          logs,     \* MonthlyDeductionItemLog rows of committed uploads
          entries,  \* of each installment, how its loan stands and what is paid
          feePaid,  \* Member.registration_fee_paid
          undone,   \* fees that were taken and an edit of the member took back
          events    \* how often that was

dbVars == <<rows, made, batches, logs, entries, feePaid, undone, events>>
vars == <<tab, req, dbVars>>

-----------------------------------------------------------------------------
\* Data

Least(m, n) == IF m < n THEN m ELSE n
Greater(m, n) == IF m < n THEN n ELSE m

\* Of a line, asof is the schedule that its loan parts were worked out from,
\* and altered says that its amount paid was typed, or that a copy of it was
\* saved over another's remittance.
Keyed(id) == {r \in rows : r.id = id}
Line(m, k) == {r \in rows : r.member = m /\ r.month = k}

\* A copy is saved over the row with its key; where that was deleted it is
\* inserted again, unless the member has another line by then.
Saved(copies) == {r \in rows : \A c \in copies : c.id # r.id} \cup copies
Clash(copies) == \E c \in copies : \E r \in Line(c.member, c.month) : r.id # c.id

\* Whether a copy is saved over an amount paid that it does not know.
Overlays(c) == c.altered \/ \A r \in Keyed(c.id) : r.altered \/ r.paid # c.paid

\* The installments of a month that the running loans of a member have.
Holder(i) == Borrower[Of[i]]
Running == {"active", "doubtful"}
Schedule(m, k) ==
    {i \in Installments : Holder(i) = m /\ In[i] = k /\ entries[i].standing \in Running}
Snapshot(m, k) == [i \in Schedule(m, k) |-> entries[i]]
Unfigured == [i \in {} |-> 0]

\* Fault: the roll asks for an installment as if nothing had been paid of it.
Remaining_Whole(due, paid) == due

Remaining(due, paid) == Greater(0, due - paid)

\* What a schedule still asks for, a sum over all loans of the member.
Asked(s) ==
    [charges   |-> 0,
     interest  |-> SumFunction([i \in DOMAIN s |-> Remaining(DueInterest, s[i].interest)]),
     principal |-> SumFunction([i \in DOMAIN s |-> Remaining(DuePrincipal, s[i].principal)])]

\* The loan parts of a line now, and from which schedule; savings that were
\* typed are kept.
Figured(r, estimate) ==
    LET s == Snapshot(r.member, r.month) IN
    [r EXCEPT !.loan = IF DOMAIN s = {} THEN estimate ELSE Asked(s), !.asof = s,
              !.savings = IF @ = 0 THEN Default ELSE @]

Blankline(id, m, k) ==
    [id |-> id, member |-> m, month |-> k, loan |-> NoParts, fee |-> 0,
     savings |-> Default, paid |-> 0, asof |-> Unfigured, altered |-> FALSE]

Newline(id, m, k, estimate) ==
    Figured([Blankline(id, m, k) EXCEPT !.fee = IF m \in feePaid THEN 0 ELSE Fee], estimate)

-----------------------------------------------------------------------------
\* The pages

NoReq == [op |-> "none", stage |-> "idle"]
NoForm == [id |-> 0]

Blank(screen) ==
    [screen |-> screen, dialog |-> "none", form |-> NoForm]

Free(t) == req[t].stage = "idle"
On(t, screen) == tab[t].screen = screen /\ tab[t].dialog = "none"
Shows(t, dialog) == tab[t].dialog = dialog

Show(t, new) == tab' = [tab EXCEPT ![t] = new] /\ UNCHANGED <<req, dbVars>>
Open(t, dialog, form) == Show(t, [tab[t] EXCEPT !.dialog = dialog, !.form = form])

Send(t, r) ==
    /\ Free(t)
    /\ req' = [req EXCEPT ![t] = r]
    /\ UNCHANGED <<tab, dbVars>>

Visit(t, screen) ==
    /\ Free(t) /\ tab[t].dialog = "none" /\ tab[t].screen # screen
    /\ Show(t, Blank(screen))

\* The lines that the table lists, for some filter of month and status.  A
\* list that has become old is a dialog that was opened when it was new.
Register(t) == IF tab[t].screen = "roll" THEN rows ELSE {}

\* The form is a copy of the line on display, the amount paid with it.
OpenEdit(t) == On(t, "roll") /\ \E r \in Register(t) : Open(t, "edit", r)
OpenCreate(t) == On(t, "roll") /\ Open(t, "create", NoForm)
OpenDelete(t) == On(t, "roll") /\ \E r \in Register(t) : Open(t, "delete", [id |-> r.id])

Close(t) == tab[t].dialog # "none" /\ Open(t, "none", NoForm)

Regenerate(t) ==
    /\ On(t, "roll")
    /\ \E k \in Months : Send(t, [op |-> "regenerate", stage |-> "sent", month |-> k])

\* A file credits some members with an amount each.  It stays chosen after its
\* upload, so that it can be sent again.
Upload(t) ==
    /\ On(t, "upload")
    /\ \E k \in Months, named \in (SUBSET Members) \ {{}} :
         \E file \in [named -> Remitted] :
           Send(t, [op |-> "upload", stage |-> "sent", file |-> file, month |-> k])

-----------------------------------------------------------------------------
\* The server

At(t, op, stage) == req[t].op = op /\ req[t].stage = stage

\* An answer, and as much a failure or an answer that is lost, leaves
\* everything on the page in place for another try.
Ends(t) == req' = [req EXCEPT ![t] = NoReq]
Fail(t) == Ends(t) /\ UNCHANGED <<tab, dbVars>>

\* A line that a transaction has inserted is waited for by whoever looks it up.
Inserting(m, k) ==
    \E u \in Tabs : req[u].stage = "read" /\ \E r \in req[u].new : r.member = m /\ r.month = k
Waits(who, k) == \E m \in who : Inserting(m, k)

\* Keys for the members of a set who have no line in a month yet.
Missing(who, k) == {m \in who : Line(m, k) = {}}
Keys(who) == Bijection(who, made + 1 .. made + Cardinality(who))

-----------------------------------------------------------------------------
\* Requests about one line, which the server carries out in one step.

\* The answer closes the dialog; a failure, or an answer that is lost, leaves
\* it open for another try.
Answered(t) ==
    /\ \/ tab' = [tab EXCEPT ![t].dialog = "none", ![t].form = NoForm]
       \/ UNCHANGED tab
    /\ UNCHANGED <<req, batches, entries, feePaid, undone>>

Event == events < MaxEvents /\ events' = events + 1
TypedOver(so) == IF so THEN Event ELSE UNCHANGED events

\* What a field has that was copied, or that the operator has typed over it.
Entry(n) == Typed \cup {n}
Amounts(p) ==
    [charges : Entry(p.charges), interest : Entry(p.interest), principal : Entry(p.principal)]

\* Every amount of the line may be typed, the amount paid as well; the rest
\* goes along as it was copied.
SaveEdit(t) ==
    LET old == tab[t].form IN
    /\ Shows(t, "edit") /\ Free(t) /\ Keyed(old.id) # {}
    /\ \E loan \in Amounts(old.loan), fee \in Entry(old.fee), savings \in Entry(old.savings),
          paid \in Entry(old.paid) :
         LET new == [old EXCEPT !.loan = loan, !.fee = fee, !.savings = savings, !.paid = paid] IN
         /\ TypedOver(new # old)
         /\ rows' = Saved({[new EXCEPT !.asof = IF loan = old.loan THEN @ ELSE Unfigured,
                                       !.altered = Overlays(old) \/ paid # old.paid]})
    /\ Answered(t)
    /\ UNCHANGED <<made, logs>>

\* A second line of a member in a month would break the unique key.
SaveCreate(t) ==
    /\ Shows(t, "create") /\ Free(t) /\ made < MaxRows
    /\ made' = made + 1
    /\ \E m \in Members, k \in Months, loan \in Amounts(NoParts), savings \in Entry(Default) :
         /\ Line(m, k) = {} /\ ~Inserting(m, k)
         /\ TypedOver(loan # NoParts \/ savings # Default)
         /\ rows' = rows \cup {[Blankline(made', m, k) EXCEPT !.loan = loan, !.savings = savings]}
    /\ Answered(t)
    /\ UNCHANGED logs

\* The lines of uploads lose their key to the row.
Delete(t) ==
    LET id == tab[t].form.id IN
    /\ Shows(t, "delete") /\ Free(t) /\ Keyed(id) # {}
    /\ rows' = rows \ Keyed(id)
    /\ logs' = {IF l.row = id THEN [l EXCEPT !.row = 0] ELSE l : l \in logs}
    /\ Answered(t)
    /\ UNCHANGED <<made, events>>

\* Lines for the active members who have none in the month.
Generate(t) ==
    /\ On(t, "roll") /\ Free(t)
    /\ \E k \in Months : LET who == Missing(Members, k) IN
         /\ who # {} /\ ~Waits(who, k)
         /\ made + Cardinality(who) <= MaxRows
         /\ made' = made + Cardinality(who)
         /\ \E id \in Keys(who), estimate \in [Members -> Estimates] :
              rows' = rows \cup {Newline(id[m], m, k, estimate[m]) : m \in who}
    /\ UNCHANGED <<tab, req, batches, logs, entries, feePaid, undone, events>>

-----------------------------------------------------------------------------
\* Transactions over many lines

\* Generating again inserts what is missing and reads the other lines, ...
ReadLines(t) ==
    LET k == req[t].month
        who == Missing(Members, k) IN
    /\ At(t, "regenerate", "sent") /\ ~Waits(who, k)
    /\ made + Cardinality(who) <= MaxRows
    /\ made' = made + Cardinality(who)
    /\ \E id \in Keys(who), estimate \in [Members -> Estimates] :
         req' = [req EXCEPT ![t] = [op |-> "regenerate", stage |-> "read", month |-> k,
           copies |-> {Figured(r, estimate[r.member]) : r \in {s \in rows : s.month = k}},
           new |-> {Newline(id[m], m, k, estimate[m]) : m \in who}]]
    /\ UNCHANGED <<tab, rows, batches, logs, entries, feePaid, undone, events>>

\* ... and saves them with the loan parts worked out from the schedules.
SaveLines(t) ==
    /\ At(t, "regenerate", "read")
    /\ IF Clash(req[t].copies) THEN Fail(t)
       ELSE /\ rows' = Saved({[c EXCEPT !.altered = Overlays(c)] : c \in req[t].copies}
                               \cup req[t].new)
            /\ Ends(t)
            /\ UNCHANGED <<tab, made, batches, logs, entries, feePaid, undone, events>>

\* The batch is saved before the transaction of its lines begins.
SaveBatch(t) ==
    /\ At(t, "upload", "sent") /\ batches < MaxBatches
    /\ batches' = batches + 1
    /\ req' = [req EXCEPT ![t] = [op |-> "upload", stage |-> "saved", file |-> @.file,
                                  month |-> @.month, batch |-> batches']]
    /\ UNCHANGED <<tab, rows, made, logs, entries, feePaid, undone, events>>

\* Each line of the file finds its row, or gets one that expects savings only.
ReadFile(t) ==
    LET q == req[t]
        k == q.month
        named == DOMAIN q.file
        who == Missing(named, k) IN
    /\ At(t, "upload", "saved") /\ ~Waits(who, k)
    /\ made + Cardinality(who) <= MaxRows
    /\ made' = made + Cardinality(who)
    /\ \E id \in Keys(who) :
         req' = [req EXCEPT ![t] = [op |-> "upload", stage |-> "read",
           file |-> q.file, month |-> k, batch |-> q.batch,
           copies |-> {r \in rows : r.member \in named /\ r.month = k},
           new |-> {Blankline(id[m], m, k) : m \in who},
           due |-> [m \in named |-> Snapshot(m, k)],
           exempt |-> feePaid,
           known |-> {<<l.member, l.batch>> : l \in {x \in logs : x.fee}} \ undone]]
    /\ UNCHANGED <<tab, rows, batches, logs, entries, feePaid, undone, events>>

\* The waterfall: the loan first, then a registration fee that is not paid.
Allotted(r, n) ==
    LET charges  == Least(n, r.loan.charges)
        interest == Least(n - charges, r.loan.interest) IN
    [charges |-> charges, interest |-> interest,
     principal |-> Least(n - charges - interest, r.loan.principal)]

LoanPart(r, n) ==
    LET a == Allotted(r, n) IN a.charges + a.interest + a.principal

\* Fault: the fee is taken of whoever has it on the line.
FeePart_Always(r, n, exempt) == Least(n - LoanPart(r, n), r.fee)

FeePart(r, n, exempt) ==
    IF r.member \in exempt THEN 0 ELSE Least(n - LoanPart(r, n), r.fee)

PaysFee(r, n, exempt) == r.fee > 0 /\ FeePart(r, n, exempt) = r.fee

\* The installments that an upload credits, of the schedule as it has read it:
\* those of a doubtful loan are not among them.
Served(s) == {i \in DOMAIN s : s[i].standing = "active" /\ ~s[i].settled}

Settled(interest, principal) == interest >= DueInterest /\ principal >= DuePrincipal

\* Every one of them takes as much of the whole amount as it was ever due.
Taken(due, amount) == Least(amount, due)

Credited(e, a) ==
    LET interest  == e.interest + Taken(DueInterest, a.interest)
        principal == e.principal + Taken(DuePrincipal, a.principal) IN
    [e EXCEPT !.interest = interest, !.principal = principal,
              !.settled = Settled(interest, principal)]

\* What the installments that are credited take together.
Reaching(s, a) ==
    [interest  |-> SumFunction([i \in Served(s) |-> Credited(s[i], a).interest - s[i].interest]),
     principal |-> SumFunction([i \in Served(s) |-> Credited(s[i], a).principal - s[i].principal])]

\* Fault: the amount paid is what came in last.
PaidAfter_Last(r, n) == n

PaidAfter(r, n) == r.paid + n

\* A line of the log.  Beside what the row holds it says
\*   fresh    whether the loan parts came from the schedule as the upload read
\*            it, and every loan of that is credited by uploads;
\*   several  whether more than one installment is in it;
\*   short    whether less reached the installments than was allotted;
\*   over     whether more did;
\*   known    the uploads whose fee of the member was in when this one read.
Log(q, r) ==
    LET n == q.file[r.member]
        s == q.due[r.member]
        a == Allotted(r, n)
        into == Reaching(s, a) IN
    [batch |-> q.batch, row |-> r.id, member |-> r.member, month |-> q.month,
     remitted |-> n, fee |-> PaysFee(r, n, q.exempt),
     fresh |-> r.asof = s /\ s # Unfigured /\ \A i \in DOMAIN s : s[i].standing = "active",
     several |-> \E i, j \in DOMAIN s : i # j,
     short |-> into.interest < a.interest \/ into.principal < a.principal,
     over |-> into.interest > a.interest \/ into.principal > a.principal,
     known |-> {b \in 1..batches : <<r.member, b>> \in q.known}]

\* The copies of the installments are written, whatever they have become since.
Credits(q, r, i) ==
    /\ r.member = Holder(i) /\ LoanPart(r, q.file[r.member]) > 0
    /\ i \in Served(q.due[r.member])

AfterCredit(q, i) ==
    IF \E r \in q.copies : Credits(q, r, i)
    THEN LET r == CHOOSE s \in q.copies : Credits(q, s, i) IN
         [Credited(q.due[r.member][i], Allotted(r, q.file[r.member]))
            EXCEPT !.standing = entries[i].standing]
    ELSE entries[i]

\* All lines of a file are written in one commit, or none is.
Commit(t) ==
    LET q == req[t]
        After(r) == [r EXCEPT !.paid = PaidAfter(r, q.file[r.member])] IN
    /\ At(t, "upload", "read")
    /\ IF Clash(q.copies) THEN Fail(t)
       ELSE /\ rows' = Saved({After([r EXCEPT !.altered = Overlays(r)]) : r \in q.copies}
                               \cup {After(r) : r \in q.new})
            /\ logs' = logs \cup {Log(q, r) : r \in q.copies \cup q.new}
            /\ feePaid' = feePaid \cup {r.member : r \in {s \in q.copies :
                                          PaysFee(s, q.file[s.member], q.exempt)}}
            /\ entries' = [i \in Installments |-> AfterCredit(q, i)]
            /\ Ends(t)
            /\ UNCHANGED <<tab, made, batches, undone, events>>

\* A worker that dies, or a row that cannot be written, rolls the transaction
\* back and leaves the batch.
Die(t) == ~Free(t) /\ Fail(t)

\* What happens elsewhere meanwhile.

\* An edit of the member writes the flag of the fee that its draft holds, which
\* may be old or just have been chosen.
SaveMember(m) ==
    /\ Event
    /\ \/ feePaid' = feePaid \cup {m} /\ UNCHANGED undone
       \/ /\ feePaid' = feePaid \ {m}
          /\ undone' = undone \cup {<<m, l.batch>> : l \in {x \in logs : x.member = m /\ x.fee}}
    /\ UNCHANGED <<tab, req, rows, made, batches, logs, entries>>

OfLoans == Event /\ UNCHANGED <<tab, req, rows, made, batches, logs, feePaid, undone>>

\* A loan is paid out and gets its schedule, falls into doubt or out of it by
\* its age, and is closed (LoanLifecycle).
Stand(n, old, new) ==
    /\ \A i \in Installments : Of[i] = n => entries[i].standing = old
    /\ entries' = [i \in Installments |->
         IF Of[i] = n THEN [entries[i] EXCEPT !.standing = new] ELSE entries[i]]
    /\ OfLoans
Turn(n) ==
    \/ Stand(n, "none", "active")
    \/ Stand(n, "active", "doubtful") \/ Stand(n, "doubtful", "active")
    \/ Stand(n, "active", "closed") \/ Stand(n, "doubtful", "closed")

\* An installment is paid at the counter, its interest first (Repayment).
PayAtCounter(i) ==
    LET e == entries[i]
        interest  == Remaining(DueInterest, e.interest)
        principal == Remaining(DuePrincipal, e.principal) IN
    /\ e.standing \in Running
    /\ \E n \in 1..(interest + principal) :
         LET paidI == e.interest + Least(n, interest)
             paidP == e.principal + Greater(0, n - interest) IN
         entries' = [entries EXCEPT ![i] = [e EXCEPT !.interest = paidI, !.principal = paidP,
                                                     !.settled = Settled(paidI, paidP)]]
    /\ OfLoans

-----------------------------------------------------------------------------
Init ==
    /\ \E at \in [Tabs -> Screens] : /\ \A t \in Tabs : at[t] \in Pages[t]
                                   /\ tab = [t \in Tabs |-> Blank(at[t])]
    /\ req = [t \in Tabs |-> NoReq]
    /\ rows = {} /\ made = 0 /\ batches = 0 /\ logs = {}
    /\ feePaid = {} /\ undone = {} /\ events = 0
    /\ \E standing \in [Loans -> {"none", "active"}] :
         entries = [i \in Installments |->
           [standing |-> standing[Of[i]], interest |-> 0, principal |-> 0, settled |-> Settled(0, 0)]]

Page(t) ==
    \/ \E s \in Pages[t] : Visit(t, s)
    \/ OpenEdit(t) \/ OpenCreate(t) \/ OpenDelete(t) \/ Close(t)
    \/ SaveEdit(t) \/ SaveCreate(t) \/ Delete(t)
    \/ Generate(t) \/ Regenerate(t)
    \/ Upload(t)

Server(t) ==
    \/ ReadLines(t) \/ SaveLines(t)
    \/ SaveBatch(t) \/ ReadFile(t) \/ Commit(t) \/ Die(t)

Next ==
    \/ \E t \in Tabs : Page(t) \/ Server(t)
    \/ \E m \in Members : SaveMember(m)
    \/ \E n \in Loans : Turn(n)
    \/ \E i \in Installments : PayAtCounter(i)

Spec == Init /\ [][Next]_vars

-----------------------------------------------------------------------------
\* Properties

\* The lines of the log for one row of the sheet.
Logged(id) == {l \in logs : l.row = id}

\* What a line says was paid is what uploads remitted for it, unless the amount
\* paid was typed (handleSaveEdit) or a copy of the line older than the last
\* remittance was saved over it: by an edit from a form that was open, or by a
\* generation or an upload that ran beside another
\* (generate_monthly_deductions, process_deductions_bulk_upload).
PaidIsRemitted ==
    \A r \in rows : ~r.altered =>
      r.paid = SumFunction([l \in Logged(r.id) |-> l.remitted])

\* The registration fee of a member is taken in full once, however many months
\* have it on the sheet, whatever is typed on it and however often a file is
\* sent again.  It is taken again by an upload that overlaps the one that took
\* it, and after an edit of the member has written the flag back
\* (process_deductions_bulk_upload, MemberService.update_member).
FeeTakenOnce ==
    \A l, o \in logs : l # o /\ l.member = o.member /\ l.fee /\ o.fee =>
      l.batch \notin o.known /\ o.batch \notin l.known

\* Where the sheet is as new as the schedule and no loan is in doubt, no
\* shilling of the loan parts is lost on the way to the installments, and one
\* that stands alone in its month takes no more than its part.  Each of several
\* takes the whole amount, as far as it was due
\* (process_deductions_bulk_upload, generate_monthly_deductions).
LoanPartReachesSchedule ==
    \A l \in logs : l.fresh => ~l.short /\ (l.over => l.several)
=============================================================================
