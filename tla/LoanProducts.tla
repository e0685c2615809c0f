---------------------------- MODULE LoanProducts ----------------------------
(***************************************************************************)
(* The catalogue of loan products and the form that applies for a loan     *)
(* (app/(DashboardLayout)/loan-products, components/loans, backend         *)
(* apps/loans/views/product_views.py).                                     *)
(*                                                                         *)
(* Of the terms of a product, rate stands for all that a loan copies when  *)
(* it is applied for, and span for the limits that an application must     *)
(* keep.  What an operator types is chosen when it is sent.                *)
(***************************************************************************)
EXTENDS Integers, Sequences, FiniteSets

CONSTANTS Tabs,        \* browser tabs, each with one request at most
          Pages,       \* the pages that each tab visits
          Members,     \* members who may apply
          NoOne,       \* no member is chosen
          Codes,       \* product codes
          Seeds,       \* the rows the catalogue begins with, [code, terms]
          Typed,       \* terms that an operator may type in
          Periods,     \* how many installments an applicant may ask for
          Usual,       \* the installments of an application that names none
          MaxRequests  \* how many requests are ever sent

AllPages == {"table", "details", "edit", "new", "apply"}

Terms == [rate : Nat, span : Nat]

ASSUME ProductsAssumption ==
    /\ Pages \in [Tabs -> SUBSET AllPages]
    /\ NoOne \notin Members
    /\ Typed \subseteq Terms
    /\ Seeds \in Seq([code : Codes, terms : Typed])
    /\ \A i, j \in DOMAIN Seeds : i # j => Seeds[i].code # Seeds[j].code
    /\ Periods \subseteq Nat /\ Usual \in Nat
    /\ MaxRequests \in Nat

VARIABLES tab,      \* what each tab shows
          timers,   \* the pages that a tab is about to be sent to
          req,      \* the request of each tab and how far it has come
          products, \* LoanProduct rows, in the order of their keys
          loans,    \* Loan rows
          sent      \* how many requests were sent

vars == <<tab, timers, req, products, loans, sent>>

-----------------------------------------------------------------------------
\* Rows

Ids == 1..Len(products)

\* Of a row, past collects the terms it has had, revived says that it was
\* shown or edited since its code had a new version, and told are the tabs
\* that know the last change of active, or were sent it in an answer.
Row(code, terms) ==
    [code |-> code, terms |-> terms, active |-> TRUE, past |-> {terms},
     revived |-> FALSE, told |-> {}]

Switched(r, on, who) == [r EXCEPT !.active = on, !.revived = on, !.told = who]

\* Fault: a new version leaves the older ones on offer.
Superseded_Kept(r, code) == r

\* A new version takes every older one of its code off the catalogue.
Superseded(r, code) ==
    IF r.code = code THEN Switched(r, FALSE, IF r.active THEN {} ELSE r.told) ELSE r

\* A row is updated in place and is on offer again: the form sends no status.
Edited(r, code, terms) ==
    [Switched(r, TRUE, IF r.active THEN r.told ELSE {}) EXCEPT
       !.code = code, !.terms = terms, !.past = @ \cup {terms}]

Telling(t, seen) ==
    [i \in Ids |-> IF i \in seen THEN [products[i] EXCEPT !.told = @ \cup {t}]
                                 ELSE products[i]]

-----------------------------------------------------------------------------
\* The pages

NoTerms == [rate |-> 0, span |-> 0]

NoReq ==
    [op |-> "none", stage |-> "idle", heard |-> FALSE, id |-> 0, value |-> FALSE,
     code |-> NoOne, terms |-> NoTerms, member |-> NoOne, periods |-> 0, number |-> 0]

\* known is the list that was loaded, over what a page says of a product
\* whatever the list says: the table its own changes, the page of a product
\* its status.  code and terms are the row that an edit began with.
Blank(screen) ==
    [screen |-> screen, id |-> 0, known |-> <<>>, over |-> <<>>,
     code |-> NoOne, terms |-> NoTerms,
     member |-> NoOne, notice |-> NoOne, asked |-> {}]

Free(t) == req[t].stage = "idle"
On(t, screen) == tab[t].screen = screen

\* A request whose page is left goes on, and its answer is shown to nobody.
Unheard(t) ==
    req' = IF Free(t) THEN req ELSE [req EXCEPT ![t].heard = FALSE]

Load(t, new, seen) ==
    /\ tab' = [tab EXCEPT ![t] = new]
    /\ products' = Telling(t, seen)
    /\ UNCHANGED <<loans, sent>>

List == [i \in Ids |-> [active |-> products[i].active, span |-> products[i].terms.span]]

Arrive(t, screen) ==
    /\ Unheard(t)
    /\ CASE screen = "table" -> Load(t, [Blank(screen) EXCEPT !.known = List], Ids)
         [] screen = "apply" -> Load(t, [Blank(screen) EXCEPT !.known = List], {})
         [] OTHER -> Load(t, Blank(screen), {})

Visit(t, screen) ==
    screen \in Pages[t] /\ ~On(t, screen) /\ Arrive(t, screen) /\ UNCHANGED timers

\* What a page shows of the status of a row.
Label(t, i) ==
    IF i \in DOMAIN tab[t].over THEN tab[t].over[i] ELSE tab[t].known[i].active

Shows(t, i) ==
    \/ On(t, "table") /\ i \in DOMAIN tab[t].known
    \/ On(t, "details") /\ tab[t].id = i

\* The page of a product, and the form that holds its row as it is now, from
\* the table or by their address.
OpenDetails(t) ==
    /\ "details" \in Pages[t] /\ Unheard(t) /\ UNCHANGED timers
    /\ \E i \in Ids :
         Load(t, [Blank("details") EXCEPT !.id = i,
                    !.over = [j \in {i} |-> products[i].active]], {i})

OpenEdit(t) ==
    /\ "edit" \in Pages[t] /\ Unheard(t) /\ UNCHANGED timers
    /\ \E i \in Ids :
         Load(t, [Blank("edit") EXCEPT !.id = i, !.code = products[i].code,
                    !.terms = products[i].terms], {})

\* A timer set after a save takes the tab to its page from wherever it is.
Redirect(t) ==
    \E p \in timers[t] :
      timers' = [timers EXCEPT ![t] = @ \ {p}] /\ Arrive(t, p)

Send(t, r) ==
    /\ Free(t) /\ sent < MaxRequests
    /\ sent' = sent + 1
    /\ req' = [req EXCEPT ![t] = [r EXCEPT !.stage = "sent", !.heard = TRUE]]
    /\ UNCHANGED <<tab, timers, products, loans>>

\* The table names the status that it asks for, ...
Toggle(t) ==
    /\ On(t, "table")
    /\ \E i \in DOMAIN tab[t].known :
         Send(t, [NoReq EXCEPT !.op = "set", !.id = i, !.value = ~Label(t, i)])

\* ... the page of a product only asks for the other one.
Flip(t) ==
    On(t, "details") /\ Send(t, [NoReq EXCEPT !.op = "flip", !.id = tab[t].id])

SaveEdit(t) ==
    /\ On(t, "edit")
    /\ \E c \in Codes, new \in Typed :
         /\ c = tab[t].code \/ new = tab[t].terms
         /\ Send(t, [NoReq EXCEPT !.op = "update", !.id = tab[t].id,
                                  !.code = c, !.terms = new])

SaveNew(t) ==
    /\ On(t, "new")
    /\ \E c \in Codes, new \in Typed :
         Send(t, [NoReq EXCEPT !.op = "create", !.code = c, !.terms = new])

-----------------------------------------------------------------------------
\* The form of an application

\* Choosing a member takes a notice away and asks for the member's loans.
SelectMember(t) ==
    /\ On(t, "apply") /\ Free(t)
    /\ \E m \in Members :
         tab' = [tab EXCEPT ![t].member = m, ![t].notice = NoOne, ![t].asked = @ \cup {m}]
    /\ UNCHANGED <<timers, req, products, loans, sent>>

ClearMember(t) ==
    /\ On(t, "apply") /\ Free(t) /\ tab[t].member # NoOne
    /\ tab' = [tab EXCEPT ![t].member = NoOne]
    /\ UNCHANGED <<timers, req, products, loans, sent>>

HasOpenLoan(m) == \E l \in loans : l.member = m

\* An open loan is announced, whoever is chosen by now.
NoticeArrives(t) ==
    /\ \E m \in tab[t].asked :
         \/ tab' = [tab EXCEPT ![t].asked = @ \ {m}]
         \/ HasOpenLoan(m) /\ tab' = [tab EXCEPT ![t].asked = @ \ {m}, ![t].notice = m]
    /\ UNCHANGED <<timers, req, products, loans, sent>>

\* The products that the list had on offer when the form was opened.
Offered(t) == {i \in DOMAIN tab[t].known : tab[t].known[i].active}

Submit(t) ==
    /\ On(t, "apply") /\ tab[t].member # NoOne /\ tab[t].notice = NoOne
    /\ \E i \in Offered(t), n \in Periods \cup {Usual} :
         /\ n <= tab[t].known[i].span \/ n = Usual
         /\ Send(t, [NoReq EXCEPT !.op = "apply", !.id = i,
                                  !.member = tab[t].member, !.periods = n])

-----------------------------------------------------------------------------
\* The server

At(t, op, stage) == req[t].op = op /\ req[t].stage = stage

\* A change of status has come this far.
Toggles(t, stage) == At(t, "set", stage) \/ At(t, "flip", stage)

\* The page will be told what became of the row.
Answers(t, i) == Toggles(t, "ok") /\ req[t].heard /\ req[t].id = i

\* Every failure, and the loss of an answer, leave the page as it is, which
\* then does not know what became of a row.
Fail(t) ==
    /\ ~Free(t)
    /\ req' = [req EXCEPT ![t] = NoReq]
    /\ products' = [i \in Ids |-> IF Answers(t, i) THEN [products[i] EXCEPT !.told = @ \ {t}]
                                                   ELSE products[i]]
    /\ UNCHANGED <<tab, timers, loans, sent>>

Done(t, on) ==
    req' = [req EXCEPT ![t] = [NoReq EXCEPT !.op = req[t].op, !.stage = "ok", !.id = req[t].id,
                                            !.heard = req[t].heard, !.value = on]]

\* toggle_status reads the row and then writes its status only.
ReadStatus(t) ==
    /\ Toggles(t, "sent")
    /\ req' = [req EXCEPT ![t].stage = "read",
         ![t].value = IF req[t].op = "flip" THEN ~products[req[t].id].active ELSE @]
    /\ UNCHANGED <<tab, timers, products, loans, sent>>

WriteStatus(t) ==
    /\ Toggles(t, "read")
    /\ products' = [products EXCEPT ![req[t].id] =
         Switched(@, req[t].value, IF req[t].heard THEN {t} ELSE {})]
    /\ Done(t, req[t].value)
    /\ UNCHANGED <<tab, timers, loans, sent>>

\* Where another row has the code in the same version, the save fails.
Update(t) ==
    /\ At(t, "update", "sent")
    /\ products' = [products EXCEPT ![req[t].id] = Edited(@, req[t].code, req[t].terms)]
    /\ Done(t, FALSE)
    /\ UNCHANGED <<tab, timers, loans, sent>>

\* Of two new versions at once, the second breaks the unique number.
Create(t) ==
    /\ At(t, "create", "sent")
    /\ products' = Append([i \in Ids |-> Superseded(products[i], req[t].code)],
                          Row(req[t].code, req[t].terms))
    /\ Done(t, FALSE)
    /\ UNCHANGED <<tab, timers, loans, sent>>

\* An application is checked against the product as it is now, ...
Validate(t) ==
    LET p == products[req[t].id] IN
    /\ At(t, "apply", "sent")
    /\ req[t].periods <= p.terms.span /\ ~HasOpenLoan(req[t].member)
    /\ req' = [req EXCEPT ![t] =
         [@ EXCEPT !.stage = "read", !.terms = p.terms, !.number = Cardinality(loans) + 1]]
    /\ UNCHANGED <<tab, timers, products, loans, sent>>

\* Fault: the rate is looked up again when the loan is inserted.
CopiedRate_Now(q) == products[q.id].terms.rate

\* ... and the loan copies what the check had read.
CopiedRate(q) == q.terms.rate

Insert(t) ==
    LET q == req[t] IN
    /\ At(t, "apply", "read")
    /\ \A l \in loans : l.number # q.number
    /\ loans' = loans \cup {[number |-> q.number, member |-> q.member, product |-> q.id,
                             periods |-> q.periods, rate |-> CopiedRate(q)]}
    /\ Done(t, FALSE)
    /\ UNCHANGED <<tab, timers, products, sent>>

\* Fault: the page of a product keeps the label it had.
Relabelled_Not(old, r) == old

\* A change that was answered is shown by the page, and remembered by the table.
Relabelled(old, r) ==
    [old EXCEPT !.over = [i \in DOMAIN @ \cup {r.id} |-> IF i = r.id THEN r.value ELSE @[i]]]

AnswerToggle(t) ==
    /\ Toggles(t, "ok") /\ req[t].heard
    /\ tab' = [tab EXCEPT ![t] = Relabelled(@, req[t])]
    /\ req' = [req EXCEPT ![t] = NoReq]
    /\ UNCHANGED <<timers, products, loans, sent>>

\* The table loads its list again after each change; what it remembers, or
\* is about to hear of a change of its own, stays.
Refresh(t) ==
    /\ On(t, "table") /\ DOMAIN tab[t].over # {}
    /\ tab' = [tab EXCEPT ![t].known = List]
    /\ products' = Telling(t, {i \in Ids \ DOMAIN tab[t].over :
                                 req[t].op \in {"set", "flip"} => req[t].id # i})
    /\ UNCHANGED <<timers, req, loans, sent>>

\* A save that was answered sets a timer, even where its form is left; the
\* form of an application is blank again.
AnswerSave(t) ==
    /\ req[t].stage = "ok" /\ req[t].op \in {"update", "create", "apply"}
    /\ timers' = [timers EXCEPT ![t] =
         @ \cup {IF req[t].op = "apply" THEN "home" ELSE "table"}]
    /\ tab' = [tab EXCEPT ![t].member = IF req[t].heard THEN NoOne ELSE @]
    /\ req' = [req EXCEPT ![t] = NoReq]
    /\ UNCHANGED <<products, loans, sent>>

-----------------------------------------------------------------------------
Init ==
    /\ tab = [t \in Tabs |-> Blank("home")]
    /\ timers = [t \in Tabs |-> {}]
    /\ req = [t \in Tabs |-> NoReq]
    /\ products = [i \in DOMAIN Seeds |-> Row(Seeds[i].code, Seeds[i].terms)]
    /\ loans = {} /\ sent = 0

Screens(t) ==
    \/ \E s \in {"table", "new", "apply"} : Visit(t, s)
    \/ OpenDetails(t) \/ OpenEdit(t) \/ Redirect(t) \/ Refresh(t)
    \/ Toggle(t) \/ Flip(t) \/ SaveEdit(t) \/ SaveNew(t)
    \/ SelectMember(t) \/ ClearMember(t) \/ NoticeArrives(t) \/ Submit(t)
    \/ AnswerToggle(t) \/ AnswerSave(t)

Server(t) ==
    \/ ReadStatus(t) \/ WriteStatus(t) \/ Update(t) \/ Create(t)
    \/ Validate(t) \/ Insert(t) \/ Fail(t)

Next == \E t \in Tabs : Screens(t) \/ Server(t)

Spec == Init /\ [][Next]_vars

-----------------------------------------------------------------------------
\* Properties

Rows ==
    [code : Codes, terms : Typed, active : BOOLEAN, past : SUBSET Typed,
     revived : BOOLEAN, told : SUBSET Tabs]

Overs == UNION {[ids -> BOOLEAN] : ids \in SUBSET Ids}

Screen ==
    [screen : AllPages \cup {"home"}, id : Nat,
     known : Seq([active : BOOLEAN, span : Nat]),
     over : Overs,
     code : Codes \cup {NoOne}, terms : Terms,
     member : Members \cup {NoOne}, notice : Members \cup {NoOne}, asked : SUBSET Members]

Requests ==
    [op : {"none", "set", "flip", "update", "create", "apply"},
     stage : {"idle", "sent", "read", "ok"}, heard : BOOLEAN, id : Nat, value : BOOLEAN,
     code : Codes \cup {NoOne}, terms : Terms, member : Members \cup {NoOne},
     periods : Nat, number : Nat]

Loans == [number : Nat, member : Members, product : Nat, periods : Nat, rate : Nat]

\* Every record has its shape, and what refers to a product or to a member
\* refers to one that is there.
TypeOK ==
    /\ tab \in [Tabs -> Screen] /\ req \in [Tabs -> Requests]
    /\ timers \in [Tabs -> SUBSET {"table", "home"}]
    /\ products \in Seq(Rows) /\ loans \in SUBSET Loans /\ sent \in Nat
\* The rate and the length of a loan come from the same terms of its product,
\* terms it really had, however the product is edited while the application
\* is filled in, checked and inserted (LoanViewSet.perform_create).
TermsOfOneProduct ==
    \A l \in loans : \E terms \in products[l.product].past :
      l.rate = terms.rate /\ l.periods <= terms.span

\* A code has one version on offer, unless one was shown again or edited since
\* the last version was made (LoanProductSerializer.create).
OneVersionOnOffer ==
    \A i, j \in Ids :
      /\ i # j /\ products[i].code = products[j].code
      /\ products[i].active /\ products[j].active
      => products[i].revived \/ products[j].revived

\* What a page calls a product is what it is, until someone else changes that,
\* or the answer to a change of its own is lost: an operator who was told of
\* the last change never hides what should be shown (handleToggle).
LabelIsTrue ==
    \A t \in Tabs, i \in Ids :
      t \in products[i].told /\ Free(t) /\ Shows(t, i) => Label(t, i) = products[i].active
=============================================================================
