------------------------- MODULE LoanProductsProofs -------------------------
(***************************************************************************)
(* For any number of tabs, products, terms and requests: a loan has the    *)
(* terms of one state of its product, a code has one version on offer      *)
(* unless one was shown again, and a page that was told of the last change *)
(* of a status shows it. And, for any loan under those terms, what         *)
(* Repayment makes of its payments: overlapping ones forgive no debt, until *)
(* two overlap each does what LoanHeader promises, and a reducing balance  *)
(* is charged the rate of the loan.                                        *)
(***************************************************************************)
EXTENDS LoanProducts, SequenceTheorems, FiniteSetTheorems, RepaymentTurns, OperatorProofs, TLAPS

-----------------------------------------------------------------------------
\* The invariants

\* What refers to a product or a member refers to one that is there.
ScreenRefs(s, ids) ==
    /\ DOMAIN s.known \subseteq ids
    /\ s.screen \in {"details", "edit"} => s.id \in ids

RequestRefs(q, ids) ==
    /\ q.op \in {"set", "flip", "update", "apply"} => q.id \in ids
    /\ q.op \in {"update", "create"} /\ q.stage = "sent" => q.code \in Codes /\ q.terms \in Typed
    /\ q.op = "apply" /\ q.stage \in {"sent", "read"} => q.member \in Members

TabsFit == tab \in [Tabs -> Screen] /\ \A t \in Tabs : ScreenRefs(tab[t], Ids)

ReqsFit == req \in [Tabs -> Requests] /\ \A t \in Tabs : RequestRefs(req[t], Ids)

LoansFit ==
    loans \in SUBSET Loans /\ IsFiniteSet(loans) /\ \A l \in loans : l.product \in Ids

TimersFit == timers \in [Tabs -> SUBSET {"table", "home"}]

TypeInv == TabsFit /\ ReqsFit /\ LoansFit /\ TimersFit /\ products \in Seq(Rows) /\ sent \in Nat

\* An application that was checked has read terms its product had then, and
\* keeps to them.
Checked ==
    \A t \in Tabs : At(t, "apply", "read") =>
        /\ req[t].terms \in products[req[t].id].past
        /\ req[t].periods <= req[t].terms.span

\* A row has had the terms it has.
Remembers == \A i \in Ids : products[i].terms \in products[i].past

\* A page is told what it will show: its label is the status, or the answer
\* that is on its way to it is.
Knows(t, i) ==
    IF Answers(t, i) THEN req[t].value = products[i].active
                     ELSE Shows(t, i) => Label(t, i) = products[i].active

\* The page of a product says its status itself, the table remembers only rows
\* that it lists, and a change of status that is heard of was asked on a page
\* that shows the row.
Page(t) ==
    /\ On(t, "details") => DOMAIN tab[t].over = {tab[t].id}
    /\ On(t, "table") => DOMAIN tab[t].over \subseteq DOMAIN tab[t].known
    /\ req[t].heard /\ req[t].op \in {"set", "flip"} => Shows(t, req[t].id)
    /\ Free(t) => ~req[t].heard

TabKnows(t) == Page(t) /\ \A i \in Ids : t \in products[i].told => Knows(t, i)

LabelInv == \A t \in Tabs : TabKnows(t)

-----------------------------------------------------------------------------
\* Rows

\* No step takes a row away, or a term that it had.
Grows ==
    /\ products' \in Seq(Rows) /\ Len(products) <= Len(products')
    /\ \A i \in Ids : products[i].past \subseteq products'[i].past
    /\ Remembers => Remembers'

\* What a loan copies from a row, and what a page shows of it.
SameRow(r, s) ==
    /\ s.code = r.code /\ s.terms = r.terms /\ s.active = r.active
    /\ s.past = r.past /\ s.revived = r.revived

\* What is in a row.
LEMMA RowFacts ==
    ASSUME products \in Seq(Rows)
    PROVE  /\ Len(products) \in Nat /\ products \in [Ids -> Rows]
           /\ \A i \in Ids : /\ products[i].terms \in Typed /\ products[i].code \in Codes
                             /\ products[i].active \in BOOLEAN /\ products[i].revived \in BOOLEAN
                             /\ products[i].past \in SUBSET Typed /\ products[i].told \in SUBSET Tabs
  <1>1. Len(products) \in Nat /\ products \in [1..Len(products) -> Rows]
    OBVIOUS
  <1>2. QED
    BY <1>1 DEF Ids, Rows

\* To tell a tab of some rows changes nothing else of them.
LEMMA TellingRows ==
    ASSUME products \in Seq(Rows), NEW t \in Tabs, NEW seen, products' = Telling(t, seen)
    PROVE  /\ Grows /\ Len(products') = Len(products)
           /\ \A i \in Ids : /\ SameRow(products[i], products'[i])
                             /\ products'[i].told = IF i \in seen THEN products[i].told \cup {t}
                                                                 ELSE products[i].told
  <1>1. \A i \in Ids : products[i] \in Rows
    BY RowFacts
  <1> DEFINE f(i) == IF i \in seen THEN [products[i] EXCEPT !.told = @ \cup {t}] ELSE products[i]
  <1>2. \A i \in Ids : /\ f(i) \in Rows /\ SameRow(products[i], f(i))
                       /\ f(i).told = IF i \in seen THEN products[i].told \cup {t} ELSE products[i].told
    BY <1>1 DEF Rows, SameRow
  <1>3. products' = [i \in 1..Len(products) |-> f(i)]
    BY DEF Telling, Ids
  <1> HIDE DEF f
  <1>4. /\ products' \in Seq(Rows) /\ Len(products') = Len(products)
        /\ \A i \in Ids : products'[i] = f(i)
    <2>1. \A i \in 1..Len(products) : f(i) \in Rows
      BY <1>2 DEF Ids
    <2>2. Len(products) \in Nat
      BY RowFacts
    <2>3. QED
      BY <2>1, <2>2, <1>3 DEF Ids
  <1>5. Ids' = Ids
    BY <1>4 DEF Ids
  <1>6. QED
    <2>1. Len(products) <= Len(products')
      BY <1>4, RowFacts
    <2>2. \A i \in Ids : SameRow(products[i], products'[i])
      BY <1>2, <1>4
    <2>3. Remembers => Remembers'
      BY <2>2, <1>5 DEF Remembers, SameRow
    <2>4. \A i \in Ids : products[i].past \subseteq products'[i].past
      BY <2>2 DEF SameRow
    <2>5. QED
      BY <1>2, <1>4, <2>1, <2>2, <2>3, <2>4 DEF Grows

\* A failure changes no row, but that the tab is no longer told of it.
LEMMA FailedRows ==
    ASSUME products \in Seq(Rows), NEW t \in Tabs, Fail(t)
    PROVE  /\ Grows /\ Len(products') = Len(products)
           /\ \A i \in Ids : /\ SameRow(products[i], products'[i])
                             /\ products'[i].told = IF Answers(t, i) THEN products[i].told \ {t}
                                                                   ELSE products[i].told
  <1>1. \A i \in Ids : products[i] \in Rows
    BY RowFacts
  <1> DEFINE f(i) == IF Answers(t, i) THEN [products[i] EXCEPT !.told = @ \ {t}] ELSE products[i]
  <1>2. \A i \in Ids : /\ f(i) \in Rows /\ SameRow(products[i], f(i))
                       /\ f(i).told = IF Answers(t, i) THEN products[i].told \ {t} ELSE products[i].told
    BY <1>1 DEF Rows, SameRow
  <1>3. products' = [i \in 1..Len(products) |-> f(i)]
    BY DEF Fail, Ids
  <1> HIDE DEF f
  <1>4. /\ products' \in Seq(Rows) /\ Len(products') = Len(products)
        /\ \A i \in Ids : products'[i] = f(i)
    <2>1. \A i \in 1..Len(products) : f(i) \in Rows
      BY <1>2 DEF Ids
    <2>2. Len(products) \in Nat
      BY RowFacts
    <2>3. QED
      BY <2>1, <2>2, <1>3 DEF Ids
  <1>5. Ids' = Ids
    BY <1>4 DEF Ids
  <1>6. QED
    <2>1. Len(products) <= Len(products')
      BY <1>4, RowFacts
    <2>2. \A i \in Ids : SameRow(products[i], products'[i])
      BY <1>2, <1>4
    <2>3. Remembers => Remembers'
      BY <2>2, <1>5 DEF Remembers, SameRow
    <2>4. \A i \in Ids : products[i].past \subseteq products'[i].past
      BY <2>2 DEF SameRow
    <2>5. QED
      BY <1>2, <1>4, <2>1, <2>2, <2>3, <2>4 DEF Grows

\* A row that is changed in place.
LEMMA ChangedRow ==
    ASSUME products \in Seq(Rows), NEW k \in Ids, NEW r \in Rows, products' = [products EXCEPT ![k] = r],
           products[k].past \subseteq r.past, r.terms \in r.past \/ r.terms = products[k].terms
    PROVE  /\ Grows /\ Len(products') = Len(products)
           /\ \A i \in Ids : products'[i] = IF i = k THEN r ELSE products[i]
  <1>1. /\ products' \in Seq(Rows) /\ Len(products') = Len(products)
        /\ \A i \in Ids : products'[i] = IF i = k THEN r ELSE products[i]
    BY ExceptSeq DEF Ids
  <1>2. Ids' = Ids
    BY <1>1 DEF Ids
  <1>3. QED
    BY <1>1, <1>2, RowFacts DEF Grows, Remembers

\* A status that is written.
LEMMA SwitchedRow ==
    ASSUME NEW r \in Rows, NEW on \in BOOLEAN, NEW who \in SUBSET Tabs
    PROVE  /\ Switched(r, on, who) \in Rows
           /\ Switched(r, on, who).code = r.code /\ Switched(r, on, who).terms = r.terms
           /\ Switched(r, on, who).past = r.past
           /\ Switched(r, on, who).active = on /\ Switched(r, on, who).revived = on
           /\ Switched(r, on, who).told = who
  BY DEF Switched, Rows

\* Terms that are written.
LEMMA EditedRow ==
    ASSUME NEW r \in Rows, NEW c \in Codes, NEW terms \in Typed
    PROVE  /\ Edited(r, c, terms) \in Rows
           /\ Edited(r, c, terms).code = c /\ Edited(r, c, terms).terms = terms
           /\ Edited(r, c, terms).past = r.past \cup {terms}
  BY DEF Edited, Switched, Rows

\* A row that was edited is on offer; who was told that it is still knows.
LEMMA EditedStatus ==
    ASSUME NEW r \in Rows, NEW c, NEW terms
    PROVE  /\ Edited(r, c, terms).active /\ Edited(r, c, terms).revived
           /\ r.active => Edited(r, c, terms).told = r.told
           /\ ~r.active => Edited(r, c, terms).told = {}
  BY DEF Edited, Switched, Rows

\* The row of a new version, and those that it supersedes.
LEMMA CreatedRows ==
    ASSUME products \in Seq(Rows), NEW c \in Codes, NEW terms \in Typed,
           products' = Append([i \in Ids |-> Superseded(products[i], c)], Row(c, terms))
    PROVE  /\ Grows /\ Len(products') = Len(products) + 1
           /\ \A i \in Ids : products'[i] = Superseded(products[i], c)
           /\ products'[Len(products) + 1] = Row(c, terms)
  <1>1. \A i \in Ids : products[i] \in Rows
    BY RowFacts
  <1>2. \A i \in Ids : /\ Superseded(products[i], c) \in Rows
                       /\ Superseded(products[i], c).past = products[i].past
                       /\ Superseded(products[i], c).terms = products[i].terms
    BY <1>1 DEF Rows, Superseded, Switched
  <1>3. Row(c, terms) \in Rows /\ Row(c, terms).terms \in Row(c, terms).past
    BY DEF Rows, Row
  <1> DEFINE old == [i \in 1..Len(products) |-> Superseded(products[i], c)]
  <1>4. /\ old \in Seq(Rows) /\ Len(old) = Len(products) /\ Len(products) \in Nat
        /\ \A i \in Ids : old[i] = Superseded(products[i], c)
    BY <1>2, RowFacts DEF Ids
  <1>5. products' = Append(old, Row(c, terms))
    BY DEF Ids
  <1> HIDE DEF old
  <1>6. /\ products' \in Seq(Rows) /\ Len(products') = Len(products) + 1
        /\ \A i \in Ids : products'[i] = Superseded(products[i], c)
        /\ products'[Len(products) + 1] = Row(c, terms)
    BY <1>3, <1>4, <1>5, AppendProperties DEF Ids
  <1>7. Ids' = Ids \cup {Len(products) + 1}
    BY <1>4, <1>6 DEF Ids
  <1>8. QED
    BY <1>2, <1>3, <1>4, <1>6, <1>7 DEF Grows, Remembers

-----------------------------------------------------------------------------
\* Screens and requests

\* No step makes a reference hang, since no row goes away.
LEMMA StillFit ==
    ASSUME TypeInv, Grows
    PROVE  /\ Ids \subseteq Ids' /\ tab \in [Tabs -> Screen']
           /\ \A u \in Tabs : ScreenRefs(tab[u], Ids') /\ RequestRefs(req[u], Ids')
           /\ \A l \in loans : l.product \in Ids'
  <1>1. Len(products) \in Nat /\ Len(products') \in Nat /\ Len(products) <= Len(products')
    BY DEF Grows, TypeInv
  <1>2. Ids \subseteq Ids'
    BY <1>1 DEF Ids
  <1>3. Overs \subseteq Overs'
    BY <1>2 DEF Overs
  <1>4. Screen \subseteq Screen'
    BY <1>3 DEF Screen
  <1>5. QED
    BY <1>2, <1>4 DEF TypeInv, TabsFit, ReqsFit, LoansFit, ScreenRefs, RequestRefs

\* One tab's screen is replaced.
LEMMA TabStep ==
    ASSUME TypeInv, Grows, NEW t \in Tabs, NEW s \in Screen', ScreenRefs(s, Ids'),
           tab' = [tab EXCEPT ![t] = s]
    PROVE  TabsFit'
  <1>1. tab \in [Tabs -> Screen'] /\ \A u \in Tabs : ScreenRefs(tab[u], Ids')
    BY StillFit
  <1>2. /\ tab' \in [Tabs -> Screen']
        /\ \A u \in Tabs : tab'[u] = IF u = t THEN s ELSE tab[u]
    BY <1>1
  <1>3. \A u \in Tabs : ScreenRefs(tab'[u], Ids')
    BY <1>1, <1>2
  <1>4. QED
    BY <1>2, <1>3 DEF TabsFit

\* One tab's request is replaced.
LEMMA ReqStep ==
    ASSUME TypeInv, Grows, NEW t \in Tabs, NEW q \in Requests, RequestRefs(q, Ids'),
           req' = [req EXCEPT ![t] = q]
    PROVE  ReqsFit'
  <1>1. \A u \in Tabs : RequestRefs(req[u], Ids')
    BY StillFit
  <1>2. /\ req' \in [Tabs -> Requests]
        /\ \A u \in Tabs : req'[u] = IF u = t THEN q ELSE req[u]
    BY DEF TypeInv, ReqsFit
  <1>3. \A u \in Tabs : RequestRefs(req'[u], Ids')
    BY <1>1, <1>2
  <1>4. QED
    BY <1>2, <1>3 DEF ReqsFit

\* What a step leaves alone fits the rows as they are now.
LEMMA Unmoved ==
    ASSUME TypeInv, Grows
    PROVE  /\ UNCHANGED tab => TabsFit'
           /\ UNCHANGED req => ReqsFit'
           /\ UNCHANGED loans => LoansFit'
           /\ UNCHANGED timers => TimersFit'
  BY StillFit DEF TypeInv, TabsFit, ReqsFit, LoansFit, TimersFit

\* A step that leaves the rows alone takes none away.
LEMMA SameProducts ==
    ASSUME TypeInv, UNCHANGED products
    PROVE  Grows
  <1>1. Len(products) \in Nat
    BY DEF TypeInv
  <1>2. Ids' = Ids
    BY DEF Ids
  <1>3. QED
    BY <1>1, <1>2 DEF Grows, TypeInv, Remembers

\* No request refers to nothing.
LEMMA NoReqFits == NoReq \in Requests /\ \A ids : RequestRefs(NoReq, ids)
  BY DEF NoReq, NoTerms, Requests, Terms, RequestRefs

\* A page that was just opened.
LEMMA BlankFits ==
    ASSUME NEW screen \in AllPages \cup {"home"}
    PROVE  /\ Blank(screen) \in Screen /\ DOMAIN Blank(screen).known = {}
           /\ Blank(screen).screen = screen
  <1>1. <<>> \in [{} -> BOOLEAN]
    OBVIOUS
  <1>2. <<>> \in Overs
    BY <1>1 DEF Overs
  <1>3. <<>> \in Seq([active : BOOLEAN, span : Nat])
    OBVIOUS
  <1>4. NoTerms \in Terms
    BY DEF NoTerms, Terms
  <1>5. QED
    BY <1>2, <1>3, <1>4 DEF Blank, Screen

\* The list of the server has the status of each row.
LEMMA ListFits ==
    ASSUME products \in Seq(Rows)
    PROVE  /\ List \in Seq([active : BOOLEAN, span : Nat]) /\ DOMAIN List = Ids
           /\ \A i \in Ids : List[i].active = products[i].active
  <1> DEFINE f(i) == [active |-> products[i].active, span |-> products[i].terms.span]
  <1>1. \A i \in 1..Len(products) : f(i) \in [active : BOOLEAN, span : Nat]
    BY RowFacts, ProductsAssumption DEF Terms, Ids
  <1>2. List = [i \in 1..Len(products) |-> f(i)]
    BY DEF List, Ids
  <1>3. Len(products) \in Nat
    BY RowFacts
  <1>4. \A i \in Ids : f(i).active = products[i].active
    OBVIOUS
  <1> HIDE DEF f
  <1>5. QED
    BY <1>1, <1>2, <1>3, <1>4 DEF Ids

-----------------------------------------------------------------------------
\* Types

\* A request goes on when its page is left.
LEMMA UnheardFits ==
    ASSUME TypeInv, Grows, NEW t \in Tabs, Unheard(t)
    PROVE  ReqsFit'
  <1>1. CASE Free(t)
    BY <1>1, Unmoved DEF Unheard
  <1>2. CASE ~Free(t)
    <2> DEFINE q == [req[t] EXCEPT !.heard = FALSE]
    <2>1. q \in Requests /\ RequestRefs(q, Ids')
      BY StillFit DEF TypeInv, ReqsFit, Requests, RequestRefs
    <2>2. req' = [req EXCEPT ![t] = q]
      BY <1>2 DEF Unheard, TypeInv, ReqsFit
    <2> HIDE DEF q
    <2>3. QED
      BY <2>1, <2>2, ReqStep
  <1>3. QED
    BY <1>1, <1>2

\* A page that is loaded in a tab.
LEMMA LoadTypes ==
    ASSUME TypeInv, NEW t \in Tabs, NEW s \in Screen, ScreenRefs(s, Ids), NEW seen,
           Unheard(t), Load(t, s, seen), TimersFit'
    PROVE  TypeInv' /\ Grows
  <1>1. Grows /\ Len(products') = Len(products)
    BY TellingRows DEF Load, TypeInv
  <1>2. Ids' = Ids
    BY <1>1 DEF Ids
  <1>3. Screen' = Screen
    BY <1>2 DEF Screen, Overs
  <1>4. TabsFit'
    BY <1>1, <1>2, <1>3, TabStep DEF Load
  <1>5. ReqsFit'
    BY <1>1, UnheardFits
  <1>6. LoansFit' /\ sent' \in Nat
    BY <1>1, Unmoved DEF Load, TypeInv
  <1>7. QED
    BY <1>1, <1>4, <1>5, <1>6 DEF TypeInv, Grows

\* A list that was loaded, on the page of the catalogue or on the form of an
\* application.
LEMMA ListScreen ==
    ASSUME TypeInv, NEW screen \in {"table", "apply"}
    PROVE  /\ [Blank(screen) EXCEPT !.known = List] \in Screen
           /\ ScreenRefs([Blank(screen) EXCEPT !.known = List], Ids)
  <1>1. List \in Seq([active : BOOLEAN, span : Nat]) /\ DOMAIN List = Ids
    BY ListFits DEF TypeInv
  <1>2. Blank(screen) \in Screen /\ Blank(screen).screen = screen
    BY BlankFits DEF AllPages
  <1>3. QED
    BY <1>1, <1>2 DEF Screen, ScreenRefs

\* A page without a row of its own.
LEMMA ArriveTypes ==
    ASSUME TypeInv, NEW t \in Tabs, NEW screen \in {"table", "new", "apply", "home"},
           TimersFit', Arrive(t, screen)
    PROVE  TypeInv' /\ Grows
  <1>1. CASE screen \in {"table", "apply"}
    <2> DEFINE s == [Blank(screen) EXCEPT !.known = List]
    <2>1. s \in Screen /\ ScreenRefs(s, Ids)
      BY <1>1, ListScreen
    <2>2. \E seen : Load(t, s, seen)
      BY <1>1 DEF Arrive
    <2>3. Unheard(t)
      BY DEF Arrive
    <2> HIDE DEF s
    <2>4. QED
      BY <2>1, <2>2, <2>3, LoadTypes
  <1>2. CASE screen \in {"new", "home"}
    <2>1. Blank(screen) \in Screen /\ ScreenRefs(Blank(screen), Ids)
      BY <1>2, BlankFits DEF ScreenRefs, AllPages
    <2>2. Load(t, Blank(screen), {}) /\ Unheard(t)
      BY <1>2 DEF Arrive
    <2>3. QED
      BY <2>1, <2>2, LoadTypes
  <1>3. QED
    BY <1>1, <1>2

\* A page of one row.
LEMMA OpenTypes ==
    ASSUME TypeInv, NEW t \in Tabs, OpenDetails(t) \/ OpenEdit(t)
    PROVE  TypeInv' /\ Grows
  <1>1. Unheard(t) /\ TimersFit'
    BY DEF OpenDetails, OpenEdit, TypeInv, TimersFit
  <1>2. CASE OpenDetails(t)
    <2>1. PICK i \in Ids :
            Load(t, [Blank("details") EXCEPT !.id = i,
                       !.over = [j \in {i} |-> products[i].active]], {i})
      BY <1>2 DEF OpenDetails
    <2> DEFINE o == [j \in {i} |-> products[i].active]
               s == [Blank("details") EXCEPT !.id = i, !.over = o]
    <2>2. i \in Nat /\ products[i].active \in BOOLEAN
      BY RowFacts DEF TypeInv, Ids
    <2>3. o \in [{i} -> BOOLEAN] /\ {i} \in SUBSET Ids
      BY <2>2
    <2>4. o \in Overs
      BY <2>3 DEF Overs
    <2> HIDE DEF o
    <2>5. s \in Screen /\ ScreenRefs(s, Ids)
      <3>1. /\ Blank("details") \in Screen /\ DOMAIN Blank("details").known = {}
            /\ Blank("details").screen = "details"
        BY BlankFits DEF AllPages
      <3>2. s \in Screen
        BY <3>1, <2>2, <2>4 DEF Screen
      <3>3. s.known = Blank("details").known /\ s.screen = "details" /\ s.id = i
        BY <3>1 DEF Screen
      <3>4. QED
        BY <3>1, <3>2, <3>3 DEF ScreenRefs
    <2>6. Load(t, s, {i})
      BY <2>1 DEF o
    <2> HIDE DEF s
    <2>7. QED
      BY <1>1, <2>5, <2>6, LoadTypes
  <1>3. CASE OpenEdit(t)
    <2>1. PICK i \in Ids :
            Load(t, [Blank("edit") EXCEPT !.id = i, !.code = products[i].code,
                       !.terms = products[i].terms], {})
      BY <1>3 DEF OpenEdit
    <2> DEFINE s == [Blank("edit") EXCEPT !.id = i, !.code = products[i].code,
                       !.terms = products[i].terms]
    <2>2. i \in Nat /\ products[i].code \in Codes /\ products[i].terms \in Terms
      BY RowFacts, ProductsAssumption DEF TypeInv, Ids
    <2>3. s \in Screen /\ ScreenRefs(s, Ids)
      <3>1. /\ Blank("edit") \in Screen /\ DOMAIN Blank("edit").known = {}
            /\ Blank("edit").screen = "edit"
        BY BlankFits DEF AllPages
      <3>2. s \in Screen
        BY <3>1, <2>2 DEF Screen
      <3>3. s.known = Blank("edit").known /\ s.screen = "edit" /\ s.id = i
        BY <3>1 DEF Screen
      <3>4. QED
        BY <3>1, <3>2, <3>3 DEF ScreenRefs
    <2>4. Load(t, s, {})
      BY <2>1
    <2> HIDE DEF s
    <2>5. QED
      BY <1>1, <2>3, <2>4, LoadTypes
  <1>4. QED
    BY <1>2, <1>3

\* Going to a page, or being sent there.
LEMMA MoveTypes ==
    ASSUME TypeInv, NEW t \in Tabs,
           (\E s \in {"table", "new", "apply"} : Visit(t, s)) \/ Redirect(t)
    PROVE  TypeInv' /\ Grows
  <1>1. CASE \E s \in {"table", "new", "apply"} : Visit(t, s)
    BY <1>1, ArriveTypes DEF Visit, TypeInv, TimersFit
  <1>2. CASE Redirect(t)
    <2>1. PICK p \in timers[t] : timers' = [timers EXCEPT ![t] = @ \ {p}] /\ Arrive(t, p)
      BY <1>2 DEF Redirect
    <2>2. p \in {"table", "home"} /\ TimersFit'
      BY <2>1 DEF TypeInv, TimersFit
    <2>3. QED
      BY <2>1, <2>2, ArriveTypes
  <1>3. QED
    BY <1>1, <1>2

\* A request that is sent.
LEMMA SendTypes ==
    ASSUME TypeInv, NEW t \in Tabs, NEW r \in Requests, Send(t, r),
           RequestRefs([r EXCEPT !.stage = "sent", !.heard = TRUE], Ids)
    PROVE  TypeInv' /\ Grows
  <1> DEFINE q == [r EXCEPT !.stage = "sent", !.heard = TRUE]
  <1>1. Grows /\ Ids' = Ids
    BY SameProducts DEF Send, Ids
  <1>2. q \in Requests /\ RequestRefs(q, Ids')
    BY <1>1 DEF Requests
  <1>3. req' = [req EXCEPT ![t] = q]
    BY DEF Send
  <1> HIDE DEF q
  <1>4. ReqsFit'
    BY <1>1, <1>2, <1>3, ReqStep
  <1>5. TabsFit' /\ LoansFit' /\ TimersFit'
    BY <1>1, Unmoved DEF Send
  <1>6. QED
    BY <1>1, <1>4, <1>5 DEF TypeInv, Send, Grows

\* A page refers to rows that are there, and its labels are those of a row.
LEMMA ShownRow ==
    ASSUME TypeInv, NEW t \in Tabs
    PROVE  /\ \A i \in DOMAIN tab[t].known : i \in Ids /\ i \in Nat /\ Label(t, i) \in BOOLEAN
           /\ tab[t].id \in Nat /\ tab[t].member \in Members \cup {NoOne}
           /\ On(t, "details") \/ On(t, "edit") => tab[t].id \in Ids
  <1>1. /\ DOMAIN tab[t].known \subseteq Ids /\ tab[t] \in Screen
        /\ On(t, "details") \/ On(t, "edit") => tab[t].id \in Ids
    BY DEF TypeInv, TabsFit, ScreenRefs, On
  <1>2. /\ tab[t].over \in Overs /\ tab[t].known \in Seq([active : BOOLEAN, span : Nat])
        /\ tab[t].id \in Nat /\ tab[t].member \in Members \cup {NoOne}
    BY <1>1 DEF Screen
  <1>3. \A i \in DOMAIN tab[t].over : tab[t].over[i] \in BOOLEAN
    BY <1>2 DEF Overs
  <1>4. \A i \in DOMAIN tab[t].known : tab[t].known[i].active \in BOOLEAN
    <2> DEFINE E == [active : BOOLEAN, span : Nat]
    <2>1. \A e \in E : e.active \in BOOLEAN
      OBVIOUS
    <2>2. tab[t].known \in Seq(E)
      BY <1>2
    <2> HIDE DEF E
    <2>3. \A i \in DOMAIN tab[t].known : tab[t].known[i] \in E
      BY <2>2
    <2>4. QED
      BY <2>1, <2>3
  <1>5. QED
    BY <1>1, <1>2, <1>3, <1>4 DEF Label, Ids

\* Every request that a page sends is about a row or a member it shows.
LEMMA AskTypes ==
    ASSUME TypeInv, NEW t \in Tabs, Toggle(t) \/ Flip(t) \/ SaveEdit(t) \/ SaveNew(t) \/ Submit(t)
    PROVE  TypeInv' /\ Grows
  <1>1. CASE Toggle(t)
    <2>1. PICK i \in DOMAIN tab[t].known :
            Send(t, [NoReq EXCEPT !.op = "set", !.id = i, !.value = ~Label(t, i)])
      BY <1>1 DEF Toggle
    <2>2. i \in Ids /\ i \in Nat /\ (~Label(t, i)) \in BOOLEAN
      BY ShownRow
    <2> DEFINE r == [NoReq EXCEPT !.op = "set", !.id = i, !.value = ~Label(t, i)]
    <2>3. r \in Requests
      BY <2>2, NoReqFits DEF Requests
    <2>4. RequestRefs([r EXCEPT !.stage = "sent", !.heard = TRUE], Ids)
      BY <2>2, NoReqFits DEF RequestRefs, Requests
    <2>5. QED
      BY <2>1, <2>3, <2>4, SendTypes
  <1>2. CASE Flip(t)
    <2> DEFINE r == [NoReq EXCEPT !.op = "flip", !.id = tab[t].id]
    <2>1. tab[t].id \in Ids /\ tab[t].id \in Nat
      BY <1>2, ShownRow DEF Flip
    <2>2. r \in Requests
      BY <2>1, NoReqFits DEF Requests
    <2>3. RequestRefs([r EXCEPT !.stage = "sent", !.heard = TRUE], Ids)
      BY <2>1, NoReqFits DEF RequestRefs, Requests
    <2>4. Send(t, r)
      BY <1>2 DEF Flip
    <2>5. QED
      BY <2>2, <2>3, <2>4, SendTypes
  <1>3. CASE SaveEdit(t)
    <2>1. PICK c \in Codes, new \in Typed :
            Send(t, [NoReq EXCEPT !.op = "update", !.id = tab[t].id, !.code = c, !.terms = new])
      BY <1>3 DEF SaveEdit
    <2> DEFINE r == [NoReq EXCEPT !.op = "update", !.id = tab[t].id, !.code = c, !.terms = new]
    <2>2. tab[t].id \in Ids /\ tab[t].id \in Nat /\ new \in Terms
      BY <1>3, ShownRow, ProductsAssumption DEF SaveEdit
    <2>3. r \in Requests
      BY <2>2, NoReqFits DEF Requests
    <2>4. RequestRefs([r EXCEPT !.stage = "sent", !.heard = TRUE], Ids)
      BY <2>2, NoReqFits DEF RequestRefs, Requests
    <2>5. QED
      BY <2>1, <2>3, <2>4, SendTypes
  <1>4. CASE SaveNew(t)
    <2>1. PICK c \in Codes, new \in Typed :
            Send(t, [NoReq EXCEPT !.op = "create", !.code = c, !.terms = new])
      BY <1>4 DEF SaveNew
    <2> DEFINE r == [NoReq EXCEPT !.op = "create", !.code = c, !.terms = new]
    <2>2. new \in Terms
      BY ProductsAssumption
    <2>3. r \in Requests
      BY <2>2, NoReqFits DEF Requests
    <2>4. RequestRefs([r EXCEPT !.stage = "sent", !.heard = TRUE], Ids)
      BY NoReqFits DEF RequestRefs, Requests
    <2>5. QED
      BY <2>1, <2>3, <2>4, SendTypes
  <1>5. CASE Submit(t)
    <2>1. PICK i \in Offered(t), n \in Periods \cup {Usual} :
            Send(t, [NoReq EXCEPT !.op = "apply", !.id = i,
                                  !.member = tab[t].member, !.periods = n])
      BY <1>5 DEF Submit
    <2> DEFINE r == [NoReq EXCEPT !.op = "apply", !.id = i,
                                  !.member = tab[t].member, !.periods = n]
    <2>2. i \in Ids /\ i \in Nat /\ n \in Nat /\ tab[t].member \in Members
      BY <1>5, ShownRow, ProductsAssumption DEF Submit, Offered
    <2>3. r \in Requests
      BY <2>2, NoReqFits DEF Requests
    <2>4. RequestRefs([r EXCEPT !.stage = "sent", !.heard = TRUE], Ids)
      BY <2>2, NoReqFits DEF RequestRefs, Requests
    <2>5. QED
      BY <2>1, <2>3, <2>4, SendTypes
  <1>6. QED
    BY <1>1, <1>2, <1>3, <1>4, <1>5

\* A step that changes what a tab shows, and perhaps its request, and no row.
LEMMA PageTypes ==
    ASSUME TypeInv, NEW t \in Tabs, NEW s \in Screen, ScreenRefs(s, Ids),
           tab' = [tab EXCEPT ![t] = s], UNCHANGED <<products, loans, sent>>, TimersFit',
           UNCHANGED req \/ req' = [req EXCEPT ![t] = NoReq]
    PROVE  TypeInv' /\ Grows
  <1>1. Grows /\ Ids' = Ids /\ Screen' = Screen
    BY SameProducts DEF Ids, Screen, Overs
  <1>2. TabsFit'
    BY <1>1, TabStep
  <1>3. ReqsFit'
    BY <1>1, Unmoved, ReqStep, NoReqFits
  <1>4. LoansFit'
    BY <1>1, Unmoved
  <1>5. QED
    BY <1>1, <1>2, <1>3, <1>4 DEF TypeInv, Grows

\* The form of an application.
LEMMA FormTypes ==
    ASSUME TypeInv, NEW t \in Tabs, SelectMember(t) \/ ClearMember(t) \/ NoticeArrives(t)
    PROVE  TypeInv' /\ Grows
  <1>1. tab \in [Tabs -> Screen] /\ tab[t] \in Screen /\ ScreenRefs(tab[t], Ids) /\ TimersFit
    BY DEF TypeInv, TabsFit
  <1>2. /\ tab[t].member \in Members \cup {NoOne} /\ tab[t].notice \in Members \cup {NoOne}
        /\ tab[t].asked \in SUBSET Members
    BY <1>1 DEF Screen
  <1>3. TimersFit' /\ UNCHANGED <<req, products, loans, sent>>
    BY <1>1 DEF SelectMember, ClearMember, NoticeArrives, TimersFit
  <1>4. ASSUME NEW m \in Members \cup {NoOne}, NEW n \in Members \cup {NoOne},
               NEW a \in SUBSET Members,
               tab' = [tab EXCEPT ![t] = [tab[t] EXCEPT !.member = m, !.notice = n, !.asked = a]]
        PROVE  TypeInv' /\ Grows
    <2> DEFINE s == [tab[t] EXCEPT !.member = m, !.notice = n, !.asked = a]
    <2>1. s \in Screen /\ ScreenRefs(s, Ids)
      BY <1>1 DEF Screen, ScreenRefs
    <2>2. tab' = [tab EXCEPT ![t] = s]
      BY <1>4
    <2> HIDE DEF s
    <2>3. QED
      BY <1>3, <2>1, <2>2, PageTypes
  <1>5. CASE SelectMember(t)
    <2>1. PICK m \in Members :
            tab' = [tab EXCEPT ![t].member = m, ![t].notice = NoOne, ![t].asked = @ \cup {m}]
      BY <1>5 DEF SelectMember
    <2> DEFINE a == tab[t].asked \cup {m}
    <2>2. tab' = [tab EXCEPT ![t] = [tab[t] EXCEPT !.member = m, !.notice = NoOne, !.asked = a]]
      BY <2>1, <1>1 DEF Screen
    <2>3. a \in SUBSET Members
      BY <1>2
    <2> HIDE DEF a
    <2>4. QED
      BY <2>2, <2>3, <1>4
  <1>6. CASE ClearMember(t)
    <2> DEFINE n == tab[t].notice
               a == tab[t].asked
    <2>1. tab' = [tab EXCEPT ![t] = [tab[t] EXCEPT !.member = NoOne, !.notice = n, !.asked = a]]
      BY <1>6, <1>1 DEF ClearMember, Screen
    <2>2. n \in Members \cup {NoOne} /\ a \in SUBSET Members
      BY <1>2
    <2> HIDE DEF n, a
    <2>3. QED
      BY <2>1, <2>2, <1>4
  <1>7. CASE NoticeArrives(t)
    <2>1. PICK m \in tab[t].asked :
            \/ tab' = [tab EXCEPT ![t].asked = @ \ {m}]
            \/ tab' = [tab EXCEPT ![t].asked = @ \ {m}, ![t].notice = m]
      BY <1>7 DEF NoticeArrives
    <2> DEFINE p == tab[t].member
               n == tab[t].notice
               a == tab[t].asked \ {m}
    <2>2. /\ p \in Members \cup {NoOne} /\ n \in Members \cup {NoOne}
          /\ m \in Members \cup {NoOne} /\ a \in SUBSET Members
      BY <1>2, <2>1
    <2>3. CASE tab' = [tab EXCEPT ![t].asked = @ \ {m}]
      <3>1. tab' = [tab EXCEPT ![t] = [tab[t] EXCEPT !.member = p, !.notice = n, !.asked = a]]
        BY <2>3, <1>1 DEF Screen
      <3> HIDE DEF p, n, a
      <3>2. QED
        BY <3>1, <2>2, <1>4
    <2>4. CASE tab' = [tab EXCEPT ![t].asked = @ \ {m}, ![t].notice = m]
      <3>1. tab' = [tab EXCEPT ![t] = [tab[t] EXCEPT !.member = p, !.notice = m, !.asked = a]]
        BY <2>4, <1>1 DEF Screen
      <3> HIDE DEF p, n, a
      <3>2. QED
        BY <3>1, <2>2, <1>4
    <2>5. QED
      BY <2>1, <2>3, <2>4
  <1>8. QED
    BY <1>5, <1>6, <1>7

\* An answer that reached its page.
LEMMA AnswerTypes ==
    ASSUME TypeInv, NEW t \in Tabs, AnswerToggle(t) \/ AnswerSave(t)
    PROVE  TypeInv' /\ Grows
  <1>1. /\ tab \in [Tabs -> Screen] /\ tab[t] \in Screen /\ ScreenRefs(tab[t], Ids) /\ TimersFit
        /\ req[t] \in Requests /\ RequestRefs(req[t], Ids)
    BY DEF TypeInv, TabsFit, ReqsFit
  <1>2. CASE AnswerToggle(t)
    <2> DEFINE o == [i \in DOMAIN tab[t].over \cup {req[t].id} |->
                       IF i = req[t].id THEN req[t].value ELSE tab[t].over[i]]
               s == [tab[t] EXCEPT !.over = o]
    <2>1. req[t].id \in Ids /\ req[t].value \in BOOLEAN /\ tab[t].over \in Overs
      BY <1>1, <1>2 DEF AnswerToggle, Toggles, At, Requests, RequestRefs, Screen
    <2>2. PICK ids \in SUBSET Ids : tab[t].over \in [ids -> BOOLEAN]
      BY <2>1 DEF Overs
    <2>3. ids \cup {req[t].id} \in SUBSET Ids /\ o \in [ids \cup {req[t].id} -> BOOLEAN]
      <3>1. ids \cup {req[t].id} \in SUBSET Ids
        BY <2>1
      <3>2. \A i \in ids : tab[t].over[i] \in BOOLEAN
        BY <2>2
      <3>3. DOMAIN tab[t].over = ids
        BY <2>2
      <3>4. o \in [ids \cup {req[t].id} -> BOOLEAN]
        BY <2>1, <3>2, <3>3
      <3>5. QED
        BY <3>1, <3>4
    <2>4. o \in Overs
      BY <2>3 DEF Overs
    <2> HIDE DEF o
    <2>5. s \in Screen /\ ScreenRefs(s, Ids)
      BY <2>4, <1>1 DEF Screen, ScreenRefs
    <2>6. tab' = [tab EXCEPT ![t] = s]
      BY <1>1, <1>2 DEF AnswerToggle, Relabelled, o
    <2> HIDE DEF s
    <2>7. QED
      BY <1>1, <1>2, <2>5, <2>6, PageTypes DEF AnswerToggle, TimersFit
  <1>3. CASE AnswerSave(t)
    <2> DEFINE m == IF req[t].heard THEN NoOne ELSE tab[t].member
               s == [tab[t] EXCEPT !.member = m]
    <2>1. m \in Members \cup {NoOne}
      BY <1>1 DEF Screen
    <2>2. tab' = [tab EXCEPT ![t] = s]
      BY <1>1, <1>3 DEF AnswerSave, Screen
    <2> HIDE DEF m
    <2>3. s \in Screen /\ ScreenRefs(s, Ids)
      BY <2>1, <1>1 DEF Screen, ScreenRefs
    <2>4. TimersFit'
      BY <1>1, <1>3 DEF AnswerSave, TimersFit
    <2> HIDE DEF s
    <2>5. QED
      BY <1>3, <2>2, <2>3, <2>4, PageTypes DEF AnswerSave
  <1>4. QED
    BY <1>2, <1>3

\* A list that is loaded again.
LEMMA RefreshTypes ==
    ASSUME TypeInv, NEW t \in Tabs, Refresh(t)
    PROVE  TypeInv' /\ Grows
  <1>1. tab \in [Tabs -> Screen] /\ tab[t] \in Screen /\ On(t, "table")
    BY DEF TypeInv, TabsFit, Refresh
  <1> DEFINE s == [tab[t] EXCEPT !.known = List]
  <1>2. List \in Seq([active : BOOLEAN, span : Nat]) /\ DOMAIN List = Ids
    BY ListFits DEF TypeInv
  <1>3. s \in Screen /\ ScreenRefs(s, Ids)
    BY <1>1, <1>2 DEF Screen, ScreenRefs, On
  <1>4. tab' = [tab EXCEPT ![t] = s]
    BY <1>1 DEF Refresh
  <1> HIDE DEF s
  <1>5. Grows /\ Ids' = Ids
    BY TellingRows DEF Refresh, TypeInv, Ids
  <1>6. Screen' = Screen
    BY <1>5 DEF Screen, Overs
  <1>7. TabsFit'
    BY <1>3, <1>4, <1>5, <1>6, TabStep
  <1>8. ReqsFit' /\ LoansFit' /\ TimersFit'
    BY <1>5, Unmoved DEF Refresh
  <1>9. QED
    BY <1>5, <1>7, <1>8 DEF TypeInv, Refresh, Grows

\* A request that the server has done.
LEMMA DoneFits ==
    ASSUME TypeInv, Grows, NEW t \in Tabs, NEW on \in BOOLEAN, Done(t, on)
    PROVE  ReqsFit'
  <1> DEFINE q == [NoReq EXCEPT !.op = req[t].op, !.stage = "ok", !.id = req[t].id,
                                !.heard = req[t].heard, !.value = on]
  <1>1. req[t] \in Requests /\ RequestRefs(req[t], Ids')
    BY StillFit DEF TypeInv, ReqsFit
  <1>2. q \in Requests
    BY <1>1, NoReqFits DEF Requests
  <1>3. q.op = req[t].op /\ q.id = req[t].id /\ q.stage = "ok"
    BY NoReqFits DEF Requests
  <1>4. RequestRefs(q, Ids')
    BY <1>1, <1>3 DEF RequestRefs
  <1>5. req' = [req EXCEPT ![t] = q]
    BY DEF Done
  <1> HIDE DEF q
  <1>6. QED
    BY <1>2, <1>4, <1>5, ReqStep

\* The row that a request is about.
LEMMA AskedRow ==
    ASSUME TypeInv, NEW t \in Tabs
    PROVE  /\ req[t] \in Requests /\ RequestRefs(req[t], Ids)
           /\ req[t].op \in {"set", "flip", "update", "apply"} =>
                req[t].id \in Ids /\ products[req[t].id] \in Rows
  BY RowFacts DEF TypeInv, ReqsFit, RequestRefs

\* A status that is read and written.
LEMMA StatusTypes ==
    ASSUME TypeInv, NEW t \in Tabs, ReadStatus(t) \/ WriteStatus(t)
    PROVE  TypeInv' /\ Grows
  <1>1. /\ req[t] \in Requests /\ RequestRefs(req[t], Ids)
        /\ req[t].id \in Ids /\ products[req[t].id] \in Rows
    BY AskedRow DEF ReadStatus, WriteStatus, Toggles, At
  <1>2. CASE ReadStatus(t)
    <2> DEFINE v == IF req[t].op = "flip" THEN ~products[req[t].id].active ELSE req[t].value
               q == [req[t] EXCEPT !.stage = "read", !.value = v]
    <2>1. v \in BOOLEAN
      BY <1>1 DEF Rows, Requests
    <2>2. req' = [req EXCEPT ![t] = q]
      BY <1>1, <1>2 DEF ReadStatus, TypeInv, ReqsFit, Requests
    <2>3. req[t].op \in {"set", "flip"}
      BY <1>2 DEF ReadStatus, Toggles, At
    <2> HIDE DEF v
    <2>4. q \in Requests /\ RequestRefs(q, Ids)
      BY <1>1, <2>1, <2>3 DEF Requests, RequestRefs
    <2> HIDE DEF q
    <2>5. Grows /\ Ids' = Ids
      BY <1>2, SameProducts DEF ReadStatus, Ids
    <2>6. ReqsFit' /\ TabsFit' /\ LoansFit' /\ TimersFit'
      BY <1>2, <2>2, <2>4, <2>5, ReqStep, Unmoved DEF ReadStatus
    <2>7. QED
      BY <1>2, <2>5, <2>6 DEF TypeInv, ReadStatus, Grows
  <1>3. CASE WriteStatus(t)
    <2> DEFINE who == IF req[t].heard THEN {t} ELSE {}
               r == Switched(products[req[t].id], req[t].value, who)
    <2>1. req[t].value \in BOOLEAN /\ who \in SUBSET Tabs
      BY <1>1 DEF Requests
    <2>2. r \in Rows /\ r.past = products[req[t].id].past /\ r.terms = products[req[t].id].terms
      BY <1>1, <2>1, SwitchedRow
    <2>3. products' = [products EXCEPT ![req[t].id] = r]
      BY <1>3 DEF WriteStatus
    <2> HIDE DEF r
    <2>4. Grows
      BY <1>1, <2>2, <2>3, ChangedRow DEF TypeInv
    <2>5. ReqsFit' /\ TabsFit' /\ LoansFit' /\ TimersFit'
      BY <1>3, <2>1, <2>4, DoneFits, Unmoved DEF WriteStatus
    <2>6. QED
      BY <1>3, <2>4, <2>5 DEF TypeInv, WriteStatus, Grows
  <1>4. QED
    BY <1>2, <1>3

\* A row that is written, or a version that is made.
LEMMA SaveTypes ==
    ASSUME TypeInv, NEW t \in Tabs, Update(t) \/ Create(t)
    PROVE  TypeInv' /\ Grows
  <1>1. req[t].code \in Codes /\ req[t].terms \in Typed
    BY AskedRow DEF Update, Create, At, RequestRefs
  <1>2. Grows
    <2>1. CASE Update(t)
      <3> DEFINE r == Edited(products[req[t].id], req[t].code, req[t].terms)
      <3>1. req[t].id \in Ids /\ products[req[t].id] \in Rows
        BY <2>1, AskedRow DEF Update, At
      <3>2. r \in Rows /\ products[req[t].id].past \subseteq r.past /\ r.terms \in r.past
        <4>1. /\ r \in Rows /\ r.past = products[req[t].id].past \cup {req[t].terms}
              /\ r.terms = req[t].terms
          BY <1>1, <3>1, EditedRow
        <4> HIDE DEF r
        <4>2. QED
          BY <4>1
      <3>3. products' = [products EXCEPT ![req[t].id] = r]
        BY <2>1 DEF Update
      <3> HIDE DEF r
      <3>4. QED
        BY <3>1, <3>2, <3>3, ChangedRow DEF TypeInv
    <2>2. CASE Create(t)
      BY <1>1, <2>2, CreatedRows DEF Create, TypeInv
    <2>3. QED
      BY <2>1, <2>2
  <1>3. ReqsFit' /\ TabsFit' /\ LoansFit' /\ TimersFit'
    BY <1>2, DoneFits, Unmoved DEF Update, Create
  <1>4. QED
    BY <1>2, <1>3 DEF TypeInv, Update, Create, Grows

\* An application that is checked and inserted.
LEMMA ApplyTypes ==
    ASSUME TypeInv, NEW t \in Tabs, Validate(t) \/ Insert(t)
    PROVE  TypeInv' /\ Grows
  <1>1. Grows /\ Ids' = Ids
    BY SameProducts DEF Validate, Insert, Ids
  <1>2. /\ req[t] \in Requests /\ req[t].id \in Ids /\ req[t].member \in Members
        /\ products[req[t].id] \in Rows
    BY AskedRow DEF Validate, Insert, At, RequestRefs
  <1>3. CASE Validate(t)
    <2> DEFINE n == Cardinality(loans) + 1
               terms == products[req[t].id].terms
               q == [req[t] EXCEPT !.stage = "read", !.terms = terms, !.number = n]
    <2>1. n \in Nat
      BY FS_CardinalityType DEF TypeInv, LoansFit
    <2>2. terms \in Terms
      BY <1>2, ProductsAssumption DEF Rows
    <2>3. req' = [req EXCEPT ![t] = q]
      BY <1>3 DEF Validate
    <2>4. req[t].op = "apply"
      BY <1>3 DEF Validate, At
    <2> HIDE DEF n, terms
    <2>5. q \in Requests /\ RequestRefs(q, Ids')
      BY <1>1, <1>2, <2>1, <2>2, <2>4 DEF Requests, RequestRefs
    <2> HIDE DEF q
    <2>6. ReqsFit' /\ TabsFit' /\ LoansFit' /\ TimersFit'
      BY <1>1, <1>3, <2>3, <2>5, ReqStep, Unmoved DEF Validate
    <2>7. QED
      BY <1>1, <1>3, <2>6 DEF TypeInv, Validate, Grows
  <1>4. CASE Insert(t)
    <2> DEFINE l == [number |-> req[t].number, member |-> req[t].member, product |-> req[t].id,
                     periods |-> req[t].periods, rate |-> CopiedRate(req[t])]
    <2>1. l \in Loans /\ l.product \in Ids'
      BY <1>1, <1>2 DEF Loans, Requests, Terms, CopiedRate
    <2>2. loans' = loans \cup {l}
      BY <1>4 DEF Insert
    <2> HIDE DEF l
    <2>3. LoansFit'
      <3>1. IsFiniteSet(loans')
        BY <2>2, FS_AddElement DEF TypeInv, LoansFit
      <3>2. QED
        BY <1>1, <2>1, <2>2, <3>1 DEF TypeInv, LoansFit
    <2>4. ReqsFit' /\ TabsFit' /\ TimersFit'
      BY <1>1, <1>4, DoneFits, Unmoved DEF Insert
    <2>5. QED
      BY <1>1, <1>4, <2>3, <2>4 DEF TypeInv, Insert, Grows
  <1>5. QED
    BY <1>3, <1>4

\* A request that fails.
LEMMA FailTypes ==
    ASSUME TypeInv, NEW t \in Tabs, Fail(t)
    PROVE  TypeInv' /\ Grows
  <1>1. Grows
    BY FailedRows DEF TypeInv
  <1>2. ReqsFit' /\ TabsFit' /\ LoansFit' /\ TimersFit'
    BY <1>1, ReqStep, NoReqFits, Unmoved DEF Fail
  <1>3. QED
    BY <1>1, <1>2 DEF TypeInv, Fail, Grows

\* Every step keeps the types, and takes no row away.
LEMMA TypeStep ==
    ASSUME TypeInv, [Next]_vars
    PROVE  TypeInv' /\ Grows
  <1>1. CASE Next
    <2>1. PICK t \in Tabs : Screens(t) \/ Server(t)
      BY <1>1 DEF Next
    <2>2. CASE Screens(t)
      BY <2>2, MoveTypes, OpenTypes, RefreshTypes, AskTypes, FormTypes, AnswerTypes DEF Screens
    <2>3. CASE Server(t)
      BY <2>3, StatusTypes, SaveTypes, ApplyTypes, FailTypes DEF Server
    <2>4. QED
      BY <2>1, <2>2, <2>3
  <1>2. CASE UNCHANGED vars
    BY <1>2, SameProducts, Unmoved DEF vars, TypeInv, Grows
  <1>3. QED
    BY <1>1, <1>2

\* The rows that the catalogue begins with.
LEMMA FirstRows ==
    ASSUME Init
    PROVE  /\ products \in Seq(Rows) /\ Len(products) = Len(Seeds) /\ Len(Seeds) \in Nat
           /\ \A i \in Ids : products[i] = Row(Seeds[i].code, Seeds[i].terms)
           /\ \A i \in Ids : products[i].told = {} /\ products[i].active = TRUE
                             /\ products[i].terms \in products[i].past
                             /\ products[i].code = Seeds[i].code
  <1> DEFINE E == [code : Codes, terms : Typed]
             f(i) == Row(Seeds[i].code, Seeds[i].terms)
  <1>1. Seeds \in Seq(E)
    BY ProductsAssumption
  <1>2. \A e \in E : Row(e.code, e.terms) \in Rows
    BY DEF Row, Rows
  <1> HIDE DEF E
  <1>3. \A i \in 1..Len(Seeds) : Seeds[i] \in E
    BY <1>1
  <1>4. \A i \in 1..Len(Seeds) : f(i) \in Rows
    BY <1>2, <1>3
  <1>5. DOMAIN Seeds = 1..Len(Seeds) /\ Len(Seeds) \in Nat
    BY <1>1
  <1>6. products = [i \in 1..Len(Seeds) |-> f(i)]
    BY <1>5 DEF Init
  <1> HIDE DEF f
  <1>7. products \in Seq(Rows) /\ Len(products) = Len(Seeds) /\ \A i \in Ids : products[i] = f(i)
    BY <1>4, <1>5, <1>6 DEF Ids
  <1>8. \A i \in Ids : products[i] = Row(Seeds[i].code, Seeds[i].terms)
    BY <1>7 DEF f
  <1>9. QED
    <2>1. /\ products \in Seq(Rows) /\ Len(products) = Len(Seeds) /\ Len(Seeds) \in Nat
      BY <1>5, <1>7
    <2>2. \A i \in Ids : /\ products[i].told = {} /\ products[i].active = TRUE
                         /\ products[i].terms \in products[i].past
                         /\ products[i].code = Seeds[i].code
      <3>1. \A c, terms : /\ Row(c, terms).told = {} /\ Row(c, terms).active = TRUE
                          /\ Row(c, terms).terms \in Row(c, terms).past
                          /\ Row(c, terms).code = c
        BY DEF Row
      <3>2. QED
        BY <1>8, <3>1
    <2>3. QED
      BY <1>8, <2>1, <2>2

\* The types hold at the start.
LEMMA FirstTypes ==
    ASSUME Init
    PROVE  TypeInv
  <1>1. Blank("home") \in Screen /\ ScreenRefs(Blank("home"), Ids)
    BY BlankFits DEF ScreenRefs
  <1>2. TabsFit
    BY <1>1 DEF Init, TabsFit
  <1>3. ReqsFit
    BY NoReqFits DEF Init, ReqsFit
  <1>4. LoansFit
    BY FS_EmptySet DEF Init, LoansFit
  <1>5. QED
    BY <1>2, <1>3, <1>4, FirstRows DEF Init, TypeInv, TimersFit

\* The types of every component, and that each reference is to a row or a
\* member that is there: no step takes either away.
THEOREM TypesKept == Spec => [](TypeOK /\ TypeInv)
  <1>1. TypeInv => TypeOK
    BY DEF TypeInv, TypeOK, TabsFit, ReqsFit, LoansFit, TimersFit
  <1>2. QED
    BY <1>1, FirstTypes, TypeStep, PTL DEF Spec

-----------------------------------------------------------------------------
\* The terms of a loan

TermsInv == TypeInv /\ Remembers /\ Checked /\ TermsOfOneProduct

\* Once an application was checked, its terms are among those its product has
\* had, whatever is written to the product since.
LEMMA CheckedStep ==
    ASSUME TermsInv, [Next]_vars, TypeInv', Grows
    PROVE  Checked'
  <1> SUFFICES ASSUME NEW u \in Tabs, At(u, "apply", "read")'
               PROVE  /\ req'[u].terms \in products'[req'[u].id].past
                      /\ req'[u].periods <= req'[u].terms.span
    BY DEF Checked
  <1>1. req \in [Tabs -> Requests]
    BY DEF TermsInv, TypeInv, ReqsFit
  <1>2. ASSUME At(u, "apply", "read"), req'[u].id = req[u].id, req'[u].terms = req[u].terms,
               req'[u].periods = req[u].periods
        PROVE  /\ req'[u].terms \in products'[req'[u].id].past
               /\ req'[u].periods <= req'[u].terms.span
    <2>1. req[u].id \in Ids
      BY <1>2, AskedRow DEF TermsInv, At
    <2>2. QED
      BY <1>2, <2>1 DEF TermsInv, Checked, Grows
  <1>3. CASE req'[u] = req[u]
    BY <1>2, <1>3 DEF At
  <1>4. CASE req'[u] # req[u]
    <2>1. PICK t \in Tabs : Screens(t) \/ Server(t)
      BY <1>4 DEF Next, vars
    <2>2. CASE Unheard(t)
      <3>1. u = t /\ ~Free(t) /\ req' = [req EXCEPT ![t].heard = FALSE]
        BY <1>1, <1>4, <2>2 DEF Unheard
      <3>2. QED
        BY <1>1, <1>2, <3>1 DEF At, Requests
    <2>3. CASE Validate(t)
      <3>1. /\ u = t /\ products' = products /\ req'[u].terms = products[req[u].id].terms
            /\ req'[u].id = req[u].id /\ req'[u].periods = req[u].periods
            /\ req[u].periods <= products[req[u].id].terms.span
        BY <1>1, <1>4, <2>3 DEF Validate, Requests
      <3>2. req[u].id \in Ids
        BY <2>3, <3>1, AskedRow DEF TermsInv, Validate, At
      <3>3. QED
        BY <3>1, <3>2 DEF TermsInv, Remembers
    <2>4. CASE \E r : Send(t, r)
      BY <1>1, <1>4, <2>4 DEF Send, At, Requests
    <2>5. CASE req' = [req EXCEPT ![t] = NoReq]
      BY <1>1, <1>4, <2>5 DEF At, NoReq
    <2>6. CASE \E on : Done(t, on)
      BY <1>1, <1>4, <2>6 DEF Done, At, NoReq
    <2>7. CASE ReadStatus(t)
      BY <1>1, <1>4, <2>7 DEF ReadStatus, Toggles, At, Requests
    <2>8. \/ Unheard(t) \/ Validate(t) \/ (\E r : Send(t, r)) \/ req' = [req EXCEPT ![t] = NoReq]
          \/ (\E on : Done(t, on)) \/ ReadStatus(t)
      <3>1. CASE Screens(t)
        <4>1. CASE (\E s \in {"table", "new", "apply"} : Visit(t, s)) \/ OpenDetails(t) \/ OpenEdit(t)
                   \/ Redirect(t)
          BY <4>1 DEF Visit, OpenDetails, OpenEdit, Redirect, Arrive
        <4>2. CASE Toggle(t) \/ Flip(t) \/ SaveEdit(t) \/ SaveNew(t) \/ Submit(t)
          BY <4>2 DEF Toggle, Flip, SaveEdit, SaveNew, Submit
        <4>3. CASE Refresh(t) \/ SelectMember(t) \/ ClearMember(t) \/ NoticeArrives(t)
          BY <1>4, <4>3 DEF Refresh, SelectMember, ClearMember, NoticeArrives
        <4>4. CASE AnswerToggle(t) \/ AnswerSave(t)
          BY <4>4 DEF AnswerToggle, AnswerSave
        <4>5. QED
          BY <3>1, <4>1, <4>2, <4>3, <4>4 DEF Screens
      <3>2. CASE Server(t)
        BY <3>2 DEF Server, ReadStatus, WriteStatus, Update, Create, Validate, Insert, Fail
      <3>3. QED
        BY <2>1, <3>1, <3>2
    <2>9. QED
      BY <2>2, <2>3, <2>4, <2>5, <2>6, <2>7, <2>8
  <1>5. QED
    BY <1>3, <1>4

\* Only an insert makes a loan, with the terms that its check had read.
LEMMA LoansStep ==
    ASSUME TermsInv, [Next]_vars, Grows
    PROVE  TermsOfOneProduct'
  <1>1. ASSUME NEW l \in loans
        PROVE  \E terms \in products'[l.product].past : l.rate = terms.rate /\ l.periods <= terms.span
    <2>1. l.product \in Ids
      BY DEF TermsInv, TypeInv, LoansFit
    <2>2. QED
      BY <2>1 DEF TermsInv, TermsOfOneProduct, Grows
  <1>2. CASE \E t \in Tabs : Insert(t)
    <2>1. PICK t \in Tabs : Insert(t)
      BY <1>2
    <2> DEFINE l == [number |-> req[t].number, member |-> req[t].member, product |-> req[t].id,
                     periods |-> req[t].periods, rate |-> req[t].terms.rate]
    <2>2. /\ loans' = loans \cup {l} /\ l.product = req[t].id
          /\ l.periods = req[t].periods /\ l.rate = req[t].terms.rate
      BY <2>1 DEF Insert, CopiedRate
    <2> HIDE DEF l
    <2>3. /\ req[t].terms \in products[req[t].id].past
          /\ req[t].periods <= req[t].terms.span
      BY <2>1 DEF TermsInv, Checked, Insert
    <2>4. products' = products
      BY <2>1 DEF Insert
    <2>5. \E terms \in products'[l.product].past : l.rate = terms.rate /\ l.periods <= terms.span
      BY <2>2, <2>3, <2>4
    <2>6. QED
      BY <1>1, <2>2, <2>5 DEF TermsOfOneProduct
  <1>3. CASE UNCHANGED loans
    BY <1>1, <1>3 DEF TermsOfOneProduct
  <1>4. (\E t \in Tabs : Insert(t)) \/ UNCHANGED loans
    <2>1. CASE UNCHANGED vars
      BY <2>1 DEF vars
    <2>2. ASSUME NEW t \in Tabs, Screens(t)
          PROVE  UNCHANGED loans
      <3>1. CASE (\E s \in {"table", "new", "apply"} : Visit(t, s)) \/ OpenDetails(t) \/ OpenEdit(t)
                 \/ Redirect(t)
        BY <3>1 DEF Visit, OpenDetails, OpenEdit, Redirect, Arrive, Load
      <3>2. CASE Toggle(t) \/ Flip(t) \/ SaveEdit(t) \/ SaveNew(t) \/ Submit(t)
        BY <3>2 DEF Toggle, Flip, SaveEdit, SaveNew, Submit, Send
      <3>3. CASE Refresh(t) \/ SelectMember(t) \/ ClearMember(t) \/ NoticeArrives(t)
                 \/ AnswerToggle(t) \/ AnswerSave(t)
        BY <3>3 DEF Refresh, SelectMember, ClearMember, NoticeArrives, AnswerToggle, AnswerSave
      <3>4. QED
        BY <2>2, <3>1, <3>2, <3>3 DEF Screens
    <2>3. ASSUME NEW t \in Tabs, Server(t)
          PROVE  Insert(t) \/ UNCHANGED loans
      BY <2>3 DEF Server, ReadStatus, WriteStatus, Update, Create, Validate, Fail
    <2>4. QED
      BY <2>1, <2>2, <2>3 DEF Next
  <1>5. QED
    BY <1>2, <1>3, <1>4

\* The rate and the length of each loan come from one state of its product,
\* whatever becomes of the product between the check and the insert
\* (LoanViewSet.perform_create).
THEOREM LoansKeepTerms == Spec => []TermsOfOneProduct
  <1>1. Init => TermsInv
    <2>1. Init => Remembers
      BY FirstRows DEF Remembers
    <2>2. Init => Checked
      BY DEF Init, Checked, At, NoReq
    <2>3. Init => TermsOfOneProduct
      BY DEF Init, TermsOfOneProduct
    <2>4. QED
      BY <2>1, <2>2, <2>3, FirstTypes DEF TermsInv
  <1>2. TermsInv /\ [Next]_vars => TermsInv'
    <2> SUFFICES ASSUME TermsInv, [Next]_vars
                 PROVE  TermsInv'
      OBVIOUS
    <2>1. TypeInv' /\ Grows
      BY TypeStep DEF TermsInv
    <2>2. Remembers'
      BY <2>1 DEF Grows, TermsInv
    <2>3. QED
      BY <2>1, <2>2, CheckedStep, LoansStep DEF TermsInv
  <1>3. TermsInv => TermsOfOneProduct
    BY DEF TermsInv
  <1>4. QED
    BY <1>1, <1>2, <1>3, PTL DEF Spec

-----------------------------------------------------------------------------
\* Versions

\* The steps that change what a row says, apart from whom it told.
LEMMA RowsStep ==
    ASSUME TypeInv, [Next]_vars
    PROVE  \/ Len(products') = Len(products) /\ \A i \in Ids : SameRow(products[i], products'[i])
           \/ \E t \in Tabs : WriteStatus(t) \/ Update(t) \/ Create(t)
  <1>1. CASE UNCHANGED products
    BY <1>1 DEF SameRow
  <1>2. ASSUME NEW t \in Tabs, NEW seen, products' = Telling(t, seen)
        PROVE  Len(products') = Len(products) /\ \A i \in Ids : SameRow(products[i], products'[i])
    BY <1>2, TellingRows DEF TypeInv
  <1>3. ASSUME NEW t \in Tabs, Fail(t)
        PROVE  Len(products') = Len(products) /\ \A i \in Ids : SameRow(products[i], products'[i])
    BY <1>3, FailedRows DEF TypeInv
  <1>4. ASSUME NEW t \in Tabs, Screens(t)
        PROVE  UNCHANGED products \/ \E seen : products' = Telling(t, seen)
    <2>1. CASE (\E s \in {"table", "new", "apply"} : Visit(t, s)) \/ OpenDetails(t) \/ OpenEdit(t)
               \/ Redirect(t) \/ Refresh(t)
      BY <2>1 DEF Visit, OpenDetails, OpenEdit, Redirect, Arrive, Load, Refresh
    <2>2. CASE Toggle(t) \/ Flip(t) \/ SaveEdit(t) \/ SaveNew(t) \/ Submit(t)
      BY <2>2 DEF Toggle, Flip, SaveEdit, SaveNew, Submit, Send
    <2>3. CASE SelectMember(t) \/ ClearMember(t) \/ NoticeArrives(t) \/ AnswerToggle(t) \/ AnswerSave(t)
      BY <2>3 DEF SelectMember, ClearMember, NoticeArrives, AnswerToggle, AnswerSave
    <2>4. QED
      BY <1>4, <2>1, <2>2, <2>3 DEF Screens
  <1>5. ASSUME NEW t \in Tabs, Server(t)
        PROVE  UNCHANGED products \/ Fail(t) \/ WriteStatus(t) \/ Update(t) \/ Create(t)
    BY <1>5 DEF Server, ReadStatus, Validate, Insert
  <1>6. CASE UNCHANGED vars
    BY <1>1, <1>6 DEF vars
  <1>7. CASE Next
    BY <1>1, <1>2, <1>3, <1>4, <1>5, <1>7 DEF Next
  <1>8. QED
    BY <1>6, <1>7

\* Two rows that are on offer for the same code, with none of them revived.
Rivals(r, s) == r.code = s.code /\ r.active /\ s.active /\ ~r.revived /\ ~s.revived

\* A change of status or an edit revives its row, and a new version takes the
\* others off.
LEMMA OfferStep ==
    ASSUME TypeInv, [Next]_vars, OneVersionOnOffer
    PROVE  OneVersionOnOffer'
  <1> SUFFICES ASSUME NEW i \in Ids', NEW j \in Ids', i # j, Rivals(products'[i], products'[j])
               PROVE  FALSE
    BY DEF OneVersionOnOffer, Rivals
  <1>1. \A k, l \in Ids : k # l => ~Rivals(products[k], products[l])
    BY DEF OneVersionOnOffer, Rivals
  <1>2. CASE Len(products') = Len(products) /\ \A k \in Ids : SameRow(products[k], products'[k])
    BY <1>1, <1>2 DEF Ids, SameRow, Rivals
  <1>3. ASSUME NEW k \in Ids, NEW r \in Rows, products' = [products EXCEPT ![k] = r],
               r.active => r.revived
        PROVE  FALSE
    <2>1. /\ Len(products') = Len(products)
          /\ \A l \in Ids : products'[l] = IF l = k THEN r ELSE products[l]
      BY <1>3, ExceptSeq DEF Ids, TypeInv
    <2>2. QED
      BY <1>1, <1>3, <2>1 DEF Ids, Rivals
  <1>4. ASSUME NEW t \in Tabs, WriteStatus(t)
        PROVE  FALSE
    <2> DEFINE who == IF req[t].heard THEN {t} ELSE {}
               r == Switched(products[req[t].id], req[t].value, who)
    <2>1. /\ req[t].id \in Ids /\ products[req[t].id] \in Rows /\ req[t].value \in BOOLEAN
          /\ who \in SUBSET Tabs
      BY <1>4, AskedRow DEF WriteStatus, Toggles, At, Requests
    <2>2. r \in Rows /\ (r.active => r.revived)
      BY <2>1, SwitchedRow
    <2>3. products' = [products EXCEPT ![req[t].id] = r]
      BY <1>4 DEF WriteStatus
    <2> HIDE DEF r
    <2>4. QED
      BY <1>3, <2>1, <2>2, <2>3
  <1>5. ASSUME NEW t \in Tabs, Update(t)
        PROVE  FALSE
    <2> DEFINE r == Edited(products[req[t].id], req[t].code, req[t].terms)
    <2>1. /\ req[t].id \in Ids /\ products[req[t].id] \in Rows
          /\ req[t].code \in Codes /\ req[t].terms \in Typed
      BY <1>5, AskedRow DEF Update, At, RequestRefs
    <2>2. r \in Rows /\ r.revived
      BY <2>1, EditedRow, EditedStatus
    <2>3. products' = [products EXCEPT ![req[t].id] = r]
      BY <1>5 DEF Update
    <2> HIDE DEF r
    <2>4. QED
      BY <1>3, <2>1, <2>2, <2>3
  <1>6. ASSUME NEW t \in Tabs, Create(t)
        PROVE  FALSE
    <2> DEFINE c == req[t].code
               n == Len(products) + 1
    <2>1. c \in Codes /\ req[t].terms \in Typed
      BY <1>6, AskedRow DEF Create, At, RequestRefs
    <2>2. /\ Len(products') = n
          /\ \A k \in Ids : products'[k] = Superseded(products[k], c)
          /\ products'[n] = Row(c, req[t].terms)
      BY <1>6, <2>1, CreatedRows DEF Create, TypeInv
    <2>3. Len(products) \in Nat /\ \A k \in Ids : products[k] \in Rows
      BY RowFacts DEF TypeInv
    <2>4. \A k \in Ids' : k \in Ids \/ k = n
      BY <2>2, <2>3 DEF Ids
    <2>5. \A k \in Ids : IF products[k].code = c THEN ~products'[k].active
                                                  ELSE products'[k] = products[k]
      BY <2>2, <2>3 DEF Superseded, Switched, Rows
    <2>6. products'[n].code = c
      BY <2>2 DEF Row
    <2>7. QED
      BY <1>1, <2>4, <2>5, <2>6 DEF Rivals
  <1>7. QED
    BY <1>2, <1>4, <1>5, <1>6, RowsStep

\* A new version leaves no older one of its code on offer, and a code has two
\* again only where one was shown again, or edited, since
\* (LoanProductSerializer.create).
THEOREM VersionsStaySingle == Spec => []OneVersionOnOffer
  <1>1. Init => TypeInv /\ OneVersionOnOffer
    <2> SUFFICES ASSUME Init
                 PROVE  OneVersionOnOffer
      BY FirstTypes
    <2>1. DOMAIN Seeds = Ids
      BY FirstRows, ProductsAssumption DEF Ids
    <2>2. \A i, j \in Ids : i # j => Seeds[i].code # Seeds[j].code
      BY <2>1, ProductsAssumption
    <2>3. \A i \in Ids : products[i].code = Seeds[i].code
      BY FirstRows
    <2>4. QED
      BY <2>2, <2>3 DEF OneVersionOnOffer
  <1>2. TypeInv /\ OneVersionOnOffer /\ [Next]_vars => (TypeInv /\ OneVersionOnOffer)'
    BY TypeStep, OfferStep
  <1>3. QED
    BY <1>1, <1>2, PTL DEF Spec

-----------------------------------------------------------------------------
\* Labels

\* What a tab shows of the rows stays, and so does what it was told of them.
SameView(u) ==
    /\ tab'[u].screen = tab[u].screen /\ tab'[u].id = tab[u].id
    /\ tab'[u].known = tab[u].known /\ tab'[u].over = tab[u].over

NoNews(u) ==
    \A i \in Ids' : u \in products'[i].told =>
        i \in Ids /\ u \in products[i].told /\ products'[i].active = products[i].active

\* A page that stays, with a request that goes on or ends.
LEMMA PageKept ==
    ASSUME NEW u \in Tabs, Page(u), SameView(u),
           \/ req'[u] = req[u]
           \/ ~req'[u].heard
           \/ /\ req'[u].op = req[u].op /\ req'[u].id = req[u].id
              /\ req'[u].heard = req[u].heard /\ req'[u].stage # "idle"
    PROVE  Page(u)'
  BY DEF Page, SameView, On, Shows, Free

\* A tab with no news, and no answer on its way, knows what it knew.
LEMMA KnowsStill ==
    ASSUME NEW u \in Tabs, TabKnows(u), SameView(u), NoNews(u), Page(u)',
           \/ req'[u] = req[u]
           \/ \A i \in Ids : ~Answers(u, i)' /\ (Answers(u, i) => u \notin products'[i].told)
    PROVE  TabKnows(u)'
  <1> SUFFICES ASSUME NEW i \in Ids', u \in products'[i].told
               PROVE  Knows(u, i)'
    BY DEF TabKnows
  <1>1. /\ i \in Ids /\ u \in products[i].told /\ products'[i].active = products[i].active
        /\ Knows(u, i)
    BY DEF NoNews, TabKnows
  <1>2. Shows(u, i)' = Shows(u, i) /\ Label(u, i)' = Label(u, i)
    BY DEF SameView, Shows, On, Label
  <1>3. CASE req'[u] = req[u]
    <2>1. Answers(u, i)' = Answers(u, i)
      BY <1>3 DEF Answers, Toggles, At
    <2>2. QED
      BY <1>1, <1>2, <1>3, <2>1 DEF Knows
  <1>4. CASE ~Answers(u, i)' /\ ~Answers(u, i)
    BY <1>1, <1>2, <1>4 DEF Knows
  <1>5. QED
    BY <1>1, <1>3, <1>4

\* A tab that a step is not about.
LEMMA OtherTab ==
    ASSUME NEW u \in Tabs, TabKnows(u), NoNews(u), tab'[u] = tab[u], req'[u] = req[u]
    PROVE  TabKnows(u)'
  <1>1. SameView(u)
    BY DEF SameView
  <1>2. Page(u)'
    BY <1>1, PageKept DEF TabKnows
  <1>3. QED
    BY <1>1, <1>2, KnowsStill

\* Another tab's list, or its change of a status, is no news.
LEMMA NoNewsOfOthers ==
    ASSUME TypeInv, NEW t \in Tabs, NEW u \in Tabs, u # t,
           \/ \E seen : products' = Telling(t, seen)
           \/ WriteStatus(t)
    PROVE  NoNews(u)
  <1>1. CASE \E seen : products' = Telling(t, seen)
    <2>1. PICK seen : products' = Telling(t, seen)
      BY <1>1
    <2>2. /\ Len(products') = Len(products)
          /\ \A i \in Ids : /\ products'[i].active = products[i].active
                            /\ products'[i].told = IF i \in seen THEN products[i].told \cup {t}
                                                                ELSE products[i].told
      <3>1. products \in Seq(Rows)
        BY DEF TypeInv
      <3>2. /\ Len(products') = Len(products)
            /\ \A i \in Ids : /\ SameRow(products[i], products'[i])
                              /\ products'[i].told = IF i \in seen THEN products[i].told \cup {t}
                                                                  ELSE products[i].told
        BY <2>1, <3>1, TellingRows
      <3>3. QED
        BY <3>2 DEF SameRow
    <2>3. QED
      BY <2>2 DEF NoNews, Ids
  <1>2. CASE WriteStatus(t)
    <2> DEFINE who == IF req[t].heard THEN {t} ELSE {}
               r == Switched(products[req[t].id], req[t].value, who)
    <2>1. /\ req[t].id \in Ids /\ products[req[t].id] \in Rows /\ req[t].value \in BOOLEAN
          /\ who \in SUBSET Tabs /\ u \notin who
      BY <1>2, AskedRow DEF WriteStatus, Toggles, At, Requests
    <2> HIDE DEF who
    <2>2. r \in Rows /\ u \notin r.told
      BY <2>1, SwitchedRow
    <2>3. products' = [products EXCEPT ![req[t].id] = r]
      BY <1>2 DEF WriteStatus, who
    <2> HIDE DEF r
    <2>4. /\ Len(products') = Len(products)
          /\ \A l \in Ids : products'[l] = IF l = req[t].id THEN r ELSE products[l]
      BY <2>1, <2>2, <2>3, ExceptSeq DEF Ids, TypeInv
    <2>5. QED
      BY <2>2, <2>4 DEF NoNews, Ids
  <1>3. QED
    BY <1>1, <1>2

\* Neither is a save: whoever it could mislead is no longer told.
LEMMA NoNewsOfSaves ==
    ASSUME TypeInv, NEW t \in Tabs, NEW u \in Tabs,
           UNCHANGED products \/ Fail(t) \/ Update(t) \/ Create(t)
    PROVE  NoNews(u)
  <1>1. CASE UNCHANGED products
    BY <1>1 DEF NoNews, Ids
  <1>2. CASE Fail(t)
    <2>1. /\ Len(products') = Len(products)
          /\ \A i \in Ids : /\ products'[i].active = products[i].active
                            /\ products'[i].told = IF Answers(t, i) THEN products[i].told \ {t}
                                                                 ELSE products[i].told
      BY <1>2, FailedRows DEF TypeInv, SameRow
    <2>2. QED
      BY <2>1 DEF NoNews, Ids
  <1>3. CASE Update(t)
    <2> DEFINE old == products[req[t].id]
               r == Edited(old, req[t].code, req[t].terms)
    <2>1. /\ req[t].id \in Ids /\ old \in Rows
          /\ req[t].code \in Codes /\ req[t].terms \in Typed
      BY <1>3, AskedRow DEF Update, At, RequestRefs
    <2>2. r \in Rows
      BY <2>1, EditedRow
    <2>3. r.active /\ (old.active => r.told = old.told) /\ (~old.active => r.told = {})
      BY <2>1, EditedStatus
    <2>4. u \in r.told => u \in old.told /\ old.active = r.active
      <3>1. old.active \in BOOLEAN /\ r.active \in BOOLEAN
        BY <2>1, <2>2 DEF Rows
      <3>2. QED
        BY <2>3, <3>1
    <2>5. products' = [products EXCEPT ![req[t].id] = r]
      BY <1>3 DEF Update
    <2> HIDE DEF r
    <2>6. /\ Len(products') = Len(products)
          /\ \A l \in Ids : products'[l] = IF l = req[t].id THEN r ELSE products[l]
      BY <2>1, <2>2, <2>5, ExceptSeq DEF Ids, TypeInv
    <2>7. QED
      BY <2>1, <2>4, <2>6 DEF NoNews, Ids
  <1>4. CASE Create(t)
    <2> DEFINE c == req[t].code
               n == Len(products) + 1
    <2>1. c \in Codes /\ req[t].terms \in Typed
      BY <1>4, AskedRow DEF Create, At, RequestRefs
    <2>2. /\ Len(products') = n
          /\ \A k \in Ids : products'[k] = Superseded(products[k], c)
          /\ products'[n] = Row(c, req[t].terms)
      BY <1>4, <2>1, CreatedRows DEF Create, TypeInv
    <2>3. Len(products) \in Nat /\ \A k \in Ids : products[k] \in Rows
      BY RowFacts DEF TypeInv
    <2>4. \A k \in Ids' : k \in Ids \/ k = n
      BY <2>2, <2>3 DEF Ids
    <2>5. products'[n].told = {}
      BY <2>2 DEF Row
    <2>6. ASSUME NEW k \in Ids, u \in products'[k].told
          PROVE  u \in products[k].told /\ products'[k].active = products[k].active
      <3>1. CASE products[k].code # c
        BY <2>2, <2>6, <3>1 DEF Superseded
      <3>2. CASE products[k].code = c
        <4>1. products[k].active \in BOOLEAN
          BY <2>3 DEF Rows
        <4>2. CASE products[k].active
          <5>1. products'[k] = Switched(products[k], FALSE, {})
            BY <2>2, <3>2, <4>2 DEF Superseded
          <5>2. products'[k].told = {}
            BY <2>3, <5>1 DEF Switched, Rows
          <5>3. QED
            BY <2>6, <5>2
        <4>3. CASE ~products[k].active
          <5>1. products'[k] = Switched(products[k], FALSE, products[k].told)
            BY <2>2, <3>2, <4>3 DEF Superseded
          <5>2. products'[k].told = products[k].told /\ products'[k].active = FALSE
            BY <2>3, <5>1 DEF Switched, Rows
          <5>3. QED
            BY <2>6, <4>1, <4>3, <5>2
        <4>4. QED
          BY <4>2, <4>3
      <3>3. QED
        BY <3>1, <3>2
    <2>7. QED
      BY <2>4, <2>5, <2>6 DEF NoNews
  <1>5. QED
    BY <1>1, <1>2, <1>3, <1>4

\* A page that was just opened shows the rows as they are.
Truthful(s) ==
    /\ s.screen = "table" =>
        DOMAIN s.over = {} /\ \A i \in DOMAIN s.known : s.known[i].active = products[i].active
    /\ s.screen = "details" => DOMAIN s.over = {s.id} /\ s.over[s.id] = products[s.id].active

\* A page that was just opened shows what the server has.
LEMMA LoadLabels ==
    ASSUME TypeInv, LabelInv, NEW t \in Tabs, NEW s, Truthful(s), NEW seen,
           Unheard(t), Load(t, s, seen)
    PROVE  LabelInv'
  <1>1. tab \in [Tabs -> Screen] /\ req \in [Tabs -> Requests] /\ products \in Seq(Rows)
    BY DEF TypeInv, TabsFit, ReqsFit
  <1>2. tab'[t] = s /\ \A u \in Tabs : u # t => tab'[u] = tab[u] /\ req'[u] = req[u]
    BY <1>1 DEF Load, Unheard
  <1>3. ~req'[t].heard
    BY <1>1 DEF Unheard, Requests, LabelInv, TabKnows, Page
  <1>4. products' = Telling(t, seen)
    BY DEF Load
  <1>5. ASSUME NEW u \in Tabs, u # t
        PROVE  TabKnows(u)'
    BY <1>2, <1>4, <1>5, NoNewsOfOthers, OtherTab DEF LabelInv
  <1>6. \A i \in Ids' : products'[i].active = products[i].active
    <2>1. /\ Len(products') = Len(products)
          /\ \A i \in Ids : SameRow(products[i], products'[i])
      BY <1>1, <1>4, TellingRows
    <2>2. QED
      BY <2>1 DEF Ids, SameRow
  <1>7. TabKnows(t)'
    <2>1. Page(t)'
      BY <1>2, <1>3 DEF Page, Truthful, On
    <2>2. ASSUME NEW i \in Ids'
          PROVE  Knows(t, i)'
      <3>1. ~Answers(t, i)'
        BY <1>3 DEF Answers
      <3>2. ASSUME Shows(t, i)'
            PROVE  Label(t, i)' = products'[i].active
        <4>1. Label(t, i)' = IF i \in DOMAIN s.over THEN s.over[i] ELSE s.known[i].active
          BY <1>2 DEF Label
        <4>2. CASE s.screen = "table" /\ i \in DOMAIN s.known
          BY <1>6, <4>1, <4>2 DEF Truthful
        <4>3. CASE s.screen = "details" /\ s.id = i
          BY <1>6, <4>1, <4>3 DEF Truthful
        <4>4. QED
          BY <1>2, <3>2, <4>2, <4>3 DEF Shows, On
      <3>3. QED
        BY <3>1, <3>2 DEF Knows
    <2>3. QED
      BY <2>1, <2>2 DEF TabKnows
  <1>8. QED
    BY <1>5, <1>7 DEF LabelInv

\* So do the pages without a row of their own, ...
LEMMA ArriveLabels ==
    ASSUME TypeInv, LabelInv, NEW t \in Tabs, NEW screen \in {"table", "new", "apply", "home"},
           Arrive(t, screen)
    PROVE  LabelInv'
  <1>1. CASE screen \in {"table", "apply"}
    <2> DEFINE s == [Blank(screen) EXCEPT !.known = List]
    <2>1. /\ s.screen = screen /\ DOMAIN s.over = {} /\ s.known = List
      BY DEF Blank
    <2>2. \A i \in DOMAIN List : List[i].active = products[i].active
      BY ListFits DEF TypeInv
    <2>3. Truthful(s)
      BY <1>1, <2>1, <2>2 DEF Truthful
    <2>4. Unheard(t) /\ \E seen : Load(t, s, seen)
      BY <1>1 DEF Arrive
    <2> HIDE DEF s
    <2>5. QED
      BY <2>3, <2>4, LoadLabels
  <1>2. CASE screen \in {"new", "home"}
    <2>1. Truthful(Blank(screen))
      BY <1>2 DEF Truthful, Blank
    <2>2. Unheard(t) /\ Load(t, Blank(screen), {})
      BY <1>2 DEF Arrive
    <2>3. QED
      BY <2>1, <2>2, LoadLabels
  <1>3. QED
    BY <1>1, <1>2

\* ... and the page of a product.
LEMMA OpenLabels ==
    ASSUME TypeInv, LabelInv, NEW t \in Tabs, OpenDetails(t) \/ OpenEdit(t)
    PROVE  LabelInv'
  <1>1. Unheard(t)
    BY DEF OpenDetails, OpenEdit
  <1>2. CASE OpenDetails(t)
    <2>1. PICK i \in Ids :
            Load(t, [Blank("details") EXCEPT !.id = i,
                       !.over = [j \in {i} |-> products[i].active]], {i})
      BY <1>2 DEF OpenDetails
    <2> DEFINE s == [Blank("details") EXCEPT !.id = i, !.over = [j \in {i} |-> products[i].active]]
    <2>2. /\ s.screen = "details" /\ s.id = i /\ DOMAIN s.over = {i}
          /\ s.over[i] = products[i].active
      BY DEF Blank
    <2>3. Load(t, s, {i})
      BY <2>1
    <2> HIDE DEF s
    <2>4. Truthful(s)
      BY <2>2 DEF Truthful
    <2>5. QED
      BY <1>1, <2>3, <2>4, LoadLabels
  <1>3. CASE OpenEdit(t)
    <2>1. PICK i \in Ids :
            Load(t, [Blank("edit") EXCEPT !.id = i, !.code = products[i].code,
                       !.terms = products[i].terms], {})
      BY <1>3 DEF OpenEdit
    <2> DEFINE s == [Blank("edit") EXCEPT !.id = i, !.code = products[i].code,
                       !.terms = products[i].terms]
    <2>2. Truthful(s)
      BY DEF Truthful, Blank
    <2>3. Load(t, s, {})
      BY <2>1
    <2> HIDE DEF s
    <2>4. QED
      BY <1>1, <2>2, <2>3, LoadLabels
  <1>4. QED
    BY <1>2, <1>3

\* Going to a page, or being sent there.
LEMMA MoveLabels ==
    ASSUME TypeInv, LabelInv, NEW t \in Tabs,
           (\E s \in {"table", "new", "apply"} : Visit(t, s)) \/ Redirect(t)
    PROVE  LabelInv'
  <1>1. CASE \E s \in {"table", "new", "apply"} : Visit(t, s)
    BY <1>1, ArriveLabels DEF Visit
  <1>2. CASE Redirect(t)
    <2>1. PICK p \in timers[t] : Arrive(t, p)
      BY <1>2 DEF Redirect
    <2>2. p \in {"table", "home"}
      BY <2>1 DEF TypeInv, TimersFit
    <2>3. QED
      BY <2>1, <2>2, ArriveLabels
  <1>3. QED
    BY <1>1, <1>2

\* A list that is loaded again shows what is remembered first.
LEMMA RefreshLabels ==
    ASSUME TypeInv, LabelInv, NEW t \in Tabs, Refresh(t)
    PROVE  LabelInv'
  <1> DEFINE seen == {i \in Ids \ DOMAIN tab[t].over :
                        req[t].op \in {"set", "flip"} => req[t].id # i}
  <1>1. /\ tab \in [Tabs -> Screen] /\ tab[t] \in Screen /\ req' = req
        /\ products \in Seq(Rows) /\ DOMAIN tab[t].known \subseteq Ids
    BY DEF TypeInv, TabsFit, Refresh, ScreenRefs
  <1>2. /\ tab'[t].screen = tab[t].screen /\ tab'[t].id = tab[t].id
        /\ tab'[t].known = List /\ tab'[t].over = tab[t].over
        /\ \A u \in Tabs : u # t => tab'[u] = tab[u]
    BY <1>1 DEF Refresh, Screen
  <1>3. products' = Telling(t, seen)
    BY DEF Refresh
  <1>4. DOMAIN List = Ids /\ \A i \in Ids : List[i].active = products[i].active
    BY <1>1, ListFits
  <1>5. ASSUME NEW u \in Tabs, u # t
        PROVE  TabKnows(u)'
    BY <1>1, <1>2, <1>3, <1>5, NoNewsOfOthers, OtherTab DEF LabelInv
  <1>6. /\ Ids' = Ids
        /\ \A i \in Ids : /\ products'[i].active = products[i].active
                          /\ t \in products'[i].told => t \in products[i].told \/ i \in seen
    <2> HIDE DEF seen
    <2>1. /\ Len(products') = Len(products)
          /\ \A i \in Ids : /\ SameRow(products[i], products'[i])
                            /\ products'[i].told = IF i \in seen THEN products[i].told \cup {t}
                                                                ELSE products[i].told
      BY <1>1, <1>3, TellingRows
    <2>2. QED
      BY <2>1 DEF Ids, SameRow
  <1>7. Page(t) /\ On(t, "table")
    BY DEF LabelInv, TabKnows, Refresh
  <1>8. TabKnows(t)'
    <2>1. Page(t)'
      BY <1>1, <1>2, <1>4, <1>7 DEF Page, On, Shows, Free
    <2>2. ASSUME NEW i \in Ids, t \in products'[i].told
          PROVE  Knows(t, i)'
      <3>1. Answers(t, i)' = Answers(t, i)
        BY <1>1 DEF Answers, Toggles, At
      <3>2. CASE Answers(t, i)
        <4>1. i \notin seen
          BY <3>2 DEF Answers, Toggles, At
        <4>2. req[t].value = products[i].active
          BY <1>6, <2>2, <3>2, <4>1 DEF LabelInv, TabKnows, Knows
        <4>3. QED
          BY <1>1, <1>6, <3>1, <3>2, <4>2 DEF Knows
      <3>3. CASE ~Answers(t, i)
        <4>1. CASE i \in DOMAIN tab[t].over
          <5>1. t \in products[i].told /\ Shows(t, i)
            BY <1>6, <1>7, <2>2, <4>1 DEF Page, Shows
          <5>2. tab[t].over[i] = products[i].active
            BY <3>3, <4>1, <5>1 DEF LabelInv, TabKnows, Knows, Label
          <5>3. Label(t, i)' = products'[i].active
            BY <1>2, <1>6, <4>1, <5>2 DEF Label
          <5>4. QED
            BY <3>1, <3>3, <5>3 DEF Knows
        <4>2. CASE i \notin DOMAIN tab[t].over
          <5>1. Label(t, i)' = products'[i].active
            BY <1>2, <1>4, <1>6, <4>2 DEF Label
          <5>2. QED
            BY <3>1, <3>3, <5>1 DEF Knows
        <4>3. QED
          BY <4>1, <4>2
      <3>4. QED
        BY <3>2, <3>3
    <2>3. QED
      BY <1>6, <2>1, <2>2 DEF TabKnows
  <1>9. QED
    BY <1>5, <1>8 DEF LabelInv

\* A change of status is known where it was asked for, if that is heard of.
LEMMA WriteLabels ==
    ASSUME TypeInv, LabelInv, NEW t \in Tabs, WriteStatus(t)
    PROVE  LabelInv'
  <1> DEFINE who == IF req[t].heard THEN {t} ELSE {}
             r == Switched(products[req[t].id], req[t].value, who)
  <1>1. /\ req \in [Tabs -> Requests] /\ req[t] \in Requests /\ products \in Seq(Rows)
        /\ req[t].id \in Ids /\ products[req[t].id] \in Rows /\ req[t].value \in BOOLEAN
        /\ who \in SUBSET Tabs
    BY AskedRow DEF WriteStatus, Toggles, At, Requests, TypeInv, ReqsFit
  <1>2. r \in Rows /\ r.active = req[t].value /\ r.told = who
    BY <1>1, SwitchedRow
  <1>3. products' = [products EXCEPT ![req[t].id] = r]
    BY DEF WriteStatus
  <1>4. \A u \in Tabs : u # t => tab'[u] = tab[u] /\ req'[u] = req[u]
    BY <1>1 DEF WriteStatus, Done
  <1>5. /\ req'[t].op = req[t].op /\ req'[t].id = req[t].id /\ req'[t].heard = req[t].heard
        /\ req'[t].value = req[t].value /\ req'[t].stage = "ok"
    BY <1>1 DEF WriteStatus, Done, NoReq
  <1>6. ASSUME NEW u \in Tabs, u # t
        PROVE  TabKnows(u)'
    BY <1>4, <1>6, NoNewsOfOthers, OtherTab DEF LabelInv
  <1> HIDE DEF r
  <1>7. /\ Ids' = Ids
        /\ \A i \in Ids : products'[i] = IF i = req[t].id THEN r ELSE products[i]
    BY <1>1, <1>2, <1>3, ExceptSeq DEF Ids
  <1>8. tab' = tab /\ Toggles(t, "read")
    BY DEF WriteStatus
  <1>9. TabKnows(t)'
    <2>1. Page(t)'
      BY <1>5, <1>8, PageKept DEF SameView, LabelInv, TabKnows
    <2>2. ASSUME NEW i \in Ids, t \in products'[i].told
          PROVE  Knows(t, i)'
      <3>1. CASE i = req[t].id
        <4>1. req[t].heard /\ products'[i].active = req[t].value
          BY <1>2, <1>7, <2>2, <3>1
        <4>2. Answers(t, i)'
          BY <1>5, <1>8, <3>1, <4>1 DEF Answers, Toggles, At
        <4>3. QED
          BY <1>5, <4>1, <4>2 DEF Knows
      <3>2. CASE i # req[t].id
        <4>1. products'[i] = products[i] /\ ~Answers(t, i) /\ ~Answers(t, i)'
          BY <1>5, <1>7, <3>2 DEF Answers
        <4>2. Shows(t, i)' = Shows(t, i) /\ Label(t, i)' = Label(t, i)
          BY <1>8 DEF Shows, On, Label
        <4>3. QED
          BY <2>2, <4>1, <4>2 DEF Knows, LabelInv, TabKnows
      <3>3. QED
        BY <3>1, <3>2
    <2>3. QED
      BY <1>7, <2>1, <2>2 DEF TabKnows
  <1>10. QED
    BY <1>6, <1>9 DEF LabelInv

\* The answer is what the page shows from then on.
LEMMA AnswerLabels ==
    ASSUME TypeInv, LabelInv, NEW t \in Tabs, AnswerToggle(t)
    PROVE  LabelInv'
  <1> DEFINE o == [i \in DOMAIN tab[t].over \cup {req[t].id} |->
                     IF i = req[t].id THEN req[t].value ELSE tab[t].over[i]]
  <1>1. /\ tab \in [Tabs -> Screen] /\ tab[t] \in Screen
        /\ req \in [Tabs -> Requests] /\ req[t] \in Requests
    BY DEF TypeInv, TabsFit, ReqsFit
  <1>2. /\ tab'[t].screen = tab[t].screen /\ tab'[t].id = tab[t].id
        /\ tab'[t].known = tab[t].known /\ tab'[t].over = o
    BY <1>1 DEF AnswerToggle, Relabelled, Screen
  <1>3. /\ DOMAIN o = DOMAIN tab[t].over \cup {req[t].id} /\ o[req[t].id] = req[t].value
        /\ \A i \in DOMAIN tab[t].over : i # req[t].id => o[i] = tab[t].over[i]
    OBVIOUS
  <1> HIDE DEF o
  <1>4. \A u \in Tabs : u # t => tab'[u] = tab[u] /\ req'[u] = req[u]
    BY <1>1 DEF AnswerToggle
  <1>5. req'[t] = NoReq /\ products' = products
    BY <1>1 DEF AnswerToggle
  <1>6. ASSUME NEW u \in Tabs, u # t
        PROVE  TabKnows(u)'
    BY <1>4, <1>5, <1>6, NoNewsOfSaves, OtherTab DEF LabelInv
  <1>7. Page(t) /\ Toggles(t, "ok") /\ req[t].heard /\ Shows(t, req[t].id)
    BY DEF LabelInv, TabKnows, AnswerToggle, Page, Toggles, At
  <1>8. TabKnows(t)'
    <2>1. Page(t)'
      <3>1. ~req'[t].heard /\ req'[t].op = "none"
        BY <1>5 DEF NoReq
      <3>2. On(t, "details") => DOMAIN o = {tab[t].id}
        BY <1>3, <1>7 DEF Page, Shows, On
      <3>3. On(t, "table") => DOMAIN o \subseteq DOMAIN tab[t].known
        BY <1>3, <1>7 DEF Page, Shows, On
      <3>4. QED
        BY <1>2, <3>1, <3>2, <3>3 DEF Page, On
    <2>2. ASSUME NEW i \in Ids, t \in products[i].told
          PROVE  Knows(t, i)'
      <3>1. ~Answers(t, i)'
        BY <1>5 DEF Answers, NoReq
      <3>2. CASE i = req[t].id
        <4>1. req[t].value = products[i].active
          BY <1>7, <2>2, <3>2 DEF LabelInv, TabKnows, Knows, Answers
        <4>2. Label(t, i)' = products'[i].active
          BY <1>2, <1>3, <1>5, <3>2, <4>1 DEF Label
        <4>3. QED
          BY <3>1, <4>2 DEF Knows
      <3>3. CASE i # req[t].id
        <4>1. Shows(t, i)' = Shows(t, i) /\ Label(t, i)' = Label(t, i)
          BY <1>2, <1>3, <3>3 DEF Shows, On, Label
        <4>2. ~Answers(t, i)
          BY <3>3 DEF Answers
        <4>3. QED
          BY <1>5, <2>2, <3>1, <4>1, <4>2 DEF Knows, LabelInv, TabKnows
      <3>4. QED
        BY <3>2, <3>3
    <2>3. QED
      BY <1>5, <2>1, <2>2 DEF TabKnows, Ids
  <1>9. QED
    BY <1>6, <1>8 DEF LabelInv

\* What a request or its answer says nothing of is shown as it was.
LEMMA QuietLabels ==
    ASSUME TypeInv, LabelInv, NEW t \in Tabs, SameView(t), Page(t)',
           \A u \in Tabs : NoNews(u) /\ (u # t => tab'[u] = tab[u] /\ req'[u] = req[u]),
           \/ req'[t] = req[t]
           \/ \A i \in Ids : ~Answers(t, i)' /\ (Answers(t, i) => t \notin products'[i].told)
    PROVE  LabelInv'
  BY KnowsStill, OtherTab DEF LabelInv

\* A request asks of a row that its page shows.
LEMMA AskLabels ==
    ASSUME TypeInv, LabelInv, NEW t \in Tabs,
           Toggle(t) \/ Flip(t) \/ SaveEdit(t) \/ SaveNew(t) \/ Submit(t)
    PROVE  LabelInv'
  <1> DEFINE Asks(r) == Send(t, r) /\ r \in Requests
                        /\ (r.op \in {"set", "flip"} => Shows(t, r.id))
  <1>1. \E r : Asks(r)
    <2>1. CASE Toggle(t)
      <3>1. PICK i \in DOMAIN tab[t].known :
              Send(t, [NoReq EXCEPT !.op = "set", !.id = i, !.value = ~Label(t, i)])
        BY <2>1 DEF Toggle
      <3> DEFINE r == [NoReq EXCEPT !.op = "set", !.id = i, !.value = ~Label(t, i)]
      <3>2. i \in Nat /\ (~Label(t, i)) \in BOOLEAN
        BY ShownRow
      <3>3. r \in Requests /\ r.id = i
        BY <3>2, NoReqFits DEF Requests
      <3>4. Shows(t, r.id)
        BY <2>1, <3>3 DEF Toggle, Shows
      <3>5. Asks(r)
        BY <3>1, <3>3, <3>4
      <3>6. QED
        BY <3>5
    <2>2. CASE Flip(t)
      <3> DEFINE r == [NoReq EXCEPT !.op = "flip", !.id = tab[t].id]
      <3>1. tab[t].id \in Nat
        BY ShownRow
      <3>2. r \in Requests /\ r.id = tab[t].id
        BY <3>1, NoReqFits DEF Requests
      <3>3. Asks(r)
        BY <2>2, <3>2 DEF Flip, Shows
      <3>4. QED
        BY <3>3
    <2>3. CASE SaveEdit(t)
      <3>1. PICK c \in Codes, new \in Typed :
              Send(t, [NoReq EXCEPT !.op = "update", !.id = tab[t].id, !.code = c, !.terms = new])
        BY <2>3 DEF SaveEdit
      <3> DEFINE r == [NoReq EXCEPT !.op = "update", !.id = tab[t].id, !.code = c, !.terms = new]
      <3>2. tab[t].id \in Nat /\ new \in Terms
        BY ShownRow, ProductsAssumption
      <3>3. r \in Requests /\ r.op = "update"
        BY <3>2, NoReqFits DEF Requests
      <3>4. Asks(r)
        BY <3>1, <3>3
      <3>5. QED
        BY <3>4
    <2>4. CASE SaveNew(t)
      <3>1. PICK c \in Codes, new \in Typed :
              Send(t, [NoReq EXCEPT !.op = "create", !.code = c, !.terms = new])
        BY <2>4 DEF SaveNew
      <3> DEFINE r == [NoReq EXCEPT !.op = "create", !.code = c, !.terms = new]
      <3>2. new \in Terms
        BY ProductsAssumption
      <3>3. r \in Requests /\ r.op = "create"
        BY <3>2, NoReqFits DEF Requests
      <3>4. Asks(r)
        BY <3>1, <3>3
      <3>5. QED
        BY <3>4
    <2>5. CASE Submit(t)
      <3>1. PICK i \in Offered(t), n \in Periods \cup {Usual} :
              Send(t, [NoReq EXCEPT !.op = "apply", !.id = i,
                                    !.member = tab[t].member, !.periods = n])
        BY <2>5 DEF Submit
      <3> DEFINE r == [NoReq EXCEPT !.op = "apply", !.id = i,
                                    !.member = tab[t].member, !.periods = n]
      <3>2. i \in Nat /\ n \in Nat /\ tab[t].member \in Members \cup {NoOne}
        BY ShownRow, ProductsAssumption DEF Offered
      <3>3. r \in Requests /\ r.op = "apply"
        BY <3>2, NoReqFits DEF Requests
      <3>4. Asks(r)
        BY <3>1, <3>3
      <3>5. QED
        BY <3>4
    <2>6. QED
      BY <2>1, <2>2, <2>3, <2>4, <2>5
  <1>2. PICK r : Asks(r)
    BY <1>1
  <1>3. /\ req'[t].op = r.op /\ req'[t].id = r.id /\ req'[t].stage = "sent"
        /\ \A u \in Tabs : tab'[u] = tab[u] /\ (u # t => req'[u] = req[u])
        /\ products' = products /\ Free(t) /\ tab' = tab
    BY <1>2 DEF Send, Requests, TypeInv, ReqsFit
  <1>4. SameView(t) /\ \A u \in Tabs : NoNews(u)
    BY <1>3, NoNewsOfSaves DEF SameView
  <1>5. Page(t)'
    <2>1. Page(t)
      BY DEF LabelInv, TabKnows
    <2>2. r.op \in {"set", "flip"} => Shows(t, r.id)
      BY <1>2
    <2>3. QED
      BY <1>3, <2>1, <2>2 DEF Page, Shows, On, Free
  <1>6. \A i \in Ids : ~Answers(t, i)' /\ ~Answers(t, i)
    BY <1>3 DEF Answers, Toggles, At, Free
  <1>7. QED
    BY <1>3, <1>4, <1>5, <1>6, QuietLabels

\* Neither the form of an application nor an answer to a save is about a
\* status.
LEMMA FormLabels ==
    ASSUME TypeInv, LabelInv, NEW t \in Tabs,
           SelectMember(t) \/ ClearMember(t) \/ NoticeArrives(t) \/ AnswerSave(t)
    PROVE  LabelInv'
  <1>1. /\ tab \in [Tabs -> Screen] /\ tab[t] \in Screen
        /\ req \in [Tabs -> Requests] /\ products' = products
    BY DEF TypeInv, TabsFit, ReqsFit, SelectMember, ClearMember, NoticeArrives, AnswerSave
  <1>2. SameView(t) /\ \A u \in Tabs : u # t => tab'[u] = tab[u] /\ req'[u] = req[u]
    <2>1. CASE SelectMember(t)
      <3>1. PICK m \in Members :
              tab' = [tab EXCEPT ![t].member = m, ![t].notice = NoOne, ![t].asked = @ \cup {m}]
        BY <2>1 DEF SelectMember
      <3> DEFINE a == tab[t].asked \cup {m}
      <3>2. tab' = [tab EXCEPT ![t] = [tab[t] EXCEPT !.member = m, !.notice = NoOne, !.asked = a]]
        BY <1>1, <3>1 DEF Screen
      <3> HIDE DEF a
      <3>3. SameView(t) /\ \A u \in Tabs : u # t => tab'[u] = tab[u]
        BY <1>1, <3>2 DEF SameView, Screen
      <3>4. QED
        BY <2>1, <3>3 DEF SelectMember
    <2>2. CASE ClearMember(t)
      BY <1>1, <2>2 DEF ClearMember, SameView, Screen
    <2>3. CASE NoticeArrives(t)
      <3>1. PICK m \in tab[t].asked :
              \/ tab' = [tab EXCEPT ![t].asked = @ \ {m}]
              \/ tab' = [tab EXCEPT ![t].asked = @ \ {m}, ![t].notice = m]
        BY <2>3 DEF NoticeArrives
      <3>2. CASE tab' = [tab EXCEPT ![t].asked = @ \ {m}]
        BY <1>1, <2>3, <3>2 DEF NoticeArrives, SameView, Screen
      <3>3. CASE tab' = [tab EXCEPT ![t].asked = @ \ {m}, ![t].notice = m]
        BY <1>1, <2>3, <3>3 DEF NoticeArrives, SameView, Screen
      <3>4. QED
        BY <3>1, <3>2, <3>3
    <2>4. CASE AnswerSave(t)
      <3> DEFINE m == IF req[t].heard THEN NoOne ELSE tab[t].member
      <3>1. tab' = [tab EXCEPT ![t].member = m] /\ req' = [req EXCEPT ![t] = NoReq]
        BY <1>1, <2>4 DEF AnswerSave
      <3> HIDE DEF m
      <3>2. QED
        BY <1>1, <3>1 DEF SameView, Screen
    <2>5. QED
      BY <2>1, <2>2, <2>3, <2>4
  <1>3. \/ req'[t] = req[t]
        \/ ~req'[t].heard /\ req[t].op \in {"update", "create", "apply"}
    <2>1. CASE SelectMember(t) \/ ClearMember(t) \/ NoticeArrives(t)
      BY <2>1 DEF SelectMember, ClearMember, NoticeArrives
    <2>2. CASE AnswerSave(t)
      <3>1. req' = [req EXCEPT ![t] = NoReq] /\ req[t].op \in {"update", "create", "apply"}
        BY <2>2 DEF AnswerSave
      <3>2. QED
        BY <1>1, <3>1 DEF NoReq
    <2>3. QED
      BY <2>1, <2>2
  <1>4. Page(t)'
    BY <1>2, <1>3, PageKept DEF LabelInv, TabKnows
  <1>5. \/ req'[t] = req[t]
        \/ \A i \in Ids : ~Answers(t, i)' /\ ~Answers(t, i)
    BY <1>3 DEF Answers, Toggles, At
  <1>6. \A u \in Tabs : NoNews(u)
    BY <1>1, NoNewsOfSaves
  <1>7. QED
    BY <1>2, <1>4, <1>5, <1>6, QuietLabels

\* The server's other steps come before a change of status or are about
\* something else, and a row that failed to be answered is not told.
LEMMA ServerLabels ==
    ASSUME TypeInv, LabelInv, NEW t \in Tabs,
           ReadStatus(t) \/ Update(t) \/ Create(t) \/ Validate(t) \/ Insert(t) \/ Fail(t)
    PROVE  LabelInv'
  <1>1. /\ tab' = tab /\ req \in [Tabs -> Requests] /\ req[t] \in Requests
        /\ products \in Seq(Rows)
    BY DEF TypeInv, ReqsFit, ReadStatus, Update, Create, Validate, Insert, Fail
  <1>2. SameView(t) /\ \A u \in Tabs : u # t => tab'[u] = tab[u] /\ req'[u] = req[u]
    BY <1>1 DEF SameView, ReadStatus, Update, Create, Validate, Insert, Fail, Done
  <1>3. \A u \in Tabs : NoNews(u)
    BY NoNewsOfSaves DEF ReadStatus, Validate, Insert
  <1>4. CASE Fail(t)
    <2>1. ~req'[t].heard
      BY <1>1, <1>4 DEF Fail, NoReq
    <2>2. \A i \in Ids : Answers(t, i) => t \notin products'[i].told
      BY <1>1, <1>4, FailedRows
    <2>3. \A i \in Ids : ~Answers(t, i)'
      BY <2>1 DEF Answers
    <2>4. Page(t)'
      BY <1>2, <2>1, PageKept DEF LabelInv, TabKnows
    <2>5. QED
      BY <1>2, <1>3, <2>2, <2>3, <2>4, QuietLabels
  <1>5. CASE ReadStatus(t) \/ Validate(t)
    <2>1. /\ req'[t].op = req[t].op /\ req'[t].id = req[t].id /\ req'[t].heard = req[t].heard
          /\ req'[t].stage = "read" /\ req[t].stage = "sent"
      <3>1. CASE ReadStatus(t)
        BY <1>1, <3>1 DEF ReadStatus, Toggles, At, Requests
      <3>2. CASE Validate(t)
        <4> DEFINE n == Cardinality(loans) + 1
        <4>1. req' = [req EXCEPT ![t] = [req[t] EXCEPT !.stage = "read",
                        !.terms = products[req[t].id].terms, !.number = n]]
          BY <3>2 DEF Validate
        <4>2. req[t].stage = "sent"
          BY <3>2 DEF Validate, At
        <4> HIDE DEF n
        <4>3. QED
          BY <1>1, <4>1, <4>2 DEF Requests
      <3>3. QED
        BY <1>5, <3>1, <3>2
    <2>2. Page(t)'
      BY <1>2, <2>1, PageKept DEF LabelInv, TabKnows
    <2>3. \A i \in Ids : ~Answers(t, i)' /\ ~Answers(t, i)
      BY <2>1 DEF Answers, Toggles, At
    <2>4. QED
      BY <1>2, <1>3, <2>2, <2>3, QuietLabels
  <1>6. CASE Update(t) \/ Create(t) \/ Insert(t)
    <2>1. /\ req'[t].op = req[t].op /\ req'[t].id = req[t].id /\ req'[t].heard = req[t].heard
          /\ req'[t].stage = "ok" /\ req[t].op \in {"update", "create", "apply"}
      BY <1>1, <1>6 DEF Update, Create, Insert, Done, NoReq, At
    <2>2. Page(t)'
      BY <1>2, <2>1, PageKept DEF LabelInv, TabKnows
    <2>3. \A i \in Ids : ~Answers(t, i)' /\ ~Answers(t, i)
      BY <2>1 DEF Answers, Toggles, At
    <2>4. QED
      BY <1>2, <1>3, <2>2, <2>3, QuietLabels
  <1>7. QED
    BY <1>4, <1>5, <1>6

\* Every step keeps the labels.
LEMMA LabelStep ==
    ASSUME TypeInv, LabelInv, [Next]_vars
    PROVE  LabelInv'
  <1>1. CASE UNCHANGED vars
    <2>1. ASSUME NEW u \in Tabs
          PROVE  TabKnows(u)'
      <3>1. NoNews(u) /\ tab'[u] = tab[u] /\ req'[u] = req[u]
        BY <1>1, NoNewsOfSaves DEF vars
      <3>2. QED
        BY <3>1, OtherTab DEF LabelInv
    <2>2. QED
      BY <2>1 DEF LabelInv
  <1>2. CASE Next
    <2>1. PICK t \in Tabs : Screens(t) \/ Server(t)
      BY <1>2 DEF Next
    <2>2. CASE Screens(t)
      BY <2>2, MoveLabels, OpenLabels, RefreshLabels, AskLabels, FormLabels, AnswerLabels DEF Screens
    <2>3. CASE Server(t)
      BY <2>3, WriteLabels, ServerLabels DEF Server
    <2>4. QED
      BY <2>1, <2>2, <2>3
  <1>3. QED
    BY <1>1, <1>2

\* A page that was told of the last change of a status, with nothing on its
\* way, shows that status: who else asks for changes, saves, answers lost and
\* pages left never leave it a label that the server does not have
\* (handleToggle of the catalogue and of the page of a product).
THEOREM LabelsStayTrue == Spec => []LabelIsTrue
  <1>1. Init => TypeInv /\ LabelInv
    <2> SUFFICES ASSUME Init
                 PROVE  LabelInv
      BY FirstTypes
    <2>1. \A t \in Tabs : Page(t)
      BY DEF Init, Page, On, Blank, NoReq
    <2>2. \A i \in Ids : products[i].told = {}
      BY FirstRows
    <2>3. QED
      BY <2>1, <2>2 DEF LabelInv, TabKnows
  <1>2. TypeInv /\ LabelInv /\ [Next]_vars => (TypeInv /\ LabelInv)'
    BY TypeStep, LabelStep
  <1>3. TypeInv /\ LabelInv => LabelIsTrue
    BY DEF LabelInv, TabKnows, Knows, LabelIsTrue, Answers, Toggles, At, Free
  <1>4. QED
    BY <1>1, <1>2, <1>3, PTL DEF Spec

-----------------------------------------------------------------------------
\* Repayment: arithmetic

LEMMA RoundDivType ==
    ASSUME NEW a \in Int, NEW b \in Nat \ {0}
    PROVE  /\ RoundDiv(a, b) \in Int
           /\ a >= 0 => RoundDiv(a, b) >= 0
<1>1. ASSUME NEW c \in Nat PROVE c \div (2 * b) \in Nat
  OBVIOUS
<1>2. CASE a >= 0
  <2>1. 2 * a + b \in Nat
    BY <1>2
  <2> QED BY <1>1, <1>2, <2>1 DEF RoundDiv
<1>3. CASE ~(a >= 0)
  <2>1. 2 * (-a) + b \in Nat
    BY <1>3
  <2> QED BY <1>1, <1>3, <2>1 DEF RoundDiv
<1> QED BY <1>2, <1>3

LEMMA InterestType ==
    ASSUME NEW balance \in Int, NEW n \in Nat \ {0}
    PROVE  /\ Interest(balance, n) \in Int
           /\ balance >= 0 => Interest(balance, n) >= 0
<1>1. RateDen * n \in Nat \ {0}
  BY ConstantsOK
<1>2. balance * RateNum \in Int /\ (balance >= 0 => balance * RateNum >= 0)
  BY ConstantsOK
<1> DEFINE x == balance * RateNum
           y == RateDen * n
<1> HIDE DEF x, y
<1>3. x \in Int /\ y \in Nat \ {0}
  BY <1>1, <1>2 DEF x, y
<1>4. RoundDiv(x, y) \in Int /\ (x >= 0 => RoundDiv(x, y) >= 0)
  BY <1>3, RoundDivType
<1> QED BY <1>2, <1>4 DEF Interest, x, y

LEMMA InstallmentsFinite == IsFiniteSet(Installments) /\ Installments \subseteq Nat
BY FS_Interval, ConstantsOK DEF Installments

LEMMA SumsOfNat ==
    ASSUME NEW f \in [Installments -> Nat]
    PROVE  /\ SumFunction(f) \in Nat
           /\ \A S \in SUBSET Installments : SumFunctionOnSet(f, S) \in Nat
<1>1. ASSUME NEW S \in SUBSET Installments PROVE SumFunctionOnSet(f, S) \in Nat
  <2>1. IsFiniteSet(S)
    BY InstallmentsFinite, FS_Subset
  <2>2. \A i \in S : f[i] \in Nat
    OBVIOUS
  <2> QED BY <2>1, <2>2, SumOfNaturals
<1>2. SumFunction(f) = SumFunctionOnSet(f, Installments)
  BY DEF SumFunction
<1> QED BY <1>1, <1>2

LEMMA BeforeType ==
    ASSUME NEW f \in [Installments -> Nat], NEW i \in Installments
    PROVE  Before(f, i) \in Nat
<1>1. 1..(i - 1) \in SUBSET Installments
  BY ConstantsOK DEF Installments
<1> QED BY <1>1, SumsOfNat DEF Before

-----------------------------------------------------------------------------
\* Repayment: types

HeldHeaders == [principal : Nat, interest : Nat, status : {"active", "closed"}]
Books == [cash : Nat, portfolio : Nat, interest : Nat, suspense : Nat]

RepaymentTypeInv ==
    /\ method \in {"flat", "reducing_balance"}
    /\ loan \in HeldHeaders
    /\ entries \in [Installments -> Entry]
    /\ ledger \in Books
    /\ count \in Nat
    /\ obj \in [Workers -> HeldHeaders \cup {NoRow}]

LEMMA InitTypes == RepaymentInit => RepaymentTypeInv
<1> SUFFICES ASSUME RepaymentInit PROVE RepaymentTypeInv
  OBVIOUS
<1>1. Share \in Int
  BY ConstantsOK, RoundDivType DEF Share
<1>2. ASSUME NEW i \in Installments
      PROVE  Opening(i) \in Nat /\ ScheduledP(i) \in Int /\ ScheduledI(i) \in Nat
  <2>1. (i - 1) * Share \in Int
    BY <1>1, InstallmentsFinite
  <2> DEFINE x == (i - 1) * Share
  <2> HIDE DEF x
  <2>2. x \in Int /\ Opening(i) = Larger(0, Principal - x)
    BY <2>1 DEF x, Opening
  <2>3. Opening(i) \in Nat
    BY <2>2, ConstantsOK DEF Larger
  <2>4. ScheduledP(i) \in Int
    BY <1>1, <2>3 DEF ScheduledP
  <2>5. Interest(Opening(i), PerYear) \in Nat
    BY <2>3, InterestType, ConstantsOK
  <2>6. Principal * LastPeriod \in Nat
    BY ConstantsOK
  <2>7. Interest(Principal * LastPeriod, PerYear) \in Nat
    BY <2>6, InterestType, ConstantsOK
  <2>8. RoundDiv(Interest(Principal * LastPeriod, PerYear), LastPeriod) \in Nat
    BY <2>7, RoundDivType, ConstantsOK
  <2>9. ScheduledI(i) \in Nat
    BY <2>5, <2>8 DEF ScheduledI
  <2> QED BY <2>3, <2>4, <2>9
<1>3. entries \in [Installments -> Entry]
  BY <1>2 DEF RepaymentInit, Entry
<1>4. ScheduledInterest \in Nat
  <2>1. [i \in Installments |-> ScheduledI(i)] \in [Installments -> Nat]
    BY <1>2
  <2> QED BY <2>1, SumsOfNat DEF ScheduledInterest
<1> QED BY <1>3, <1>4, ConstantsOK DEF RepaymentInit, RepaymentTypeInv, HeldHeaders, Books

\* What installments still ask for.
LEMMA OpenSumsTypes ==
    ASSUME RepaymentTypeInv
    PROVE  OpenI \in [Installments -> Nat] /\ OpenP \in [Installments -> Nat]
           /\ Unpaid \subseteq Installments
BY DEF OpenI, OpenP, RemI, RemP, Larger, RepaymentTypeInv, Entry, Unpaid

LEMMA ActiveThere ==
    ASSUME NEW d \in Days, Ahead(d) # {}
    PROVE  Active(d) \in Installments
<1> DEFINE m == IF \E k \in Nat : d = 2 * k THEN d \div 2 ELSE (d + 1) \div 2
<1>1. d \in Nat /\ d >= 1
  BY ConstantsOK DEF Days
<1>2. m \in Nat /\ m >= 1 /\ d <= 2 * m /\ \A j \in Nat : d <= 2 * j => m <= j
  BY <1>1
<1> HIDE DEF m
<1>3. PICK i \in Ahead(d) : TRUE
  OBVIOUS
<1>4. m \in Ahead(d) /\ \A j \in Ahead(d) : m <= j
  BY <1>2, <1>3, ConstantsOK DEF Ahead, DueDate, Installments
<1>5. Active(d) \in Ahead(d)
  BY <1>4 DEF Active
<1> QED BY <1>5 DEF Ahead

LEMMA DueTypes ==
    ASSUME RepaymentTypeInv, NEW d \in Days, NEW settling \in BOOLEAN
    PROVE  CycleDue(d, settling) \in Nat /\ SettlementDue(d) \in Nat
<1>1. OpenI \in [Installments -> Nat]
  BY OpenSumsTypes
<1>2. LastPeriod \in Installments
  BY ConstantsOK DEF Installments
<1> DEFINE late == {i \in Installments : DueDate(i) < d}
           due == {i \in Installments : DueDate(i) <= d}
<1>3. late \in SUBSET Installments /\ due \in SUBSET Installments
  OBVIOUS
<1>4. SumFunctionOnSet(OpenI, late) \in Nat /\ SumFunctionOnSet(OpenI, due) \in Nat
  BY <1>1, <1>3, SumsOfNat
<1> HIDE DEF late, due
<1>5. ASSUME NEW s \in BOOLEAN PROVE CycleDue(d, s) \in Nat
  <2>1. CycleDue(d, s) = SumFunctionOnSet(OpenI, late)
                + (IF Ahead(d) # {} THEN OpenI[Active(d)] ELSE IF s THEN 0 ELSE OpenI[LastPeriod])
    BY DEF CycleDue, late
  <2>2. Ahead(d) # {} => OpenI[Active(d)] \in Nat
    BY <1>1, ActiveThere
  <2>3. OpenI[LastPeriod] \in Nat
    BY <1>1, <1>2
  <2> QED BY <1>4, <2>1, <2>2, <2>3
<1>6. SettlementDue(d) = IF method = "reducing_balance" THEN CycleDue(d, TRUE)
                         ELSE SumFunctionOnSet(OpenI, due)
  BY DEF SettlementDue, due
<1> QED BY <1>4, <1>5, <1>6

LEMMA InterestDueType ==
    ASSUME RepaymentTypeInv, NEW h \in HeldHeaders, NEW a \in Nat, NEW d \in Days
    PROVE  InterestDue(h, a, d) \in Nat
<1>1. OpenI \in [Installments -> Nat] /\ OpenP \in [Installments -> Nat]
  BY OpenSumsTypes
<1>2. h.interest \in Nat
  BY DEF HeldHeaders
<1>3. InstallmentDue(h, a) \in Nat
  <2> DEFINE total == [i \in Installments |-> OpenI[i] + OpenP[i]]
             reached(i) == Larger(0, a - Before(total, i))
             interest == [i \in Installments |-> Smaller(reached(i), OpenI[i])]
             left == Larger(0, a - SumFunction(total))
  <2>1. total \in [Installments -> Nat]
    BY <1>1
  <2> HIDE DEF total
  <2>2. \A i \in Installments : Before(total, i) \in Nat
    BY <2>1, BeforeType
  <2>3. \A i \in Installments : reached(i) \in Nat
    BY <2>2 DEF Larger
  <2> HIDE DEF reached
  <2>4. interest \in [Installments -> Nat]
    BY <1>1, <2>3 DEF Smaller
  <2> HIDE DEF interest
  <2>5. SumFunction(total) \in Nat /\ SumFunction(interest) \in Nat
    BY <2>1, <2>4, SumsOfNat
  <2>6. left \in Nat
    BY <2>5 DEF Larger
  <2> HIDE DEF left
  <2>7. InstallmentDue(h, a) = Smaller(h.interest, SumFunction(interest) + left)
    BY DEF InstallmentDue, total, reached, interest, left
  <2> QED BY <1>2, <2>5, <2>6, <2>7 DEF Smaller
<1>4. CycleDue(d, FALSE) \in Nat
  BY DueTypes
<1> QED BY <1>2, <1>3, <1>4 DEF InterestDue

-----------------------------------------------------------------------------
\* Repayment: what a payment does to the schedule

LEMMA SpreadType ==
    ASSUME NEW amount \in Nat, NEW limit \in [Installments -> Nat]
    PROVE  Spread(amount, limit) \in [Installments -> Nat]
<1>1. ASSUME NEW i \in Installments
      PROVE  Larger(0, Smaller(limit[i], amount - Before(limit, i))) \in Nat
  <2>1. Before(limit, i) \in Nat
    BY BeforeType
  <2>2. Smaller(limit[i], amount - Before(limit, i)) \in Int
    BY <2>1 DEF Smaller
  <2> QED BY <2>2 DEF Larger
<1> QED BY <1>1 DEF Spread

LEMMA PayTypes ==
    ASSUME RepaymentTypeInv, NEW alloc \in [Components -> Nat]
    PROVE  PayEntries(alloc) \in [Installments -> Entry]
<1> DEFINE int == Spread(alloc["interest"], OpenI)
           prn == Spread(alloc["principal"], OpenP)
           extra == alloc["principal"] - SumFunction(prn)
           more(i) == IF \A j \in Unpaid : j <= i THEN extra ELSE 0
           pay(i) == [entries[i] EXCEPT !.paidI = @ + int[i], !.paidP = @ + prn[i] + more(i)]
           mark(e) == [e EXCEPT !.paid = RemP(e) <= Cent /\ RemI(e) <= Cent]
<1>1. alloc["interest"] \in Nat /\ alloc["principal"] \in Nat
  BY DEF Components
<1>2. int \in [Installments -> Nat] /\ prn \in [Installments -> Nat]
  BY <1>1, OpenSumsTypes, SpreadType
<1> HIDE DEF int, prn
<1>3. extra \in Int
  BY <1>1, <1>2, SumsOfNat
<1> HIDE DEF extra
<1>4. \A i : more(i) \in Int
  BY <1>3
<1> HIDE DEF more
<1>5. \A i \in Installments : entries[i] \in Entry
  BY DEF RepaymentTypeInv
<1>6. ASSUME NEW i \in Installments
      PROVE  pay(i) \in Entry
  <2>1. entries[i] \in Entry /\ int[i] \in Int /\ prn[i] \in Int /\ more(i) \in Int
    BY <1>2, <1>4, <1>5
  <2>2. entries[i].paidI + int[i] \in Int /\ entries[i].paidP + prn[i] + more(i) \in Int
    BY <2>1 DEF Entry
  <2> QED BY <2>1, <2>2 DEF Entry
<1> HIDE DEF pay
<1>7. \A i \in Installments : mark(pay(i)) \in Entry
  BY <1>6 DEF Entry
<1> HIDE DEF mark
<1>8. PayEntries(alloc) = [i \in Installments |-> IF i \in Unpaid THEN mark(pay(i)) ELSE entries[i]]
  BY DEF PayEntries, mark, pay, more, extra, int, prn
<1> QED BY <1>5, <1>7, <1>8

LEMMA RecalculateTypes ==
    ASSUME NEW es \in [Installments -> Entry], NEW balance \in Nat,
           Cardinality({i \in Installments : ~es[i].paid}) > 1
    PROVE  Recalculate(es, balance) \in [Installments -> Entry]
<1> DEFINE U == {i \in Installments : ~es[i].paid}
           n == Cardinality(U)
           share == RoundDiv(balance, n)
           rank(i) == Cardinality({j \in U : j < i})
           open(i) == balance - rank(i) * share
<1>1. IsFiniteSet(U)
  BY InstallmentsFinite, FS_Subset
<1>2. n \in Nat \ {0}
  BY <1>1, FS_CardinalityType
<1>3. ASSUME NEW i \in Installments PROVE rank(i) \in Nat
  <2>1. {j \in U : j < i} \in SUBSET U
    OBVIOUS
  <2> QED BY <1>1, <2>1, FS_Subset, FS_CardinalityType
<1> HIDE DEF n, rank
<1>4. share \in Int
  BY <1>2, RoundDivType
<1> HIDE DEF share
<1>5. \A i \in Installments : open(i) \in Int
  BY <1>3, <1>4
<1> HIDE DEF open
<1>6. 12 \in Nat \ {0}
  OBVIOUS
<1>7. \A i \in Installments : Interest(open(i), 12) \in Int
  BY <1>5, <1>6, InterestType
<1>8. Recalculate(es, balance) =
        [i \in Installments |->
            IF i \in U
            THEN [es[i] EXCEPT
                    !.expI = Interest(open(i), 12),
                    !.expP = IF rank(i) = n - 1 THEN open(i) ELSE share]
            ELSE es[i]]
  BY DEF Recalculate, U, n, share, rank, open
<1> HIDE DEF U
<1>9. \A i \in Installments :
        [es[i] EXCEPT !.expI = Interest(open(i), 12),
                      !.expP = IF rank(i) = n - 1 THEN open(i) ELSE share] \in Entry
  BY <1>4, <1>5, <1>7 DEF Entry
<1> QED BY <1>8, <1>9

LEMMA OpenInterestType ==
    ASSUME NEW es \in [Installments -> Entry]
    PROVE  OpenInterest(es) \in Nat
<1>1. [i \in Installments |-> IF es[i].paid THEN 0 ELSE RemI(es[i])] \in [Installments -> Nat]
  BY DEF Entry, RemI, Larger
<1> QED BY <1>1, SumsOfNat DEF OpenInterest

-----------------------------------------------------------------------------
\* Repayment: what the waterfall makes of a payment

(* A component that asks for nothing and is not the principal gets nothing. *)
LEMMA TakeNothing ==
    ASSUME NEW s \in Partial, NEW c, NEW due \in [Components -> Nat],
           NEW k \in Components, due[k] = 0, s.alloc[k] = 0
    PROVE  Take(s, c, due).alloc[k] = 0
BY DEF Take, Partial, Smaller

Dued(due, h) == [Nothing EXCEPT !["interest"] = due, !["principal"] = h.principal]

LEMMA SplitTypes ==
    ASSUME NEW h \in HeldHeaders, NEW a \in Nat, NEW due \in Nat
    PROVE  /\ Split(h, a, due).alloc \in [Components -> Nat]
           /\ Split(h, a, due).rem \in Nat
           /\ Split(h, a, due).alloc["penalty"] = 0 /\ Split(h, a, due).alloc["fees"] = 0
<1> DEFINE d == Dued(due, h)
           s0 == [rem |-> a, alloc |-> Nothing]
           s1 == Take(s0, Order[1], d)
           s2 == Take(s1, Order[2], d)
           s3 == Take(s2, Order[3], d)
           s4 == Take(s3, Order[4], d)
<1>1. d \in [Components -> Nat] /\ d["penalty"] = 0 /\ d["fees"] = 0
  BY DEF Dued, Nothing, Components, HeldHeaders
<1>2. Order \in Orders
  BY ConstantsOK
<1>3. Split(h, a, due) = Sweep(s4, d)
  BY DEF Split, Allocate, Dued
<1>4. Split(h, a, due) = Allocate(a, d, Order)
  BY DEF Split, Dued
<1> HIDE DEF d
<1>5. Split(h, a, due) \in Partial
  BY <1>1, <1>2, <1>4, WaterfallConserves
<1>6. s0 \in Partial /\ s0.alloc["penalty"] = 0 /\ s0.alloc["fees"] = 0
  BY DEF Partial, Nothing, Components
<1>7. {"penalty", "fees"} \subseteq Components
  BY DEF Components
<1> HIDE DEF s0
<1>8. s1 \in Partial /\ s1.alloc["penalty"] = 0 /\ s1.alloc["fees"] = 0
  BY <1>1, <1>6, <1>7, TakeConserves, TakeNothing
<1> HIDE DEF s1
<1>9. s2 \in Partial /\ s2.alloc["penalty"] = 0 /\ s2.alloc["fees"] = 0
  BY <1>1, <1>8, <1>7, TakeConserves, TakeNothing
<1> HIDE DEF s2
<1>10. s3 \in Partial /\ s3.alloc["penalty"] = 0 /\ s3.alloc["fees"] = 0
  BY <1>1, <1>9, <1>7, TakeConserves, TakeNothing
<1> HIDE DEF s3
<1>11. s4 \in Partial /\ s4.alloc["penalty"] = 0 /\ s4.alloc["fees"] = 0
  BY <1>1, <1>10, <1>7, TakeConserves, TakeNothing
<1> HIDE DEF s4
<1>12. Sweep(s4, d).alloc["penalty"] = 0 /\ Sweep(s4, d).alloc["fees"] = 0
  BY <1>11 DEF Sweep, Partial, Components
<1> QED BY <1>3, <1>5, <1>12 DEF Partial

-----------------------------------------------------------------------------
\* Repayment: the steps

(* What a payment of an amount does, whatever is due.                      *)
PostsSplit(h, a, due) ==
    LET s == Split(h, a, due) IN
    /\ Post(a, s)
    /\ s.alloc["interest"] \in Nat /\ s.alloc["principal"] \in Nat /\ s.rem \in Nat
    /\ s.alloc["penalty"] = 0 /\ s.alloc["fees"] = 0

Recorded(w, a, h, due) ==
    LET s == Split(h, a, due) IN
    /\ PostsSplit(h, a, due)
    /\ h.principal - s.alloc["principal"] > Cent
    /\ loan'.principal = h.principal - s.alloc["principal"]
    /\ loan'.status = h.status
    /\ count' = count + 1 /\ obj' = [obj EXCEPT ![w] = NoRow] /\ UNCHANGED method

LEMMA RecordSteps ==
    ASSUME RepaymentTypeInv, NEW w \in Workers, NEW a \in Payments, NEW d \in Days, Record(w, a, d)
    PROVE  /\ obj[w] \in HeldHeaders
           /\ loan' \in HeldHeaders /\ entries' \in [Installments -> Entry]
           /\ \E due \in Nat : Recorded(w, a, obj[w], due)
<1> DEFINE h == obj[w]
           due == InterestDue(h, a, d)
           s == Split(h, a, due)
           principal == Larger(0, h.principal - s.alloc["principal"])
           es == PayEntries(s.alloc)
           renew == /\ method = "reducing_balance"
                    /\ s.alloc["principal"] > 0
                    /\ Cardinality({i \in Installments : ~es[i].paid}) > 1
<1>1. a \in Nat
  BY ConstantsOK
<1>2. h \in HeldHeaders
  BY DEF RepaymentTypeInv, Record
<1>3. due \in Nat
  BY <1>1, <1>2, InterestDueType
<1> HIDE DEF due
<1>4. /\ s.alloc \in [Components -> Nat] /\ s.rem \in Nat
      /\ s.alloc["penalty"] = 0 /\ s.alloc["fees"] = 0
  BY <1>1, <1>2, <1>3, SplitTypes
<1>5. s.alloc["interest"] \in Nat /\ s.alloc["principal"] \in Nat
  BY <1>4 DEF Components
<1>6. es \in [Installments -> Entry]
  BY <1>4, PayTypes
<1>7. /\ principal > Cent
      /\ entries' = IF renew THEN Recalculate(es, principal) ELSE es
      /\ loan' = [principal |-> principal, status |-> h.status,
                  interest |-> IF renew THEN OpenInterest(entries')
                               ELSE Larger(0, h.interest - s.alloc["interest"])]
      /\ Post(a, s) /\ count' = count + 1 /\ Answer(w)
  BY DEF Record, due
<1> HIDE DEF s, es
<1>8. h.principal \in Nat /\ h.interest \in Nat /\ h.status \in {"active", "closed"}
  BY <1>2 DEF HeldHeaders
<1>9. principal = h.principal - s.alloc["principal"] /\ principal \in Nat
  BY <1>5, <1>7, <1>8 DEF Larger, Cent
<1> HIDE DEF h, principal
<1>10. entries' \in [Installments -> Entry]
  BY <1>6, <1>7, <1>9, RecalculateTypes
<1> HIDE DEF renew
<1>11. OpenInterest(entries') \in Nat
  BY <1>10, OpenInterestType
<1>12. loan' \in HeldHeaders /\ loan'.principal = principal /\ loan'.status = h.status
  BY <1>5, <1>7, <1>8, <1>9, <1>11 DEF HeldHeaders, Larger
<1>13. Recorded(w, a, h, due)
  BY <1>4, <1>5, <1>7, <1>9, <1>12 DEF Recorded, PostsSplit, Answer, s
<1> QED BY <1>2, <1>3, <1>10, <1>12, <1>13 DEF h

Settled(w, a, h, due) ==
    /\ PostsSplit(h, a, due)
    /\ loan' = [principal |-> 0, interest |-> 0, status |-> "closed"]
    /\ count' = count + 1 /\ obj' = [obj EXCEPT ![w] = NoRow] /\ UNCHANGED method

LEMMA SettleSteps ==
    ASSUME RepaymentTypeInv, NEW w \in Workers, NEW a \in Payments, NEW d \in Days, Settle(w, a, d)
    PROVE  /\ obj[w] \in HeldHeaders /\ entries' \in [Installments -> Entry]
           /\ \E due \in Nat : Settled(w, a, obj[w], due)
<1> DEFINE h == obj[w]
           due == SettlementDue(d)
           s == Split(h, a, due)
           es == PayEntries(s.alloc)
           close(e) == [e EXCEPT !.expP = e.paidP, !.expI = e.paidI, !.paid = TRUE]
<1>1. a \in Nat
  BY ConstantsOK
<1>2. h \in HeldHeaders
  BY DEF RepaymentTypeInv, Settle
<1>3. due \in Nat
  <2>1. TRUE \in BOOLEAN
    OBVIOUS
  <2> QED BY <2>1, DueTypes
<1> HIDE DEF due
<1>4. /\ s.alloc \in [Components -> Nat] /\ s.rem \in Nat
      /\ s.alloc["penalty"] = 0 /\ s.alloc["fees"] = 0
  BY <1>1, <1>2, <1>3, SplitTypes
<1>5. s.alloc["interest"] \in Nat /\ s.alloc["principal"] \in Nat
  BY <1>4 DEF Components
<1>6. es \in [Installments -> Entry]
  BY <1>4, PayTypes
<1>7. /\ entries' = [i \in Installments |-> IF es[i].paid THEN es[i] ELSE close(es[i])]
      /\ loan' = [principal |-> 0, interest |-> 0, status |-> "closed"]
      /\ Post(a, s) /\ count' = count + 1 /\ Answer(w)
  BY DEF Settle, due
<1> HIDE DEF s, es
<1>8. \A e \in Entry : close(e) \in Entry
  BY DEF Entry
<1> HIDE DEF close
<1>9. entries' \in [Installments -> Entry]
  BY <1>6, <1>7, <1>8
<1>10. Settled(w, a, h, due)
  BY <1>4, <1>5, <1>7 DEF Settled, PostsSplit, Answer, s
<1> QED BY <1>2, <1>3, <1>9, <1>10

(* The other steps.                                                        *)
Quiet == UNCHANGED <<method, loan, entries, ledger, count>>

LEMMA NextCases ==
    ASSUME RepaymentTypeInv, [RepaymentNext]_repaymentVars
    PROVE  \/ UNCHANGED repaymentVars
           \/ \E w \in Workers :
                \/ Begin(w)
                \/ Quiet /\ obj' = [obj EXCEPT ![w] = NoRow]
                \/ \E a \in Payments, due \in Nat :
                     /\ obj[w] \in HeldHeaders /\ obj[w] # NoRow /\ entries' \in [Installments -> Entry]
                     /\ \/ Recorded(w, a, obj[w], due) /\ loan' \in HeldHeaders
                        \/ Settled(w, a, obj[w], due)
<1>1. ASSUME NEW w \in Workers, NEW a \in Payments, NEW d \in Days,
             Record(w, a, d)
      PROVE  obj[w] # NoRow
  BY <1>1 DEF Record
<1>2. ASSUME NEW w \in Workers, NEW a \in Payments, NEW d \in Days,
             Settle(w, a, d)
      PROVE  obj[w] # NoRow
  BY <1>2 DEF Settle
<1>3. ASSUME NEW w \in Workers, NEW a \in Payments, NEW d \in Days,
             RecordFails(w, a, d)
      PROVE  Quiet /\ obj' = [obj EXCEPT ![w] = NoRow]
  BY <1>3 DEF RecordFails, Answer, Quiet
<1>4. ASSUME NEW w \in Workers, Abort(w)
      PROVE  Quiet /\ obj' = [obj EXCEPT ![w] = NoRow]
  BY <1>4 DEF Abort, Answer, Quiet
<1> QED BY <1>1, <1>2, <1>3, <1>4, RecordSteps, SettleSteps DEF RepaymentNext

LEMMA PostBooks ==
    ASSUME RepaymentTypeInv, NEW a \in Nat, NEW h, NEW due, PostsSplit(h, a, due)
    PROVE  LET s == Split(h, a, due) IN
           /\ ledger' \in Books
           /\ ledger'.cash = ledger.cash + a
           /\ ledger'.portfolio = ledger.portfolio + s.alloc["principal"]
           /\ ledger'.interest = ledger.interest + s.alloc["interest"]
           /\ ledger'.suspense = ledger.suspense + s.rem
<1> DEFINE s == Split(h, a, due)
<1> HIDE DEF s
<1>1. /\ s.alloc["interest"] \in Nat /\ s.alloc["principal"] \in Nat /\ s.rem \in Nat
      /\ ledger' = [cash |-> ledger.cash + a,
                    portfolio |-> ledger.portfolio + s.alloc["principal"],
                    interest |-> ledger.interest + s.alloc["interest"],
                    suspense |-> ledger.suspense + s.rem]
  BY DEF PostsSplit, Post, s
<1>2. ledger \in Books
  BY DEF RepaymentTypeInv
<1>3. /\ ledger' \in Books
      /\ ledger'.cash = ledger.cash + a
      /\ ledger'.portfolio = ledger.portfolio + s.alloc["principal"]
      /\ ledger'.interest = ledger.interest + s.alloc["interest"]
      /\ ledger'.suspense = ledger.suspense + s.rem
  BY <1>1, <1>2 DEF Books
<1> QED BY <1>3 DEF s

LEMMA NextTypes ==
    ASSUME RepaymentTypeInv, [RepaymentNext]_repaymentVars
    PROVE  RepaymentTypeInv'
<1>1. CASE UNCHANGED repaymentVars
  BY <1>1 DEF repaymentVars, RepaymentTypeInv
<1>2. ASSUME NEW w \in Workers, Begin(w) PROVE RepaymentTypeInv'
  BY <1>2 DEF Begin, RepaymentTypeInv
<1>3. ASSUME NEW w \in Workers, Quiet, obj' = [obj EXCEPT ![w] = NoRow] PROVE RepaymentTypeInv'
  BY <1>3 DEF Quiet, RepaymentTypeInv
<1>4. ASSUME NEW w \in Workers, NEW a \in Payments, NEW due \in Nat,
             obj[w] \in HeldHeaders, entries' \in [Installments -> Entry],
             \/ Recorded(w, a, obj[w], due) /\ loan' \in HeldHeaders
             \/ Settled(w, a, obj[w], due)
      PROVE  RepaymentTypeInv'
  <2>1. a \in Nat
    BY ConstantsOK
  <2>2. PostsSplit(obj[w], a, due)
    BY <1>4 DEF Recorded, Settled
  <2>3. ledger' \in Books
    BY <2>1, <2>2, PostBooks
  <2>4. [principal |-> 0, interest |-> 0, status |-> "closed"] \in HeldHeaders
    BY DEF HeldHeaders
  <2>5. loan' \in HeldHeaders
    BY <1>4, <2>4 DEF Settled
  <2>6. count' = count + 1 /\ obj' = [obj EXCEPT ![w] = NoRow] /\ UNCHANGED method
    BY <1>4 DEF Recorded, Settled
  <2> QED BY <1>4, <2>3, <2>5, <2>6 DEF RepaymentTypeInv
<1> QED BY <1>1, <1>2, <1>3, <1>4, NextCases

(* The state of Repayment has its types, for any schedule, rate, order of   *)
(* allocation and number of requests at once: neither what a header owes    *)
(* nor what was posted goes below zero.                                    *)
THEOREM RepaymentTypes == RepaymentSpec => []RepaymentTypeInv
BY InitTypes, NextTypes, PTL DEF RepaymentSpec

-----------------------------------------------------------------------------
\* Repayment: requests that overlap, and requests in turn

(* What a running loan owes at least: neither the row nor a copy of it in a *)
(* request has forgiven any of it.                                         *)
OwesPosted(h) == h.status = "active" => h.principal >= Principal - ledger.portfolio

ForgivenInv ==
    /\ RepaymentTypeInv
    /\ OwesPosted(loan)
    /\ \A w \in Workers : obj[w] # NoRow => OwesPosted(obj[w])

LEMMA NextForgives ==
    ASSUME ForgivenInv, [RepaymentNext]_repaymentVars
    PROVE  ForgivenInv'
<1>1. RepaymentTypeInv /\ RepaymentTypeInv' /\ OwesPosted(loan)
      /\ \A w \in Workers : obj[w] # NoRow => OwesPosted(obj[w])
  BY NextTypes DEF ForgivenInv
<1>2. CASE UNCHANGED repaymentVars
  BY <1>1, <1>2 DEF repaymentVars, ForgivenInv, OwesPosted
<1>3. ASSUME NEW w \in Workers, Begin(w) PROVE ForgivenInv'
  <2>1. obj' = [obj EXCEPT ![w] = loan] /\ UNCHANGED <<loan, ledger>>
    BY <1>3 DEF Begin
  <2>2. \A v \in Workers : obj'[v] = obj[v] \/ obj'[v] = loan
    BY <1>1, <2>1 DEF RepaymentTypeInv
  <2> QED BY <1>1, <2>1, <2>2 DEF ForgivenInv, OwesPosted
<1>4. ASSUME NEW w \in Workers, obj' = [obj EXCEPT ![w] = NoRow]
      PROVE  \A v \in Workers : obj'[v] = obj[v] \/ obj'[v] = NoRow
  BY <1>1, <1>4 DEF RepaymentTypeInv
<1>5. ASSUME NEW w \in Workers, Quiet, obj' = [obj EXCEPT ![w] = NoRow] PROVE ForgivenInv'
  BY <1>1, <1>4, <1>5 DEF ForgivenInv, OwesPosted, Quiet
<1>6. ASSUME NEW w \in Workers, NEW a \in Payments, NEW due \in Nat,
             obj[w] \in HeldHeaders, obj[w] # NoRow,
             \/ Recorded(w, a, obj[w], due)
             \/ Settled(w, a, obj[w], due)
      PROVE  ForgivenInv'
  <2> DEFINE h == obj[w]
             c == Split(h, a, due).alloc["principal"]
  <2>1. PostsSplit(h, a, due) /\ obj' = [obj EXCEPT ![w] = NoRow]
    BY <1>6 DEF Recorded, Settled
  <2>2. c \in Nat /\ ledger'.portfolio = ledger.portfolio + c
    <3>1. a \in Nat
      BY ConstantsOK
    <3> QED BY <1>1, <2>1, <3>1, PostBooks DEF PostsSplit
  <2>3. ledger.portfolio \in Nat /\ Principal \in Nat
    BY <1>1, ConstantsOK DEF RepaymentTypeInv, Books
  <2>4. OwesPosted(loan)'
    <3>1. CASE Recorded(w, a, h, due)
      <4>1. loan'.status = h.status /\ loan'.principal = h.principal - c
        BY <3>1 DEF Recorded
      <4>2. h.status = "active" => h.principal >= Principal - ledger.portfolio
        BY <1>1, <1>6 DEF OwesPosted
      <4>3. h.principal \in Nat
        BY <1>6 DEF HeldHeaders
      <4> HIDE DEF h, c
      <4> QED BY <2>2, <2>3, <4>1, <4>2, <4>3 DEF OwesPosted
    <3>2. CASE Settled(w, a, h, due)
      <4>1. loan'.status = "closed"
        BY <3>2 DEF Settled
      <4> QED BY <4>1 DEF OwesPosted
    <3> QED BY <1>6, <3>1, <3>2
  <2>5. ASSUME NEW v \in Workers, obj'[v] # NoRow PROVE OwesPosted(obj[v])'
    <3>1. obj'[v] = obj[v]
      BY <1>4, <2>1, <2>5
    <3>2. obj[v].status = "active" => obj[v].principal >= Principal - ledger.portfolio
      BY <1>1, <2>5, <3>1 DEF OwesPosted
    <3>3. obj[v].principal \in Nat
      BY <1>1, <2>5, <3>1 DEF RepaymentTypeInv, HeldHeaders
    <3> HIDE DEF c
    <3> QED BY <2>2, <2>3, <3>1, <3>2, <3>3 DEF OwesPosted
  <2> QED BY <1>1, <2>4, <2>5 DEF ForgivenInv
<1> QED BY <1>1, <1>2, <1>3, <1>5, <1>6, NextCases

(* NothingForgiven, for any number of requests at once: payments may be     *)
(* lost from the header, but no running loan owes less than was disbursed   *)
(* less what RepaymentSerializer.create posted to the portfolio.           *)
THEOREM DebtIsNotForgiven == RepaymentSpec => []NothingForgiven
<1>1. RepaymentInit => ForgivenInv
  <2> SUFFICES ASSUME RepaymentInit PROVE ForgivenInv
    OBVIOUS
  <2>1. RepaymentTypeInv
    BY InitTypes
  <2>2. /\ loan.principal = Principal /\ ledger.portfolio = 0
        /\ \A w \in Workers : obj[w] = NoRow
    BY DEF RepaymentInit
  <2> QED BY <2>1, <2>2, ConstantsOK DEF ForgivenInv, OwesPosted
<1>2. ForgivenInv /\ [RepaymentNext]_repaymentVars => ForgivenInv'
  BY NextForgives
<1>3. ForgivenInv => NothingForgiven
  BY DEF ForgivenInv, OwesPosted, NothingForgiven
<1> QED BY <1>1, <1>2, <1>3, PTL DEF RepaymentSpec

(* In turn, the one request holds the loan as it is.                       *)
HeldInv ==
    /\ count <= MaxRepayments
    /\ \A w \in Workers : obj[w] # NoRow => obj[w] = loan /\ count < MaxRepayments

BooksInv == OneHolds /\ HeldInv /\ PrincipalMatchesLedger

TurnInv == RepaymentTypeInv /\ (~overlapped => BooksInv)

LEMMA InitBooks == TurnInit => TurnInv
<1>1. RepaymentInit => BooksInv
  BY ConstantsOK DEF RepaymentInit, OneHolds, HeldInv, PrincipalMatchesLedger, BooksInv
<1> QED BY <1>1, InitTypes DEF TurnInit, TurnInv

LEMMA NextBooks ==
    ASSUME RepaymentTypeInv, BooksInv, OneHolds', [RepaymentNext]_repaymentVars
    PROVE  BooksInv'
<1>1. RepaymentTypeInv /\ OneHolds /\ HeldInv /\ PrincipalMatchesLedger
  BY DEF BooksInv
<1>2. RepaymentTypeInv'
  BY <1>1, NextTypes
<1>3. CASE UNCHANGED repaymentVars
  BY <1>1, <1>2, <1>3 DEF repaymentVars, BooksInv, HeldInv, PrincipalMatchesLedger
<1>4. ASSUME NEW w \in Workers, Begin(w)
      PROVE  BooksInv'
  <2>1. obj' = [obj EXCEPT ![w] = loan] /\ UNCHANGED <<loan, ledger, count>> /\ count < MaxRepayments
    BY <1>4 DEF Begin
  <2>2. \A v \in Workers : obj'[v] # NoRow => obj'[v] = loan
    BY <1>1, <2>1 DEF HeldInv, RepaymentTypeInv
  <2> QED BY <1>1, <1>2, <2>1, <2>2 DEF BooksInv, HeldInv, PrincipalMatchesLedger
<1>5. ASSUME NEW w \in Workers, obj[w] # NoRow, obj' = [obj EXCEPT ![w] = NoRow]
      PROVE  \A v \in Workers : obj'[v] = NoRow
  BY <1>1, <1>5 DEF OneHolds, RepaymentTypeInv
<1>6. ASSUME NEW w \in Workers, Quiet, obj' = [obj EXCEPT ![w] = NoRow]
      PROVE  BooksInv'
  <2>1. \A v \in Workers : obj'[v] = obj[v] \/ obj'[v] = NoRow
    BY <1>1, <1>6 DEF RepaymentTypeInv
  <2> QED BY <1>1, <1>6, <2>1 DEF BooksInv, HeldInv, PrincipalMatchesLedger, Quiet
<1>7. ASSUME NEW w \in Workers, NEW a \in Payments, NEW due \in Nat,
             obj[w] \in HeldHeaders, obj[w] # NoRow,
             \/ Recorded(w, a, obj[w], due)
             \/ Settled(w, a, obj[w], due)
      PROVE  BooksInv'
  <2>1. a \in Nat /\ MaxRepayments \in Nat
    BY ConstantsOK
  <2>2. obj[w] = loan /\ count < MaxRepayments /\ count \in Nat
    BY <1>1, <1>7 DEF HeldInv, RepaymentTypeInv
  <2>3. count' = count + 1 /\ obj' = [obj EXCEPT ![w] = NoRow]
    BY <1>7 DEF Recorded, Settled
  <2>4. HeldInv'
    <3>1. count' <= MaxRepayments
      BY <2>1, <2>2, <2>3
    <3>2. \A v \in Workers : obj'[v] = NoRow
      BY <1>5, <1>7, <2>3
    <3> QED BY <3>1, <3>2 DEF HeldInv
  <2>5. PrincipalMatchesLedger'
    <3>1. CASE Recorded(w, a, loan, due)
      <4> DEFINE p == Split(loan, a, due).alloc["principal"]
      <4>1. /\ loan'.principal = loan.principal - p /\ loan'.status = loan.status
            /\ PostsSplit(loan, a, due)
        BY <3>1 DEF Recorded
      <4>2. p \in Nat
        BY <4>1 DEF PostsSplit
      <4>3. ledger'.portfolio = ledger.portfolio + p
        BY <1>1, <2>1, <4>1, PostBooks
      <4> HIDE DEF p
      <4>4. loan.principal \in Nat /\ ledger.portfolio \in Nat /\ Principal \in Nat
        BY <1>1, ConstantsOK DEF RepaymentTypeInv, HeldHeaders, Books
      <4> QED BY <1>1, <4>1, <4>2, <4>3, <4>4 DEF PrincipalMatchesLedger
    <3>2. CASE Settled(w, a, loan, due)
      <4>1. loan'.status = "closed"
        BY <3>2 DEF Settled
      <4> QED BY <4>1 DEF PrincipalMatchesLedger
    <3> QED BY <1>7, <2>2, <3>1, <3>2
  <2> QED BY <1>2, <2>4, <2>5 DEF BooksInv
<1> QED BY <1>1, <1>3, <1>4, <1>6, <1>7, NextCases

LEMMA BooksHold == TurnSpec => []TurnInv
<1>1. TurnInv /\ [RepaymentNext /\ Watch]_turnVars => TurnInv'
  <2> SUFFICES ASSUME TurnInv, [RepaymentNext /\ Watch]_turnVars PROVE TurnInv'
    OBVIOUS
  <2>1. RepaymentTypeInv /\ [RepaymentNext]_repaymentVars
    BY DEF TurnInv, turnVars
  <2>2. RepaymentTypeInv'
    BY <2>1, NextTypes
  <2>3. ASSUME ~overlapped' PROVE BooksInv'
    <3>1. CASE UNCHANGED turnVars
      BY <2>3, <3>1 DEF turnVars, repaymentVars, TurnInv, BooksInv, OneHolds, HeldInv,
                        PrincipalMatchesLedger
    <3>2. CASE RepaymentNext /\ Watch
      <4>1. ~overlapped /\ OneHolds'
        BY <2>3, <3>2 DEF Watch
      <4>2. BooksInv
        BY <4>1 DEF TurnInv
      <4> QED BY <2>1, <4>1, <4>2, NextBooks
    <3> QED BY <3>1, <3>2
  <2> QED BY <2>2, <2>3 DEF TurnInv
<1> QED BY InitBooks, <1>1, PTL DEF TurnSpec

(* PrincipalInTurn, for any number of workers, payments and installments:   *)
(* until two payments overlap, RepaymentSerializer.create takes off the     *)
(* header's principal what it posts.                                        *)
THEOREM BooksAgreeInTurn == TurnSpec => []PrincipalInTurn
<1>1. TurnInv => PrincipalInTurn
  BY DEF TurnInv, BooksInv, PrincipalInTurn
<1> QED BY <1>1, BooksHold, PTL

-----------------------------------------------------------------------------
\* Repayment: the header that LoanHeader promises

LEMMA SameWaterfall ==
    ASSUME NEW a, NEW due, NEW order
    PROVE  Abstract!Allocate(a, due, order) = Allocate(a, due, order)
<1>1. \A x, y : Abstract!Smaller(x, y) = Smaller(x, y) /\ Abstract!Larger(x, y) = Larger(x, y)
  BY DEF Smaller, Larger, Abstract!Smaller, Abstract!Larger
<1>2. Abstract!Components = Components /\ Abstract!Nothing = Nothing
  BY DEF Components, Nothing, Abstract!Components, Abstract!Nothing
<1>3. \A s, c : Abstract!Take(s, c, due) = Take(s, c, due)
  BY <1>1, <1>2 DEF Take, Abstract!Take
<1>4. \A s : Abstract!Sweep(s, due) = Sweep(s, due)
  BY <1>1 DEF Sweep, Abstract!Sweep
<1> QED BY <1>2, <1>3, <1>4 DEF Allocate, Abstract!Allocate

LEMMA HeaderInitially ==
    ASSUME RepaymentInit
    PROVE  Abstract!HeaderInit
<1>1. [Nothing EXCEPT !["interest"] = 0, !["principal"] = 0] = Nothing
  BY DEF Nothing, Components
<1>2. Abstract!Nothing = Nothing
  BY DEF Nothing, Components, Abstract!Components, Abstract!Nothing
<1> QED BY <1>1, <1>2 DEF RepaymentInit, Abstract!HeaderInit

(* Every step is one of LoanHeader or leaves its variables alone.          *)
LEMMA HeaderStep ==
    ASSUME Nat \subseteq Interests, RepaymentTypeInv, BooksInv, [RepaymentNext]_repaymentVars
    PROVE  [Abstract!HeaderNext]_(Abstract!headerVars)
<1>1. RepaymentTypeInv /\ HeldInv
  BY DEF BooksInv
<1>2. CASE UNCHANGED repaymentVars \/ Quiet \/ \E w \in Workers : Begin(w)
  BY <1>2 DEF repaymentVars, Quiet, Begin, Abstract!headerVars
<1>3. ASSUME NEW w \in Workers, NEW a \in Payments, NEW due \in Nat,
             obj[w] \in HeldHeaders, obj[w] # NoRow,
             \/ Recorded(w, a, obj[w], due)
             \/ Settled(w, a, obj[w], due)
      PROVE  Abstract!HeaderNext
  <2>1. a \in Nat
    BY ConstantsOK
  <2>2. obj[w] = loan /\ count < MaxRepayments
    BY <1>1, <1>3 DEF HeldInv
  <2> DEFINE s == Split(loan, a, due)
             owed == [Nothing EXCEPT !["interest"] = due]
             credited == [Nothing EXCEPT !["interest"] = ledger.interest,
                                         !["principal"] = ledger.portfolio]
  <2>3. PostsSplit(loan, a, due) /\ count' = count + 1
    BY <1>3, <2>2 DEF Recorded, Settled
  <2>4. owed \in {[Nothing EXCEPT !["interest"] = k] : k \in Interests}
    OBVIOUS
  <2>5. Abstract!Share(a, owed) = s
    <3>1. [owed EXCEPT !["principal"] = loan.principal]
            = [Nothing EXCEPT !["interest"] = due, !["principal"] = loan.principal]
      OBVIOUS
    <3> HIDE DEF owed
    <3>2. Abstract!Share(a, owed) = Abstract!Allocate(a, [owed EXCEPT !["principal"] = loan.principal], Order)
      BY DEF Abstract!Share
    <3>3. Abstract!Share(a, owed) = Allocate(a, [owed EXCEPT !["principal"] = loan.principal], Order)
      BY <3>2, SameWaterfall
    <3> QED BY <3>1, <3>3 DEF Split
  <2>6. /\ ledger'.cash = ledger.cash + a
        /\ ledger'.portfolio = ledger.portfolio + s.alloc["principal"]
        /\ ledger'.interest = ledger.interest + s.alloc["interest"]
        /\ ledger'.suspense = ledger.suspense + s.rem
    BY <1>1, <2>1, <2>3, PostBooks
  <2>7. s.alloc["penalty"] = 0 /\ s.alloc["fees"] = 0
    BY <2>3 DEF PostsSplit
  <2> HIDE DEF s
  <2>8. credited' = [c \in Components |-> credited[c] + s.alloc[c]]
    <3>1. credited' = [Nothing EXCEPT !["interest"] = ledger'.interest,
                                      !["principal"] = ledger'.portfolio]
      OBVIOUS
    <3> QED BY <2>6, <2>7, <3>1 DEF Nothing, Components
  <2>9. Abstract!Components = Components
    BY DEF Components, Abstract!Components
  <2>10. Abstract!Enter(a, s)
    BY <2>2, <2>3, <2>6, <2>8, <2>9 DEF Abstract!Enter
  <2> HIDE DEF owed, credited
  <2>11. CASE Recorded(w, a, loan, due)
    <3>1. /\ loan.principal - s.alloc["principal"] > 1
          /\ loan'.principal = loan.principal - s.alloc["principal"]
      BY <2>11 DEF Recorded, Cent, s
    <3>2. Abstract!Pay(a, owed)
      BY <2>5, <2>10, <3>1 DEF Abstract!Pay
    <3> QED BY <2>4, <3>2 DEF Abstract!HeaderNext
  <2>12. CASE Settled(w, a, loan, due)
    <3>1. loan'.principal = 0
      BY <2>12 DEF Settled
    <3>2. Abstract!SettleEarly(a, owed)
      BY <2>5, <2>10, <3>1 DEF Abstract!SettleEarly
    <3> QED BY <2>4, <3>2 DEF Abstract!HeaderNext
  <2> QED BY <1>3, <2>2, <2>11, <2>12
<1> QED BY <1>1, <1>2, <1>3, NextCases

(* HeaderStepsInTurn, over whatever interest can be due and with any number *)
(* of workers: until two payments overlap, RepaymentSerializer.create does  *)
(* to the header and the books what LoanHeader allows, and nothing else.   *)
THEOREM HeaderIsKept ==
    ASSUME Nat \subseteq Interests
    PROVE  TurnSpec => HeaderStepsInTurn
<1>1. TurnInit => Abstract!HeaderInit
  BY HeaderInitially DEF TurnInit
<1>2. TurnInv /\ [RepaymentNext /\ Watch]_turnVars
        => [overlapped' \/ Abstract!HeaderNext \/ UNCHANGED Abstract!headerVars]_turnVars
  <2> SUFFICES ASSUME TurnInv, RepaymentNext /\ Watch, ~overlapped'
               PROVE  Abstract!HeaderNext \/ UNCHANGED Abstract!headerVars
    OBVIOUS
  <2>1. RepaymentTypeInv /\ BooksInv
    BY DEF TurnInv, Watch
  <2> QED BY <2>1, HeaderStep
<1> QED BY <1>1, <1>2, BooksHold, PTL DEF TurnSpec, HeaderStepsInTurn

-----------------------------------------------------------------------------
\* Repayment: interest on a reducing balance

(* A quotient is the greatest number that goes into the dividend.          *)
LEMMA QuotientIsGreatest ==
    ASSUME NEW x \in Nat, NEW m \in Nat \ {0}, NEW k \in Nat
    PROVE  k * m <= x <=> k <= x \div m
<1> DEFINE q == x \div m
<1>1. q \in Nat /\ q * m <= x /\ x < q * m + m
  OBVIOUS
<1> HIDE DEF q
<1>2. CASE k <= q
  <2>1. k * m <= q * m
    BY <1>1, <1>2
  <2>2. k * m \in Nat /\ q * m \in Nat
    BY <1>1
  <2> QED BY <1>1, <1>2, <2>1, <2>2 DEF q
<1>3. CASE q + 1 <= k
  <2>1. (q + 1) * m <= k * m
    BY <1>1, <1>3
  <2>2. (q + 1) * m = q * m + m
    BY <1>1
  <2>3. k * m \in Nat /\ q * m \in Nat
    BY <1>1
  <2>4. ~(k <= q)
    BY <1>1, <1>3
  <2> QED BY <1>1, <2>1, <2>2, <2>3, <2>4 DEF q
<1> QED BY <1>1, <1>2, <1>3

(* Rounding keeps the order of dividends, and of divisors the other way.   *)
LEMMA RoundDivOrder ==
    ASSUME NEW a \in Int, NEW c \in Nat, a <= c,
           NEW b \in Nat \ {0}, NEW d \in Nat \ {0}, d <= b
    PROVE  RoundDiv(a, b) <= RoundDiv(c, d)
<1>1. RoundDiv(c, d) \in Nat
  BY RoundDivType
<1>2. CASE a < 0
  <2>1. 2 * (-a) + b \in Nat /\ 2 * b \in Nat \ {0}
    BY <1>2
  <2>2. (2 * (-a) + b) \div (2 * b) \in Nat
    BY <2>1
  <2>3. RoundDiv(a, b) = -((2 * (-a) + b) \div (2 * b))
    BY <1>2 DEF RoundDiv
  <2> QED BY <1>1, <2>2, <2>3
<1>3. CASE a >= 0
  <2> DEFINE q == (2 * a + b) \div (2 * b)
  <2>1. 2 * a + b \in Nat /\ 2 * b \in Nat \ {0} /\ 2 * c + d \in Nat /\ 2 * d \in Nat \ {0}
    BY <1>3
  <2>2. q \in Nat
    BY <2>1
  <2>3. RoundDiv(a, b) = q
    BY <1>3 DEF RoundDiv
  <2>4. q * (2 * b) <= 2 * a + b
    BY <2>1, <2>2, QuotientIsGreatest
  <2> HIDE DEF q
  <2>5. q * (2 * d) <= 2 * c + d
    <3>1. CASE q = 0
      BY <2>1, <3>1
    <3>2. CASE q >= 1
      <4>1. (2 * q - 1) * d <= (2 * q - 1) * b
        BY <2>2, <3>2
      <4>2. (2 * q - 1) * b = q * (2 * b) - b /\ (2 * q - 1) * d = q * (2 * d) - d
        BY <2>2
      <4>3. q * (2 * b) \in Int /\ q * (2 * d) \in Int
        BY <2>2
      <4> QED BY <1>3, <2>4, <4>1, <4>2, <4>3
    <3> QED BY <2>2, <3>1, <3>2
  <2>6. q <= (2 * c + d) \div (2 * d)
    BY <2>1, <2>2, <2>5, QuotientIsGreatest
  <2>7. RoundDiv(c, d) = (2 * c + d) \div (2 * d)
    BY DEF RoundDiv
  <2> QED BY <2>3, <2>6, <2>7
<1> QED BY <1>2, <1>3

LEMMA InterestOrder ==
    ASSUME NEW x \in Int, NEW y \in Nat, x <= y,
           NEW m \in Nat \ {0}, NEW n \in Nat \ {0}, n <= m
    PROVE  Interest(x, m) <= Interest(y, n)
<1>1. x * RateNum \in Int /\ y * RateNum \in Nat /\ x * RateNum <= y * RateNum
  BY ConstantsOK
<1>2. RateDen * m \in Nat \ {0} /\ RateDen * n \in Nat \ {0} /\ RateDen * n <= RateDen * m
  BY ConstantsOK
<1> DEFINE p == x * RateNum
           q == y * RateNum
           j == RateDen * m
           k == RateDen * n
<1> HIDE DEF p, q, j, k
<1>3. p \in Int /\ q \in Nat /\ p <= q /\ j \in Nat \ {0} /\ k \in Nat \ {0} /\ k <= j
  BY <1>1, <1>2 DEF p, q, j, k
<1>4. RoundDiv(p, j) <= RoundDiv(q, k)
  BY <1>3, RoundDivOrder
<1> QED BY <1>4 DEF Interest, p, q, j, k

(* No header, of the loan or in a request, owes more than was disbursed.   *)
RateInv ==
    /\ RepaymentTypeInv
    /\ loan.principal <= Principal
    /\ \A w \in Workers : obj[w] # NoRow => obj[w].principal <= Principal
    /\ method = "reducing_balance" => InterestAtLoanRate

LEMMA InitRate == RepaymentInit => RateInv
<1> SUFFICES ASSUME RepaymentInit PROVE RateInv
  OBVIOUS
<1>1. RepaymentTypeInv
  BY InitTypes
<1>2. ASSUME NEW i \in Installments, method = "reducing_balance"
      PROVE  entries[i].expI <= Interest(Principal, PerYear)
  <2>1. Share \in Nat
    BY ConstantsOK, RoundDivType DEF Share
  <2>2. (i - 1) * Share \in Nat
    BY <2>1, ConstantsOK DEF Installments
  <2> DEFINE x == (i - 1) * Share
  <2> HIDE DEF x
  <2>3. x \in Nat /\ Opening(i) = Larger(0, Principal - x) /\ Principal \in Nat
    BY <2>2, ConstantsOK DEF x, Opening
  <2>4. Opening(i) \in Int /\ Opening(i) <= Principal
    BY <2>3 DEF Larger
  <2>5. PerYear \in Nat \ {0} /\ PerYear <= PerYear
    BY ConstantsOK
  <2>6. Interest(Opening(i), PerYear) <= Interest(Principal, PerYear)
    BY <2>3, <2>4, <2>5, InterestOrder
  <2>7. entries[i].expI = Interest(Opening(i), PerYear)
    BY <1>2 DEF RepaymentInit, ScheduledI
  <2> QED BY <2>6, <2>7
<1>3. loan.principal <= Principal /\ \A w \in Workers : obj[w] = NoRow
  BY ConstantsOK DEF RepaymentInit
<1> QED BY <1>1, <1>2, <1>3 DEF RateInv, InterestAtLoanRate, Unpaid

LEMMA PayKeepsInterest ==
    ASSUME RepaymentTypeInv, NEW alloc, NEW i \in Installments
    PROVE  /\ PayEntries(alloc)[i].expI = entries[i].expI
           /\ ~PayEntries(alloc)[i].paid => i \in Unpaid
<1>1. entries[i] \in Entry
  BY DEF RepaymentTypeInv
<1>2. CASE i \notin Unpaid
  BY <1>2 DEF PayEntries, Unpaid
<1>3. CASE i \in Unpaid
  <2> DEFINE int == Spread(alloc["interest"], OpenI)
             prn == Spread(alloc["principal"], OpenP)
             extra == alloc["principal"] - SumFunction(prn)
             more == IF \A j \in Unpaid : j <= i THEN extra ELSE 0
             pay == [entries[i] EXCEPT !.paidI = @ + int[i], !.paidP = @ + prn[i] + more]
  <2>1. PayEntries(alloc)[i] = [pay EXCEPT !.paid = RemP(pay) <= Cent /\ RemI(pay) <= Cent]
    BY <1>3 DEF PayEntries
  <2> HIDE DEF int, prn, extra, more
  <2>2. pay.expI = entries[i].expI
    BY <1>1 DEF Entry
  <2>3. \A b : [pay EXCEPT !.paid = b].expI = pay.expI
    BY <1>1 DEF Entry
  <2> QED BY <1>3, <2>1, <2>2, <2>3
<1> QED BY <1>2, <1>3

(* A recalculation charges each installment on a part of what is owed.     *)
LEMMA RecalculateRate ==
    ASSUME PerYear <= 12, NEW es \in [Installments -> Entry], NEW balance \in Nat,
           balance <= Principal, Cardinality({j \in Installments : ~es[j].paid}) > 1,
           NEW i \in Installments, ~Recalculate(es, balance)[i].paid
    PROVE  Recalculate(es, balance)[i].expI <= Interest(Principal, PerYear)
<1> DEFINE U == {j \in Installments : ~es[j].paid}
           n == Cardinality(U)
           share == RoundDiv(balance, n)
           rank(k) == Cardinality({j \in U : j < k})
           open(k) == balance - rank(k) * share
<1>1. IsFiniteSet(U)
  BY InstallmentsFinite, FS_Subset
<1>2. n \in Nat \ {0}
  BY <1>1, FS_CardinalityType
<1>3. {j \in U : j < i} \in SUBSET U
  OBVIOUS
<1>4. rank(i) \in Nat
  BY <1>1, <1>3, FS_Subset, FS_CardinalityType
<1>5. Recalculate(es, balance)[i] =
        IF i \in U
        THEN [es[i] EXCEPT
                !.expI = Interest(open(i), 12),
                !.expP = IF rank(i) = n - 1 THEN open(i) ELSE share]
        ELSE es[i]
  BY DEF Recalculate
<1> HIDE DEF n, rank
<1>6. share \in Nat
  BY <1>2, RoundDivType
<1> HIDE DEF share
<1>7. rank(i) * share \in Nat
  BY <1>4, <1>6
<1>8. open(i) \in Int /\ open(i) <= Principal /\ Principal \in Nat
  BY <1>7, ConstantsOK
<1>9. PerYear \in Nat \ {0} /\ 12 \in Nat \ {0}
  BY ConstantsOK
<1> HIDE DEF open
<1>10. Interest(open(i), 12) <= Interest(Principal, PerYear)
  BY <1>8, <1>9, InterestOrder
<1>11. i \in U
  BY <1>5
<1>12. Recalculate(es, balance)[i].expI = Interest(open(i), 12)
  BY <1>5, <1>11 DEF Entry
<1> QED BY <1>10, <1>12

LEMMA RecordRate ==
    ASSUME PerYear <= 12, RateInv, NEW w \in Workers, NEW a \in Payments, NEW d \in Days,
           Record(w, a, d)
    PROVE  RateInv'
<1> DEFINE h == obj[w]
           due == InterestDue(h, a, d)
           s == Split(h, a, due)
           principal == Larger(0, h.principal - s.alloc["principal"])
           es == PayEntries(s.alloc)
           renew == /\ method = "reducing_balance"
                    /\ s.alloc["principal"] > 0
                    /\ Cardinality({i \in Installments : ~es[i].paid}) > 1
<1>1. RepaymentTypeInv /\ a \in Nat
  BY ConstantsOK DEF RateInv
<1>2. h \in HeldHeaders /\ h # NoRow /\ h.principal <= Principal
  BY <1>1 DEF RepaymentTypeInv, Record, RateInv
<1>3. due \in Nat
  BY <1>1, <1>2, InterestDueType
<1> HIDE DEF due
<1>4. s.alloc \in [Components -> Nat]
  BY <1>1, <1>2, <1>3, SplitTypes
<1>5. s.alloc["principal"] \in Nat
  BY <1>4 DEF Components
<1>6. es \in [Installments -> Entry]
  BY <1>1, <1>4, PayTypes
<1>7. \A i \in Installments : es[i].expI = entries[i].expI /\ (~es[i].paid => i \in Unpaid)
  BY <1>1, PayKeepsInterest
<1>8. /\ entries' = IF renew THEN Recalculate(es, principal) ELSE es
      /\ loan'.principal = principal /\ UNCHANGED method
      /\ obj' = [obj EXCEPT ![w] = NoRow]
  BY DEF Record, due, Answer
<1> HIDE DEF s, es
<1>9. principal \in Nat /\ principal <= Principal
  BY <1>2, <1>5, ConstantsOK DEF HeldHeaders, Larger
<1> HIDE DEF h, principal
<1>10. RepaymentTypeInv'
  <2>1. [RepaymentNext]_repaymentVars
    BY DEF RepaymentNext
  <2> QED BY <1>1, <2>1, NextTypes
<1>11. ASSUME method = "reducing_balance", NEW i \in Installments, ~entries'[i].paid
       PROVE  entries'[i].expI <= Interest(Principal, PerYear)
  <2>1. CASE renew
    BY <1>6, <1>8, <1>9, <1>11, <2>1, RecalculateRate
  <2>2. CASE ~renew
    <3>1. entries' = es
      BY <1>8, <2>2
    <3>2. i \in Unpaid /\ entries'[i].expI = entries[i].expI
      BY <1>7, <1>11, <3>1
    <3> QED BY <1>11, <3>2 DEF RateInv, InterestAtLoanRate
  <2> QED BY <2>1, <2>2
<1>12. \A v \in Workers : obj'[v] # NoRow => obj'[v].principal <= Principal
  BY <1>1, <1>8 DEF RateInv, RepaymentTypeInv
<1> QED BY <1>8, <1>9, <1>10, <1>11, <1>12 DEF RateInv, InterestAtLoanRate, Unpaid

LEMMA SettleRate ==
    ASSUME RateInv, NEW w \in Workers, NEW a \in Payments, NEW d \in Days, Settle(w, a, d)
    PROVE  RateInv'
<1> DEFINE s == Split(obj[w], a, SettlementDue(d))
           es == PayEntries(s.alloc)
           close(e) == [e EXCEPT !.expP = e.paidP, !.expI = e.paidI, !.paid = TRUE]
<1>1. RepaymentTypeInv
  BY DEF RateInv
<1>2. RepaymentTypeInv'
  <2>1. [RepaymentNext]_repaymentVars
    BY DEF RepaymentNext
  <2> QED BY <1>1, <2>1, NextTypes
<1>3. /\ entries' = [i \in Installments |-> IF es[i].paid THEN es[i] ELSE close(es[i])]
      /\ loan'.principal = 0 /\ UNCHANGED method
      /\ obj' = [obj EXCEPT ![w] = NoRow]
  BY DEF Settle, Answer
<1>4. /\ obj[w] \in HeldHeaders /\ entries' \in [Installments -> Entry]
  BY <1>1, SettleSteps
<1>5. \A i \in Installments : es[i] \in Entry
  <2>1. a \in Nat /\ TRUE \in BOOLEAN
    BY ConstantsOK
  <2>2. SettlementDue(d) \in Nat
    BY <1>1, <2>1, DueTypes
  <2>3. s.alloc \in [Components -> Nat]
    BY <1>4, <2>1, <2>2, SplitTypes
  <2> QED BY <1>1, <2>3, PayTypes
<1> HIDE DEF s, es
<1>6. \A i \in Installments : entries'[i].paid = TRUE
  BY <1>3, <1>5 DEF Entry
<1>7. \A v \in Workers : obj'[v] # NoRow => obj'[v].principal <= Principal
  BY <1>1, <1>3 DEF RateInv, RepaymentTypeInv
<1>8. InterestAtLoanRate'
  BY <1>6 DEF InterestAtLoanRate, Unpaid
<1>9. loan'.principal <= Principal
  <2>1. loan'.principal = 0
    BY <1>3
  <2> QED BY ONLY <2>1, ConstantsOK
<1> QED BY <1>2, <1>7, <1>8, <1>9 DEF RateInv

LEMMA NextRate ==
    ASSUME PerYear <= 12, RateInv, [RepaymentNext]_repaymentVars
    PROVE  RateInv'
<1>1. RepaymentTypeInv /\ RepaymentTypeInv'
  BY NextTypes DEF RateInv
<1>2. CASE UNCHANGED repaymentVars
  BY <1>1, <1>2 DEF RateInv, repaymentVars, InterestAtLoanRate, Unpaid
<1>3. ASSUME NEW w \in Workers, Begin(w) PROVE RateInv'
  BY <1>1, <1>3 DEF RateInv, Begin, InterestAtLoanRate, Unpaid, RepaymentTypeInv
<1>4. ASSUME NEW w \in Workers, Quiet, obj' = [obj EXCEPT ![w] = NoRow] PROVE RateInv'
  BY <1>1, <1>4 DEF RateInv, Quiet, InterestAtLoanRate, Unpaid, RepaymentTypeInv
<1>5. ASSUME NEW w \in Workers, NEW a \in Payments, NEW d \in Days, RecordFails(w, a, d)
      PROVE  RateInv'
  BY <1>4, <1>5 DEF RecordFails, Answer, Quiet
<1>6. ASSUME NEW w \in Workers, Abort(w) PROVE RateInv'
  BY <1>4, <1>6 DEF Abort, Answer, Quiet
<1> QED BY <1>2, <1>3, <1>5, <1>6, RecordRate, SettleRate DEF RepaymentNext

(* InterestAtLoanRate of a loan on a reducing balance, repaid monthly or    *)
(* less often, for any number of requests at once: recalculate_reducing_-  *)
(* balance never asks an installment for more than a period earns on the   *)
(* whole amount.                                                           *)
THEOREM RateIsKept ==
    ASSUME PerYear <= 12
    PROVE  RepaymentSpec => [](method = "reducing_balance" => InterestAtLoanRate)
<1>1. RateInv /\ [RepaymentNext]_repaymentVars => RateInv'
  BY NextRate
<1>2. RateInv => (method = "reducing_balance" => InterestAtLoanRate)
  BY DEF RateInv
<1> QED BY InitRate, <1>1, <1>2, PTL DEF RepaymentSpec
=============================================================================
