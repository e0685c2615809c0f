------------------------ MODULE DeductionRollProofs ------------------------
(***************************************************************************)
(* Proofs about DeductionRoll: the registration fee is taken once, the     *)
(* loan parts of a remittance reach the installments, and the amount paid  *)
(* is what was remitted, for any members, months, loans, operators and     *)
(* amounts, and any interleaving of generations, uploads, edits and what   *)
(* happens to members and loans elsewhere.                                 *)
(***************************************************************************)
EXTENDS DeductionRoll, OperatorProofs

-----------------------------------------------------------------------------
\* Types

Standings == {"none", "active", "doubtful", "closed"}

\* An installment is marked as settled as soon as it is paid in full.
Entries ==
    {e \in [standing : Standings, interest : Nat, principal : Nat, settled : BOOLEAN] :
       e.settled = Settled(e.interest, e.principal)}

Snapshots == UNION {[some -> Entries] : some \in SUBSET Installments}

\* A line asks for what the schedule asks for that it was figured from.
AsFigured(r) == r.asof = Unfigured \/ r.loan = Asked(r.asof)

Rows ==
    {r \in [id : Nat, member : Members, month : Months, loan : Parts, fee : Nat, savings : Nat,
            paid : Nat, asof : Snapshots, altered : BOOLEAN] : AsFigured(r)}

Lines ==
    [batch : Nat, row : Nat, member : Members, month : Months, remitted : Nat, fee : BOOLEAN,
     fresh : BOOLEAN, several : BOOLEAN, short : BOOLEAN, over : BOOLEAN, known : SUBSET Nat]

PerMember(S) == UNION {[named -> S] : named \in SUBSET Members}

\* Requests that hold neither rows nor a batch.
Passing ==
    {NoReq} \cup [op : {"regenerate"}, stage : {"sent"}, month : Months]
      \cup [op : {"upload"}, stage : {"sent"}, file : PerMember(Remitted), month : Months]

LinesRead ==
    [op : {"regenerate"}, stage : {"read"}, month : Months, copies : SUBSET Rows,
     new : SUBSET Rows]

BatchSaved ==
    [op : {"upload"}, stage : {"saved"}, file : PerMember(Remitted), month : Months, batch : Nat]

FileRead ==
    [op : {"upload"}, stage : {"read"}, file : PerMember(Remitted), month : Months, batch : Nat,
     copies : SUBSET Rows, new : SUBSET Rows, due : PerMember(Snapshots),
     exempt : SUBSET Members, known : SUBSET (Members \X Nat)]

\* The lines that an upload works on are lines of its file.
OfItsFile(q) ==
    /\ DOMAIN q.due = DOMAIN q.file
    /\ \A r \in q.copies \cup q.new : r.member \in DOMAIN q.file /\ r.month = q.month

Requests == Passing \cup LinesRead \cup BatchSaved \cup {q \in FileRead : OfItsFile(q)}

Pictures ==
    [screen : Screens, dialog : {"none", "edit", "create", "delete"},
     form : Rows \cup [id : Nat]]

\* The dialog of an edit has the copy of a line.
Screen == {new \in Pictures : new.dialog = "edit" => new.form \in Rows}

TypeInv ==
    /\ tab \in [Tabs -> Screen] /\ req \in [Tabs -> Requests]
    /\ entries \in [Installments -> Entries]
    /\ rows \in SUBSET Rows /\ logs \in SUBSET Lines /\ feePaid \in SUBSET Members
    /\ undone \in SUBSET (Members \X Nat)
    /\ made \in Nat /\ batches \in Nat /\ events \in Nat

-----------------------------------------------------------------------------
\* The invariant of the fee

Committed == {l.batch : l \in logs}
Begun(t) == req[t] \in BatchSaved \cup FileRead

\* The batches of uploads that go on are new, and each has one of its own.
BatchesApart ==
    /\ \A b \in Committed : b <= batches
    /\ \A t \in Tabs : Begun(t) => req[t].batch <= batches /\ req[t].batch \notin Committed
    /\ \A t, u \in Tabs : Begun(t) /\ Begun(u) /\ t # u => req[t].batch # req[u].batch

\* What an upload knows was committed before it.
KnownFirst ==
    /\ \A l \in logs : l.known \subseteq Committed /\ l.batch \notin l.known
    /\ \A t \in Tabs : req[t] \in FileRead => \A p \in req[t].known : p[2] \in Committed

\* Whose fee is known to be in is exempt from it.
KnownPays ==
    /\ \A l \in logs : l.fee /\ <<l.member, l.batch>> \notin undone => l.member \in feePaid
    /\ \A t \in Tabs : req[t] \in FileRead =>
         /\ \A p \in req[t].known : p[1] \in req[t].exempt
         /\ \A r \in req[t].new : r.fee = 0

FeeInv == BatchesApart /\ KnownFirst /\ KnownPays /\ FeeTakenOnce

-----------------------------------------------------------------------------
\* Lines and keys

\* What remains of an amount is a number, and no more than was due.
LEMMA RemainingNat ==
    ASSUME NEW due \in Nat, NEW paid \in Nat
    PROVE  /\ Remaining(due, paid) \in Nat /\ Remaining(due, paid) <= due
           /\ paid >= due => Remaining(due, paid) = 0
  BY DEF Remaining, Greater

\* A snapshot is about finitely many installments.
LEMMA SnapshotAt ==
    ASSUME NEW s \in Snapshots
    PROVE  /\ IsFiniteSet(DOMAIN s) /\ DOMAIN s \subseteq Installments
           /\ \A i \in DOMAIN s : s[i] \in Entries
  <1>1. PICK some \in SUBSET Installments : s \in [some -> Entries]
    BY DEF Snapshots
  <1>2. IsFiniteSet(some)
    BY FS_Subset, RollAssumption
  <1> QED
    BY <1>1, <1>2

\* What a snapshot asks for are numbers.
LEMMA AskedOK ==
    ASSUME NEW s \in Snapshots
    PROVE  Asked(s) \in Parts
  <1> DEFINE f == [i \in DOMAIN s |-> Remaining(DueInterest, s[i].interest)]
             g == [i \in DOMAIN s |-> Remaining(DuePrincipal, s[i].principal)]
  <1>1. \A i \in DOMAIN s : f[i] \in Nat /\ g[i] \in Nat
    BY SnapshotAt, RemainingNat, RollAssumption DEF Entries
  <1>2. DOMAIN f = DOMAIN s /\ DOMAIN g = DOMAIN s
    OBVIOUS
  <1>3. Asked(s) = [charges |-> 0, interest |-> SumFunction(f), principal |-> SumFunction(g)]
    BY DEF Asked
  <1> HIDE DEF f, g
  <1>4. SumFunctionOnSet(f, DOMAIN s) \in Nat /\ SumFunctionOnSet(g, DOMAIN s) \in Nat
    BY <1>1, SnapshotAt, SumOfNaturals
  <1>5. SumFunction(f) \in Nat /\ SumFunction(g) \in Nat
    BY <1>2, <1>4 DEF SumFunction
  <1> QED
    BY <1>3, <1>5 DEF Parts

\* The schedule of a month is such a snapshot.
LEMMA SnapshotOK ==
    ASSUME TypeInv, NEW m, NEW k
    PROVE  Snapshot(m, k) \in Snapshots
  <1>1. Schedule(m, k) \in SUBSET Installments
    BY DEF Schedule
  <1>2. Snapshot(m, k) \in [Schedule(m, k) -> Entries]
    BY <1>1 DEF Snapshot, TypeInv
  <1> QED
    BY <1>1, <1>2 DEF Snapshots

\* A line without a schedule was figured from nothing.
LEMMA UnfiguredOK ==
    /\ Unfigured \in Snapshots
    /\ \A s : s = [i \in DOMAIN s |-> s[i]] /\ DOMAIN s = {} => s = Unfigured
  <1>1. Unfigured \in [{} -> Entries]
    BY DEF Unfigured
  <1> QED
    BY <1>1 DEF Snapshots, Unfigured

\* A line figured again is the same line, and asks for what its schedule does.
LEMMA FiguredOK ==
    ASSUME TypeInv, NEW r \in Rows, NEW estimate \in Parts
    PROVE  LET f == Figured(r, estimate)
           IN  /\ f \in Rows /\ f.id = r.id /\ f.member = r.member /\ f.month = r.month
               /\ f.fee = r.fee /\ f.paid = r.paid
  <1> DEFINE s == Snapshot(r.member, r.month)
             loan == IF DOMAIN s = {} THEN estimate ELSE Asked(s)
             savings == IF r.savings = 0 THEN Default ELSE r.savings
  <1>1. s \in Snapshots /\ s = [i \in DOMAIN s |-> s[i]]
    BY SnapshotOK DEF Snapshot
  <1>2. Figured(r, estimate) = [r EXCEPT !.loan = loan, !.asof = s, !.savings = savings]
    BY DEF Figured
  <1> HIDE DEF s
  <1>3. loan \in Parts /\ (s = Unfigured \/ loan = Asked(s))
    <2>1. CASE DOMAIN s = {}
      <3>1. loan = estimate
        BY <2>1
      <3> QED
        BY <1>1, <2>1, <3>1, UnfiguredOK
    <2>2. CASE DOMAIN s # {}
      <3>1. loan = Asked(s)
        BY <2>2
      <3> QED
        BY <1>1, <3>1, AskedOK
    <2> QED
      BY <2>1, <2>2
  <1>4. savings \in Nat
    <2>1. r.savings \in Nat /\ Default \in Nat
      BY RollAssumption DEF Rows
    <2> QED
      BY <2>1
  <1> HIDE DEF loan, savings
  <1> DEFINE f == [r EXCEPT !.loan = loan, !.asof = s, !.savings = savings]
  <1>5. /\ f.id = r.id /\ f.member = r.member /\ f.month = r.month /\ f.fee = r.fee
        /\ f.paid = r.paid /\ f.loan = loan /\ f.asof = s
        /\ f \in [id : Nat, member : Members, month : Months, loan : Parts, fee : Nat,
                  savings : Nat, paid : Nat, asof : Snapshots, altered : BOOLEAN]
    BY <1>1, <1>3, <1>4 DEF Rows
  <1> HIDE DEF f
  <1>6. f \in Rows
    BY <1>3, <1>5 DEF Rows, AsFigured
  <1> QED
    BY <1>2, <1>5, <1>6 DEF f

\* A line that is made has its key, and nothing was paid on it.
LEMMA BlanklineOK ==
    ASSUME NEW id \in Nat, NEW m \in Members, NEW k \in Months
    PROVE  LET b == Blankline(id, m, k)
           IN  /\ b \in Rows /\ b.id = id /\ b.member = m /\ b.month = k
               /\ b.fee = 0 /\ b.paid = 0 /\ b.loan = NoParts /\ b.asof = Unfigured
  <1>1. NoParts \in Parts
    BY DEF NoParts, Parts
  <1> QED
    BY <1>1, UnfiguredOK, RollAssumption DEF Blankline, Rows, AsFigured

\* So has one that is made with its loan parts and the fee.
LEMMA NewlineOK ==
    ASSUME TypeInv, NEW id \in Nat, NEW m \in Members, NEW k \in Months, NEW estimate \in Parts
    PROVE  LET n == Newline(id, m, k, estimate)
           IN  n \in Rows /\ n.id = id /\ n.member = m /\ n.month = k /\ n.paid = 0
  <1> DEFINE b == Blankline(id, m, k)
             fee == IF m \in feePaid THEN 0 ELSE Fee
             c == [b EXCEPT !.fee = fee]
  <1>1. b \in Rows /\ b.id = id /\ b.member = m /\ b.month = k /\ b.paid = 0
    BY BlanklineOK
  <1>2. fee \in Nat
    BY RollAssumption
  <1>3. Newline(id, m, k, estimate) = Figured(c, estimate)
    BY DEF Newline
  <1> HIDE DEF b, fee
  <1>4. c \in Rows /\ c.id = id /\ c.member = m /\ c.month = k /\ c.paid = 0
    BY <1>1, <1>2 DEF Rows, AsFigured
  <1> HIDE DEF c
  <1> QED
    BY <1>3, <1>4, FiguredOK

\* Keys are numbers, and as many as there are lines to make.
LEMMA KeysOK ==
    ASSUME TypeInv, NEW who \in SUBSET Members
    PROVE  /\ made + Cardinality(who) \in Nat
           /\ \A id \in Keys(who), m \in who : id[m] \in Nat
  <1>1. IsFiniteSet(who)
    BY FS_Subset, RollAssumption
  <1>2. Cardinality(who) \in Nat /\ made \in Nat
    BY <1>1, FS_CardinalityType DEF TypeInv
  <1>3. ASSUME NEW id \in Keys(who), NEW m \in who
        PROVE  id[m] \in Nat
    <2>1. id \in [who -> made + 1 .. made + Cardinality(who)]
      BY DEF Keys, Bijection, Injection
    <2> QED
      BY <1>2, <2>1
  <1> QED
    BY <1>2, <1>3

\* The members without a line are members.
LEMMA MissingOK ==
    ASSUME NEW who \in SUBSET Members, NEW k
    PROVE  Missing(who, k) \in SUBSET Members
  BY DEF Missing

\* A copy that is saved over another's remittance is marked, and no more.
LEMMA AlteredOK ==
    ASSUME NEW r \in Rows, NEW b \in BOOLEAN
    PROVE  /\ [r EXCEPT !.altered = b] \in Rows
           /\ [r EXCEPT !.altered = b].member = r.member
           /\ [r EXCEPT !.altered = b].month = r.month
           /\ [r EXCEPT !.altered = b].paid = r.paid
  BY DEF Rows, AsFigured

\* Whether a copy is saved over an amount is yes or no.
LEMMA OverlaysBool == ASSUME NEW r \in Rows PROVE Overlays(r) \in BOOLEAN
  BY DEF Overlays, Rows

\* Saving leaves rows and copies, and nothing else.
LEMMA SavedOK ==
    ASSUME NEW copies, NEW r \in Saved(copies)
    PROVE  r \in rows \/ r \in copies
  BY DEF Saved

\* What happens counts on.
LEMMA EventOK ==
    ASSUME TypeInv, Event \/ UNCHANGED events
    PROVE  events' \in Nat
  BY DEF TypeInv, Event

-----------------------------------------------------------------------------
\* What an upload computes

\* What a table over some of the members holds for each.
LEMMA PerMemberOK ==
    ASSUME NEW S, NEW f \in PerMember(S), NEW m \in DOMAIN f
    PROVE  m \in Members /\ f[m] \in S
  <1>1. PICK named \in SUBSET Members : f \in [named -> S]
    BY DEF PerMember
  <1> QED
    BY <1>1

\* The waterfall allots numbers, and no more than the line asks for.
LEMMA AllottedOK ==
    ASSUME NEW r \in Rows, NEW n \in Nat
    PROVE  LET a == Allotted(r, n)
           IN  /\ a \in Parts
               /\ a.interest <= r.loan.interest /\ a.principal <= r.loan.principal
  <1> DEFINE charges == Least(n, r.loan.charges)
             interest == Least(n - charges, r.loan.interest)
             principal == Least(n - charges - interest, r.loan.principal)
  <1>1. r.loan.charges \in Nat /\ r.loan.interest \in Nat /\ r.loan.principal \in Nat
    BY DEF Rows, Parts
  <1>2. charges \in Nat /\ charges <= n
    BY <1>1 DEF Least
  <1> HIDE DEF charges
  <1>3. interest \in Nat /\ interest <= n - charges /\ interest <= r.loan.interest
    BY <1>1, <1>2 DEF Least
  <1> HIDE DEF interest
  <1>4. principal \in Nat /\ principal <= r.loan.principal
    BY <1>1, <1>2, <1>3 DEF Least
  <1>5. Allotted(r, n) = [charges |-> charges, interest |-> interest, principal |-> principal]
    BY DEF Allotted, charges, interest
  <1> HIDE DEF principal
  <1> QED
    BY <1>2, <1>3, <1>4, <1>5 DEF Parts

\* An installment that is credited takes all that it is given, up to its due.
LEMMA CreditedOK ==
    ASSUME NEW e \in Entries, NEW a \in Parts
    PROVE  LET c == Credited(e, a)
           IN  /\ c \in Entries
               /\ c.interest = e.interest + Least(a.interest, DueInterest)
               /\ c.principal = e.principal + Least(a.principal, DuePrincipal)
               /\ \A standing \in Standings : [c EXCEPT !.standing = standing] \in Entries
  <1> DEFINE interest == e.interest + Least(a.interest, DueInterest)
             principal == e.principal + Least(a.principal, DuePrincipal)
             settled == Settled(interest, principal)
             c == [e EXCEPT !.interest = interest, !.principal = principal, !.settled = settled]
  <1>1. interest \in Nat /\ principal \in Nat
    BY RollAssumption DEF Entries, Parts, Least
  <1>2. settled \in BOOLEAN /\ settled = Settled(interest, principal)
    BY DEF Settled
  <1>3. Credited(e, a) = c
    BY DEF Credited, Taken
  <1> HIDE DEF interest, principal, settled
  <1>4. c \in Entries /\ c.interest = interest /\ c.principal = principal
        /\ \A standing \in Standings : [c EXCEPT !.standing = standing] \in Entries
    BY <1>1, <1>2 DEF Entries
  <1> HIDE DEF c
  <1> QED
    BY <1>3, <1>4 DEF interest, principal

\* A line of the log copies its upload, and says whether it paid the fee.
LEMMA LogOK ==
    ASSUME TypeInv, NEW q \in FileRead, OfItsFile(q), NEW r \in q.copies \cup q.new
    PROVE  /\ Log(q, r) \in Lines
           /\ Log(q, r).batch = q.batch /\ Log(q, r).row = r.id /\ Log(q, r).member = r.member
           /\ Log(q, r).remitted = q.file[r.member]
           /\ Log(q, r).fee <=> PaysFee(r, q.file[r.member], q.exempt)
           /\ \A b \in Log(q, r).known : <<r.member, b>> \in q.known
  <1> DEFINE n == q.file[r.member]
             s == q.due[r.member]
             a == Allotted(r, n)
             into == Reaching(s, a)
             fee == PaysFee(r, n, q.exempt)
             fresh == r.asof = s /\ s # Unfigured /\ \A i \in DOMAIN s : s[i].standing = "active"
             several == \E i, j \in DOMAIN s : i # j
             short == into.interest < a.interest \/ into.principal < a.principal
             over == into.interest > a.interest \/ into.principal > a.principal
             known == {b \in 1..batches : <<r.member, b>> \in q.known}
  <1>1. /\ r \in Rows /\ r.member \in DOMAIN q.file /\ r.member \in Members /\ r.id \in Nat
        /\ q.file \in PerMember(Remitted) /\ q.batch \in Nat /\ q.month \in Months
    BY DEF FileRead, OfItsFile, Rows
  <1>2. n \in Nat
    BY <1>1, PerMemberOK, RollAssumption
  <1>3. fee \in BOOLEAN /\ fresh \in BOOLEAN /\ several \in BOOLEAN
    BY DEF PaysFee
  <1>4. short \in BOOLEAN /\ over \in BOOLEAN
    OBVIOUS
  <1>5. known \in SUBSET Nat /\ \A b \in known : <<r.member, b>> \in q.known
    BY DEF TypeInv
  <1>6. Log(q, r) = [batch |-> q.batch, row |-> r.id, member |-> r.member, month |-> q.month,
                     remitted |-> n, fee |-> fee, fresh |-> fresh, several |-> several,
                     short |-> short, over |-> over, known |-> known]
    BY DEF Log
  <1> HIDE DEF n, fee, fresh, several, short, over, known
  <1>7. Log(q, r) \in Lines
    BY <1>1, <1>2, <1>3, <1>4, <1>5, <1>6 DEF Lines
  <1>8. /\ Log(q, r).batch = q.batch /\ Log(q, r).row = r.id /\ Log(q, r).member = r.member
        /\ Log(q, r).remitted = n /\ Log(q, r).fee = fee /\ Log(q, r).known = known
    BY <1>6
  <1> QED
    BY <1>5, <1>7, <1>8 DEF n, fee

\* The rows of an upload, after it.
AfterUpload(q, r) == [r EXCEPT !.paid = PaidAfter(r, q.file[r.member])]

\* The amount paid is all that an upload changes of a line.
LEMMA AfterUploadOK ==
    ASSUME NEW q \in FileRead, NEW r \in Rows, r.member \in DOMAIN q.file
    PROVE  LET new == AfterUpload(q, r)
           IN  /\ new \in Rows /\ new.id = r.id /\ new.altered = r.altered
               /\ new.paid = r.paid + q.file[r.member]
  <1> DEFINE paid == r.paid + q.file[r.member]
             new == [r EXCEPT !.paid = paid]
  <1>1. q.file[r.member] \in Nat
    BY PerMemberOK, RollAssumption DEF FileRead
  <1>2. paid \in Nat
    BY <1>1 DEF Rows
  <1>3. AfterUpload(q, r) = new
    BY DEF AfterUpload, PaidAfter
  <1> HIDE DEF paid
  <1>4. new \in Rows /\ new.id = r.id /\ new.altered = r.altered /\ new.paid = paid
    BY <1>2 DEF Rows, AsFigured
  <1> HIDE DEF new
  <1> QED
    BY <1>3, <1>4 DEF paid

\* What a commit that goes through does, row by row and line by line.
Committing(t) ==
    LET q == req[t] IN
    /\ q \in FileRead /\ OfItsFile(q)
    /\ rows' = Saved({AfterUpload(q, [r EXCEPT !.altered = Overlays(r)]) : r \in q.copies}
                       \cup {AfterUpload(q, r) : r \in q.new})
    /\ logs' = logs \cup {Log(q, r) : r \in q.copies \cup q.new}
    /\ feePaid' = feePaid \cup {r.member : r \in {s \in q.copies :
                                  PaysFee(s, q.file[s.member], q.exempt)}}
    /\ entries' \in [Installments -> Entries]
    /\ req' = [req EXCEPT ![t] = NoReq]
    /\ UNCHANGED <<tab, made, batches, undone, events>>

\* The stage of a request says what it holds.
LEMMA StageOfRequest ==
    ASSUME NEW q \in Requests
    PROVE  /\ q.op = "upload" /\ q.stage = "read" => q \in FileRead /\ OfItsFile(q)
           /\ q.op = "upload" /\ q.stage = "saved" => q \in BatchSaved
           /\ q.op = "upload" /\ q.stage = "sent" =>
                q.file \in PerMember(Remitted) /\ q.month \in Months
           /\ q.op = "regenerate" /\ q.stage = "read" => q \in LinesRead
           /\ q.op = "regenerate" /\ q.stage = "sent" => q.month \in Months
           /\ q.stage = "idle" => q \in Passing
  BY DEF Requests, Passing, LinesRead, BatchSaved, FileRead, NoReq

\* An installment after an upload is its copy credited, or stays.
LEMMA AfterCreditOK ==
    ASSUME TypeInv, NEW q \in FileRead, OfItsFile(q), NEW i \in Installments
    PROVE  AfterCredit(q, i) \in Entries
  <1>1. entries[i] \in Entries
    BY DEF TypeInv
  <1>2. CASE \E r \in q.copies : Credits(q, r, i)
    <2> DEFINE r == CHOOSE s \in q.copies : Credits(q, s, i)
               e == q.due[r.member][i]
               a == Allotted(r, q.file[r.member])
    <2>1. r \in q.copies /\ Credits(q, r, i)
      BY <1>2
    <2>2. AfterCredit(q, i) = [Credited(e, a) EXCEPT !.standing = entries[i].standing]
      BY <1>2 DEF AfterCredit
    <2> HIDE DEF r
    <2>3. /\ r \in Rows /\ r.member \in DOMAIN q.file /\ r.member \in DOMAIN q.due
          /\ i \in DOMAIN q.due[r.member]
      BY <2>1 DEF FileRead, OfItsFile, Credits, Served
    <2>4. q.file[r.member] \in Nat /\ q.due[r.member] \in Snapshots
      BY <2>3, PerMemberOK, RollAssumption DEF FileRead
    <2>5. e \in Entries /\ a \in Parts
      BY <2>3, <2>4, SnapshotAt, AllottedOK
    <2>6. entries[i].standing \in Standings
      BY <1>1 DEF Entries
    <2> HIDE DEF e, a
    <2> QED
      BY <2>2, <2>5, <2>6, CreditedOK
  <1>3. CASE ~\E r \in q.copies : Credits(q, r, i)
    BY <1>1, <1>3 DEF AfterCredit
  <1> QED
    BY <1>2, <1>3

\* A commit collides and fails, or writes all its lines.
LEMMA CommitKinds ==
    ASSUME TypeInv, NEW t \in Tabs, Commit(t)
    PROVE  Fail(t) \/ Committing(t)
  <1>1. req[t] \in FileRead /\ OfItsFile(req[t])
    BY StageOfRequest DEF TypeInv, Commit, At
  <1>2. CASE Clash(req[t].copies)
    BY <1>2 DEF Commit
  <1>3. CASE ~Clash(req[t].copies)
    <2> DEFINE q == req[t]
    <2>1. entries' = [i \in Installments |-> AfterCredit(q, i)]
      BY <1>3 DEF Commit
    <2>2. entries' \in [Installments -> Entries]
      BY <1>1, <2>1, AfterCreditOK
    <2>3. /\ rows' = Saved({AfterUpload(q, [r EXCEPT !.altered = Overlays(r)]) : r \in q.copies}
                             \cup {AfterUpload(q, r) : r \in q.new})
          /\ logs' = logs \cup {Log(q, r) : r \in q.copies \cup q.new}
          /\ feePaid' = feePaid \cup {r.member : r \in {s \in q.copies :
                                        PaysFee(s, q.file[s.member], q.exempt)}}
          /\ req' = [req EXCEPT ![t] = NoReq]
          /\ UNCHANGED <<tab, made, batches, undone, events>>
      BY <1>3 DEF Commit, AfterUpload, Ends
    <2> QED
      BY <1>1, <2>2, <2>3 DEF Committing
  <1> QED
    BY <1>2, <1>3

-----------------------------------------------------------------------------
\* What a step keeps

TabsOK == tab' \in [Tabs -> Screen]
ReqsOK == req' \in [Tabs -> Requests]
RowsOK == rows' \in SUBSET Rows /\ made' \in Nat
LogsOK ==
    /\ logs' \in SUBSET Lines /\ feePaid' \in SUBSET Members
    /\ undone' \in SUBSET (Members \X Nat) /\ batches' \in Nat
EntriesOK == entries' \in [Installments -> Entries]
EventsOK == events' \in Nat

StepOK == TabsOK /\ ReqsOK /\ RowsOK /\ LogsOK /\ EntriesOK /\ EventsOK

\* The lines in the hands of a request are lines.
LEMMA RowsOfRequest ==
    ASSUME NEW q \in Requests, q \in LinesRead \cup FileRead
    PROVE  q.copies \cup q.new \in SUBSET Rows
  BY DEF LinesRead, FileRead

\* So a step keeps the types.
LEMMA StepKeeps ==
    ASSUME TypeInv, StepOK
    PROVE  TypeInv'
  BY DEF TypeInv, StepOK, TabsOK, ReqsOK, RowsOK, LogsOK, EntriesOK, EventsOK

\* What a step leaves alone stays as it should be.
LEMMA SameOK ==
    ASSUME TypeInv
    PROVE  /\ UNCHANGED <<rows, made>> => RowsOK
           /\ UNCHANGED tab => TabsOK
           /\ UNCHANGED req => ReqsOK
           /\ UNCHANGED <<logs, feePaid, undone, batches>> => LogsOK
           /\ UNCHANGED entries => EntriesOK
           /\ UNCHANGED events => EventsOK
  BY DEF TypeInv, TabsOK, ReqsOK, RowsOK, LogsOK, EntriesOK, EventsOK

\* One page shows something else.
LEMMA OneTab ==
    ASSUME TypeInv, NEW t \in Tabs, NEW new \in Screen, tab' = [tab EXCEPT ![t] = new]
    PROVE  TabsOK
  BY DEF TypeInv, TabsOK

\* One request comes to another stage.
LEMMA OneReq ==
    ASSUME TypeInv, NEW t \in Tabs, NEW r \in Requests, req' = [req EXCEPT ![t] = r]
    PROVE  ReqsOK
  BY DEF TypeInv, ReqsOK

\* A request that holds nothing is in no other stage.
LEMMA PassingOK ==
    ASSUME NEW r \in Passing
    PROVE  r \in Requests /\ r \notin LinesRead \cup FileRead \cup BatchSaved
  BY DEF Requests, Passing, LinesRead, FileRead, BatchSaved, NoReq

\* An answer closes a dialog.
LEMMA AnsweredOK ==
    ASSUME TypeInv, NEW t \in Tabs, Answered(t)
    PROVE  TabsOK
  <1> DEFINE new == [tab[t] EXCEPT !.dialog = "none", !.form = NoForm]
  <1>1. CASE UNCHANGED tab
    BY <1>1, SameOK
  <1>2. CASE tab' = [tab EXCEPT ![t].dialog = "none", ![t].form = NoForm]
    <2>1. tab[t] \in Pictures
      BY DEF TypeInv, Screen
    <2>2. new \in Pictures /\ new.dialog = "none"
      BY <2>1 DEF Pictures, NoForm
    <2>3. tab' = [tab EXCEPT ![t] = new]
      BY <1>2 DEF TypeInv
    <2> HIDE DEF new
    <2> QED
      BY <2>2, <2>3, OneTab DEF Screen
  <1> QED
    BY <1>1, <1>2 DEF Answered

\* What the pages do on their own: only a dialog of the roll has a line.
Looks(t) ==
    \/ \E s \in Pages[t] : Visit(t, s)
    \/ OpenEdit(t) \/ OpenCreate(t) \/ OpenDelete(t) \/ Close(t)

\* A dialog opens that is about a key, or about nothing.
LEMMA OpensOK ==
    ASSUME TypeInv, NEW t \in Tabs, NEW dialog \in {"none", "create", "delete"},
           NEW form \in [id : Nat], Open(t, dialog, form)
    PROVE  TabsOK
  <1> DEFINE new == [tab[t] EXCEPT !.dialog = dialog, !.form = form]
  <1>1. tab[t] \in Pictures
    BY DEF TypeInv, Screen
  <1>2. new \in Pictures /\ new.dialog # "edit"
    BY <1>1 DEF Pictures
  <1>3. tab' = [tab EXCEPT ![t] = new]
    BY DEF Open, Show
  <1> HIDE DEF new
  <1> QED
    BY <1>2, <1>3, OneTab DEF Screen

\* The form of an edit is a line on display.
LEMMA OpensEdit ==
    ASSUME TypeInv, NEW t \in Tabs, NEW r \in rows, Open(t, "edit", r)
    PROVE  TabsOK
  <1> DEFINE new == [tab[t] EXCEPT !.dialog = "edit", !.form = r]
  <1>1. tab[t] \in Pictures /\ r \in Rows
    BY DEF TypeInv, Screen
  <1>2. new \in Pictures /\ new.form = r
    BY <1>1 DEF Pictures
  <1>3. tab' = [tab EXCEPT ![t] = new]
    BY DEF Open, Show
  <1> HIDE DEF new
  <1> QED
    BY <1>1, <1>2, <1>3, OneTab DEF Screen

\* Whatever a page does on its own, the tables stay.
LEMMA LooksOK ==
    ASSUME TypeInv, NEW t \in Tabs, Looks(t)
    PROVE  TabsOK /\ UNCHANGED <<req, dbVars>>
  <1>1. UNCHANGED <<req, dbVars>>
    BY DEF Looks, Visit, OpenEdit, OpenCreate, OpenDelete, Close, Open, Show
  <1> SUFFICES TabsOK
    BY <1>1
  <1>2. ASSUME NEW s \in Pages[t], Visit(t, s) PROVE TabsOK
    <2>1. s \in Screens
      BY RollAssumption
    <2>2. Blank(s) \in Pictures /\ Blank(s).dialog = "none"
      BY <2>1 DEF Pictures, Blank, NoForm
    <2>3. tab' = [tab EXCEPT ![t] = Blank(s)]
      BY <1>2 DEF Visit, Show
    <2> QED
      BY <2>2, <2>3, OneTab DEF Screen
  <1>3. CASE OpenEdit(t)
    <2>1. PICK r \in Register(t) : Open(t, "edit", r)
      BY <1>3 DEF OpenEdit
    <2>2. r \in rows
      BY DEF Register
    <2> QED
      BY <2>1, <2>2, OpensEdit
  <1>4. CASE OpenCreate(t) \/ Close(t)
    BY <1>4, OpensOK DEF OpenCreate, Close, NoForm
  <1>5. CASE OpenDelete(t)
    <2>1. PICK r \in Register(t) : Open(t, "delete", [id |-> r.id])
      BY <1>5 DEF OpenDelete
    <2>2. [id |-> r.id] \in [id : Nat]
      BY DEF Register, TypeInv, Rows
    <2> QED
      BY <2>1, <2>2, OpensOK
  <1> QED
    BY <1>2, <1>3, <1>4, <1>5 DEF Looks

-----------------------------------------------------------------------------
\* The actions, one after the other

\* A request that is sent, answered or given up changes no table.
Passes(t) == \E r \in Passing : req' = [req EXCEPT ![t] = r]

\* A request that fails leaves everything in place.
LEMMA FailPasses ==
    ASSUME TypeInv, NEW t \in Tabs, Fail(t)
    PROVE  Passes(t) /\ UNCHANGED <<tab, dbVars>>
  BY DEF Fail, Ends, Passes, Passing

\* So do the pages that send.
LEMMA SendsPass ==
    ASSUME TypeInv, NEW t \in Tabs, Regenerate(t) \/ Upload(t)
    PROVE  Passes(t) /\ UNCHANGED <<tab, dbVars>>
  <1>1. CASE Regenerate(t)
    BY <1>1 DEF Regenerate, Send, Passes, Passing
  <1>2. CASE Upload(t)
    <2>1. PICK k \in Months, named \in (SUBSET Members) \ {{}} :
            \E file \in [named -> Remitted] :
              Send(t, [op |-> "upload", stage |-> "sent", file |-> file, month |-> k])
      BY <1>2 DEF Upload
    <2>2. \A file \in [named -> Remitted] : file \in PerMember(Remitted)
      BY DEF PerMember
    <2> QED
      BY <2>1, <2>2 DEF Send, Passes, Passing
  <1> QED
    BY <1>1, <1>2

\* Such a step is sound.
LEMMA PassesStep ==
    ASSUME TypeInv, NEW t \in Tabs, Passes(t), UNCHANGED <<tab, dbVars>>
    PROVE  StepOK
  <1>1. ReqsOK
    BY PassingOK, OneReq DEF Passes
  <1>2. TabsOK /\ RowsOK /\ LogsOK /\ EntriesOK /\ EventsOK
    BY SameOK DEF dbVars
  <1> QED
    BY <1>1, <1>2 DEF StepOK

\* What a field may come to hold is a number.
LEMMA EntryNat ==
    /\ \A n \in Nat : Entry(n) \subseteq Nat
    /\ \A p \in Parts : Amounts(p) \subseteq Parts
  BY RollAssumption DEF Entry, Amounts, Parts

\* An edit saves a line: the copy, with whatever was typed over it.
SavesEdit(t, c) ==
    LET old == tab[t].form IN
    /\ old \in Rows /\ Keyed(old.id) # {}
    /\ c \in Rows /\ c.id = old.id /\ rows' = Saved({c})
    /\ ~c.altered => ~Overlays(old) /\ c.paid = old.paid

LEMMA SaveEditSaves ==
    ASSUME TypeInv, NEW t \in Tabs, SaveEdit(t)
    PROVE  /\ \E c \in Rows : SavesEdit(t, c)
           /\ UNCHANGED <<req, made, batches, logs, entries, feePaid, undone>>
           /\ Answered(t) /\ (Event \/ UNCHANGED events)
  <1> DEFINE old == tab[t].form
  <1>1. tab[t] \in Screen /\ tab[t].dialog = "edit" /\ Keyed(old.id) # {}
    BY DEF TypeInv, SaveEdit, Shows
  <1>2. old \in Rows
    BY <1>1 DEF Screen
  <1>3. PICK loan \in Amounts(old.loan), fee \in Entry(old.fee), savings \in Entry(old.savings),
             paid \in Entry(old.paid) :
          LET new == [old EXCEPT !.loan = loan, !.fee = fee, !.savings = savings, !.paid = paid] IN
          /\ TypedOver(new # old)
          /\ rows' = Saved({[new EXCEPT !.asof = IF loan = old.loan THEN @ ELSE Unfigured,
                                        !.altered = Overlays(old) \/ paid # old.paid]})
    BY DEF SaveEdit
  <1> HIDE DEF old
  <1> DEFINE asof == IF loan = old.loan THEN old.asof ELSE Unfigured
             altered == Overlays(old) \/ paid # old.paid
             new == [old EXCEPT !.loan = loan, !.fee = fee, !.savings = savings, !.paid = paid]
             c == [new EXCEPT !.asof = asof, !.altered = altered]
  <1>4. loan \in Parts /\ fee \in Nat /\ savings \in Nat /\ paid \in Nat
    <2>1. old.loan \in Parts /\ old.fee \in Nat /\ old.savings \in Nat /\ old.paid \in Nat
      BY <1>2 DEF Rows
    <2> QED
      BY <2>1, EntryNat
  <1>5. asof \in Snapshots /\ (asof = Unfigured \/ loan = Asked(asof))
    BY <1>2, UnfiguredOK DEF Rows, AsFigured
  <1>6. altered \in BOOLEAN /\ (~altered => ~Overlays(old) /\ paid = old.paid)
    BY <1>2, OverlaysBool
  <1>7. rows' = Saved({c})
    BY <1>2, <1>3 DEF Rows
  <1>8. Event \/ UNCHANGED events
    BY <1>3 DEF TypedOver
  <1> HIDE DEF asof, altered
  <1>9. /\ c.id = old.id /\ c.paid = paid /\ c.altered = altered /\ c.loan = loan /\ c.asof = asof
        /\ c \in [id : Nat, member : Members, month : Months, loan : Parts, fee : Nat,
                  savings : Nat, paid : Nat, asof : Snapshots, altered : BOOLEAN]
    BY <1>2, <1>4, <1>5, <1>6 DEF Rows
  <1> HIDE DEF c
  <1>10. c \in Rows
    BY <1>5, <1>9 DEF Rows, AsFigured
  <1>11. SavesEdit(t, c)
    BY <1>1, <1>2, <1>6, <1>7, <1>9, <1>10 DEF SavesEdit, old
  <1>12. UNCHANGED <<req, made, batches, logs, entries, feePaid, undone>> /\ Answered(t)
    BY DEF SaveEdit, Answered
  <1> QED
    BY <1>8, <1>10, <1>11, <1>12

LEMMA SaveEditOK ==
    ASSUME TypeInv, NEW t \in Tabs, SaveEdit(t)
    PROVE  StepOK
  <1>1. PICK c \in Rows : SavesEdit(t, c)
    BY SaveEditSaves
  <1>2. UNCHANGED <<req, made, batches, logs, entries, feePaid, undone>>
        /\ Answered(t) /\ (Event \/ UNCHANGED events)
    BY SaveEditSaves
  <1>3. \A r \in rows' : r \in rows \/ r = c
    BY <1>1, SavedOK DEF SavesEdit
  <1>4. RowsOK
    BY <1>2, <1>3 DEF RowsOK, TypeInv
  <1> QED
    BY <1>2, <1>4, AnsweredOK, EventOK, SameOK DEF StepOK, EventsOK

\* A line that is created has the next key, and whatever was typed.
LEMMA SaveCreateSaves ==
    ASSUME TypeInv, NEW t \in Tabs, SaveCreate(t)
    PROVE  /\ \E c \in Rows : c.id = made + 1 /\ c.paid = 0 /\ rows' = rows \cup {c}
           /\ made' = made + 1 /\ UNCHANGED <<req, batches, logs, entries, feePaid, undone>>
           /\ Answered(t) /\ (Event \/ UNCHANGED events)
  <1>1. made' = made + 1 /\ made + 1 \in Nat
    BY DEF SaveCreate, TypeInv
  <1>2. PICK m \in Members, k \in Months, loan \in Amounts(NoParts), savings \in Entry(Default) :
          /\ Line(m, k) = {} /\ ~Inserting(m, k)
          /\ TypedOver(loan # NoParts \/ savings # Default)
          /\ rows' = rows \cup {[Blankline(made', m, k) EXCEPT !.loan = loan, !.savings = savings]}
    BY DEF SaveCreate
  <1> DEFINE b == Blankline(made + 1, m, k)
             c == [b EXCEPT !.loan = loan, !.savings = savings]
  <1>3. NoParts \in Parts
    BY DEF NoParts, Parts
  <1>4. loan \in Parts /\ savings \in Nat
    BY <1>3, EntryNat, RollAssumption
  <1>5. b \in Rows /\ b.id = made + 1 /\ b.paid = 0 /\ b.asof = Unfigured
    BY <1>1, BlanklineOK
  <1>6. rows' = rows \cup {c}
    BY <1>1, <1>2
  <1> HIDE DEF b
  <1>7. c \in Rows /\ c.id = made + 1 /\ c.paid = 0
    BY <1>4, <1>5 DEF Rows, AsFigured
  <1>8. Event \/ UNCHANGED events
    BY <1>2 DEF TypedOver
  <1>9. UNCHANGED <<req, batches, logs, entries, feePaid, undone>> /\ Answered(t)
    BY DEF SaveCreate, Answered
  <1> HIDE DEF c
  <1> QED
    BY <1>1, <1>6, <1>7, <1>8, <1>9

LEMMA SaveCreateOK ==
    ASSUME TypeInv, NEW t \in Tabs, SaveCreate(t)
    PROVE  StepOK
  <1>1. /\ \E c \in Rows : c.id = made + 1 /\ c.paid = 0 /\ rows' = rows \cup {c}
        /\ made' = made + 1 /\ UNCHANGED <<req, batches, logs, entries, feePaid, undone>>
        /\ Answered(t) /\ (Event \/ UNCHANGED events)
    BY SaveCreateSaves
  <1>2. RowsOK
    BY <1>1 DEF RowsOK, TypeInv
  <1> QED
    BY <1>1, <1>2, AnsweredOK, EventOK, SameOK DEF StepOK, EventsOK

\* A line of the log that loses its key to the row keeps the rest.
Unlinked(l, id) == IF l.row = id THEN [l EXCEPT !.row = 0] ELSE l

\* All but the key stays.
LEMMA UnlinkedOK ==
    ASSUME NEW l \in Lines, NEW id
    PROVE  LET new == Unlinked(l, id)
           IN  /\ new \in Lines /\ new.batch = l.batch /\ new.member = l.member
               /\ new.fee = l.fee /\ new.known = l.known /\ new.fresh = l.fresh
               /\ new.several = l.several /\ new.short = l.short /\ new.over = l.over
  <1>1. CASE l.row = id
    BY <1>1 DEF Unlinked, Lines
  <1>2. CASE l.row # id
    BY <1>2 DEF Unlinked
  <1> QED
    BY <1>1, <1>2

\* A deletion takes the line, and its key from the log.
LEMMA DeleteOK ==
    ASSUME TypeInv, NEW t \in Tabs, Delete(t)
    PROVE  StepOK /\ logs' = {Unlinked(l, tab[t].form.id) : l \in logs}
  <1>1. logs' = {Unlinked(l, tab[t].form.id) : l \in logs}
    BY DEF Delete, Unlinked
  <1>2. logs' \in SUBSET Lines
    BY <1>1, UnlinkedOK DEF TypeInv
  <1>3. rows' \subseteq rows /\ UNCHANGED <<made, events>>
    BY DEF Delete
  <1>4. RowsOK
    BY <1>3 DEF RowsOK, TypeInv
  <1>5. UNCHANGED <<req, batches, entries, feePaid, undone>> /\ Answered(t)
    BY DEF Delete, Answered
  <1>6. LogsOK
    BY <1>2, <1>5 DEF LogsOK, TypeInv
  <1> QED
    BY <1>1, <1>3, <1>4, <1>5, <1>6, AnsweredOK, SameOK DEF StepOK

\* What is estimated for a member are loan parts.
LEMMA EstimateOK ==
    ASSUME NEW estimate \in [Members -> Estimates], NEW m \in Members
    PROVE  estimate[m] \in Parts
  BY RollAssumption

\* Lines that are generated have keys of their own.
Generates(who, k, id, estimate) ==
    /\ who \in SUBSET Members /\ k \in Months /\ id \in Keys(who)
    /\ estimate \in [Members -> Estimates]

LEMMA GenerateNew ==
    ASSUME TypeInv, NEW who, NEW k, NEW id, NEW estimate, Generates(who, k, id, estimate)
    PROVE  \A m \in who : LET n == Newline(id[m], m, k, estimate[m])
                          IN  n \in Rows /\ n.id = id[m] /\ n.member = m /\ n.month = k /\ n.paid = 0
  <1> SUFFICES ASSUME NEW m \in who
               PROVE  LET n == Newline(id[m], m, k, estimate[m])
                      IN  n \in Rows /\ n.id = id[m] /\ n.member = m /\ n.month = k /\ n.paid = 0
    OBVIOUS
  <1>1. m \in Members /\ k \in Months /\ id[m] \in Nat /\ estimate[m] \in Parts
    BY KeysOK, EstimateOK DEF Generates
  <1> QED
    BY <1>1, NewlineOK

LEMMA GenerateSaves ==
    ASSUME TypeInv, NEW t \in Tabs, Generate(t)
    PROVE  /\ \E who, k, id, estimate :
                /\ Generates(who, k, id, estimate) /\ made' = made + Cardinality(who)
                /\ rows' = rows \cup {Newline(id[m], m, k, estimate[m]) : m \in who}
           /\ UNCHANGED <<tab, req, batches, logs, entries, feePaid, undone, events>>
  <1>1. PICK k \in Months :
          /\ made' = made + Cardinality(Missing(Members, k))
          /\ \E id \in Keys(Missing(Members, k)), estimate \in [Members -> Estimates] :
               rows' = rows \cup {Newline(id[m], m, k, estimate[m]) : m \in Missing(Members, k)}
    BY DEF Generate
  <1> DEFINE who == Missing(Members, k)
  <1>2. who \in SUBSET Members
    BY MissingOK
  <1>3. PICK id \in Keys(who), estimate \in [Members -> Estimates] :
          rows' = rows \cup {Newline(id[m], m, k, estimate[m]) : m \in who}
    BY <1>1
  <1>4. Generates(who, k, id, estimate) /\ made' = made + Cardinality(who)
    BY <1>1, <1>2 DEF Generates
  <1>5. UNCHANGED <<tab, req, batches, logs, entries, feePaid, undone, events>>
    BY DEF Generate
  <1> HIDE DEF who
  <1> QED
    BY <1>3, <1>4, <1>5

LEMMA GenerateOK ==
    ASSUME TypeInv, NEW t \in Tabs, Generate(t)
    PROVE  StepOK
  <1>1. PICK who, k, id, estimate :
          /\ Generates(who, k, id, estimate) /\ made' = made + Cardinality(who)
          /\ rows' = rows \cup {Newline(id[m], m, k, estimate[m]) : m \in who}
    BY GenerateSaves
  <1>2. UNCHANGED <<tab, req, batches, logs, entries, feePaid, undone, events>>
    BY GenerateSaves
  <1>3. made' \in Nat
    BY <1>1, KeysOK DEF Generates
  <1>4. \A m \in who : Newline(id[m], m, k, estimate[m]) \in Rows
    BY <1>1, GenerateNew
  <1>5. RowsOK
    BY <1>1, <1>3, <1>4 DEF RowsOK, TypeInv
  <1> QED
    BY <1>2, <1>5, SameOK DEF StepOK

\* A generation that reads lines has copies of lines, figured again, and new
\* lines with keys of their own.
ReadsLines(q) ==
    /\ q \in LinesRead
    /\ \A c \in q.copies : \E r \in rows : c.id = r.id /\ c.member = r.member /\ c.month = r.month
    /\ \E who, k, id, estimate :
         /\ Generates(who, k, id, estimate) /\ made' = made + Cardinality(who)
         /\ q.new = {Newline(id[m], m, k, estimate[m]) : m \in who}
         /\ q.copies = {Figured(r, estimate[r.member]) : r \in {s \in rows : s.month = k}}

LEMMA ReadLinesOK ==
    ASSUME TypeInv, NEW t \in Tabs, ReadLines(t)
    PROVE  /\ StepOK /\ \E q \in LinesRead : ReadsLines(q) /\ req' = [req EXCEPT ![t] = q]
           /\ UNCHANGED <<tab, rows, batches, logs, entries, feePaid, undone, events>>
  <1> DEFINE k == req[t].month
             who == Missing(Members, k)
  <1>1. k \in Months
    BY StageOfRequest DEF TypeInv, ReadLines, At
  <1>2. who \in SUBSET Members
    BY MissingOK
  <1>3. made' = made + Cardinality(who)
        /\ UNCHANGED <<tab, rows, batches, logs, entries, feePaid, undone, events>>
    BY DEF ReadLines
  <1>4. PICK id \in Keys(who), estimate \in [Members -> Estimates] :
          req' = [req EXCEPT ![t] = [op |-> "regenerate", stage |-> "read", month |-> k,
            copies |-> {Figured(r, estimate[r.member]) : r \in {s \in rows : s.month = k}},
            new |-> {Newline(id[m], m, k, estimate[m]) : m \in who}]]
    BY DEF ReadLines
  <1> DEFINE copies == {Figured(r, estimate[r.member]) : r \in {s \in rows : s.month = k}}
             new == {Newline(id[m], m, k, estimate[m]) : m \in who}
             q == [op |-> "regenerate", stage |-> "read", month |-> k, copies |-> copies, new |-> new]
  <1>5. Generates(who, k, id, estimate)
    BY <1>1, <1>2 DEF Generates
  <1> HIDE DEF k, who
  <1>6. made' \in Nat
    BY <1>2, <1>3, KeysOK
  <1>7. \A r \in new : r \in Rows
    BY <1>5, GenerateNew
  <1>8. \A r \in rows : LET f == Figured(r, estimate[r.member])
                        IN  f \in Rows /\ f.id = r.id /\ f.member = r.member /\ f.month = r.month
    BY FiguredOK, EstimateOK DEF TypeInv, Rows
  <1>9. copies \subseteq Rows
        /\ \A c \in copies : \E r \in rows : c.id = r.id /\ c.member = r.member /\ c.month = r.month
    BY <1>8
  <1>10. req' = [req EXCEPT ![t] = q] /\ q.copies = copies /\ q.new = new
    BY <1>4
  <1>11. q \in LinesRead
    <2> HIDE DEF new, copies
    <2> QED
      BY <1>1, <1>7, <1>9 DEF LinesRead
  <1>12. ReadsLines(q)
    <2> HIDE DEF q
    <2> QED
      BY <1>3, <1>5, <1>9, <1>10, <1>11 DEF ReadsLines
  <1> HIDE DEF q
  <1>13. q \in Requests
    BY <1>11 DEF Requests
  <1>14. ReqsOK
    BY <1>10, <1>13, OneReq
  <1>15. RowsOK
    BY <1>3, <1>6 DEF RowsOK, TypeInv
  <1> QED
    BY <1>3, <1>10, <1>11, <1>12, <1>14, <1>15, SameOK DEF StepOK

\* Saving them collides, or leaves lines.
LEMMA SaveLinesOK ==
    ASSUME TypeInv, NEW t \in Tabs, SaveLines(t)
    PROVE  /\ StepOK /\ Passes(t)
           /\ UNCHANGED <<logs, feePaid, undone, batches>>
  <1>1. CASE Clash(req[t].copies)
    <2>1. Fail(t)
      BY <1>1 DEF SaveLines
    <2> QED
      BY <2>1, FailPasses, PassesStep DEF dbVars
  <1>2. CASE ~Clash(req[t].copies)
    <2> DEFINE q == req[t]
               marked == {[c EXCEPT !.altered = Overlays(c)] : c \in q.copies}
    <2>1. q \in LinesRead
      BY StageOfRequest DEF TypeInv, SaveLines, At
    <2>2. rows' = Saved(marked \cup q.new) /\ req' = [req EXCEPT ![t] = NoReq]
          /\ UNCHANGED <<tab, made, batches, logs, entries, feePaid, undone, events>>
      BY <1>2 DEF SaveLines, Ends
    <2>3. q.copies \subseteq Rows /\ q.new \subseteq Rows
      BY <2>1 DEF LinesRead
    <2>4. \A c \in q.copies : [c EXCEPT !.altered = Overlays(c)] \in Rows
      BY <2>3, AlteredOK, OverlaysBool
    <2>5. \A r \in rows' : r \in rows \/ r \in marked \/ r \in q.new
      BY <2>2, SavedOK
    <2>6. RowsOK
      BY <2>2, <2>3, <2>4, <2>5 DEF RowsOK, TypeInv
    <2>7. Passes(t)
      BY <2>2 DEF Passes, Passing
    <2>8. ReqsOK
      BY <2>7, PassingOK, OneReq DEF Passes
    <2> QED
      BY <2>2, <2>6, <2>7, <2>8, SameOK DEF StepOK
  <1> QED
    BY <1>1, <1>2

\* A batch is numbered on.
LEMMA SaveBatchOK ==
    ASSUME TypeInv, NEW t \in Tabs, SaveBatch(t)
    PROVE  /\ StepOK
           /\ \E r \in BatchSaved : r.batch = batches + 1 /\ req' = [req EXCEPT ![t] = r]
           /\ UNCHANGED <<tab, rows, made, logs, entries, feePaid, undone, events>>
           /\ batches' = batches + 1
  <1> DEFINE q == [op |-> "upload", stage |-> "saved", file |-> req[t].file,
                   month |-> req[t].month, batch |-> batches + 1]
  <1>1. req[t].file \in PerMember(Remitted) /\ req[t].month \in Months
    BY StageOfRequest DEF TypeInv, SaveBatch, At
  <1>2. q \in BatchSaved /\ q.batch = batches + 1
    BY <1>1 DEF BatchSaved, TypeInv
  <1>3. req' = [req EXCEPT ![t] = q]
    BY DEF SaveBatch, TypeInv
  <1> HIDE DEF q
  <1>4. q \in Requests
    BY <1>2 DEF Requests
  <1>5. ReqsOK
    BY <1>3, <1>4, OneReq
  <1>6. UNCHANGED <<tab, rows, made, logs, entries, feePaid, undone, events>>
        /\ batches' = batches + 1
    BY DEF SaveBatch
  <1>7. LogsOK
    BY <1>6 DEF LogsOK, TypeInv
  <1> QED
    BY <1>2, <1>3, <1>5, <1>6, <1>7, SameOK DEF StepOK

\* The fees that an upload knows to be in when it reads.
KnownFees == {<<l.member, l.batch>> : l \in {x \in logs : x.fee}} \ undone

\* An upload that reads has copies of the lines of its file, and new lines
\* with keys of their own that expect no fee.
ReadsFile(q) ==
    /\ q \in FileRead /\ OfItsFile(q) /\ q.copies \subseteq rows
    /\ q.exempt = feePaid /\ q.known = KnownFees
    /\ \E who \in SUBSET Members, k \in Months : \E id \in Keys(who) :
         made' = made + Cardinality(who) /\ q.new = {Blankline(id[m], m, k) : m \in who}

LEMMA ReadFileOK ==
    ASSUME TypeInv, NEW t \in Tabs, ReadFile(t)
    PROVE  /\ StepOK /\ req[t] \in BatchSaved
           /\ \E q \in FileRead : /\ ReadsFile(q) /\ q.batch = req[t].batch
                                  /\ req' = [req EXCEPT ![t] = q]
           /\ UNCHANGED <<tab, rows, batches, logs, entries, feePaid, undone, events>>
  <1> DEFINE q == req[t]
             k == q.month
             named == DOMAIN q.file
             who == Missing(named, k)
             copies == {r \in rows : r.member \in named /\ r.month = k}
             due == [m \in named |-> Snapshot(m, k)]
  <1>1. q \in BatchSaved
    BY StageOfRequest DEF TypeInv, ReadFile, At
  <1>2. q.file \in PerMember(Remitted) /\ k \in Months /\ q.batch \in Nat
    BY <1>1 DEF BatchSaved
  <1>3. named \in SUBSET Members
    BY <1>2, PerMemberOK
  <1>4. made' = made + Cardinality(who)
        /\ UNCHANGED <<tab, rows, batches, logs, entries, feePaid, undone, events>>
    BY DEF ReadFile
  <1>5. PICK id \in Keys(who) :
          req' = [req EXCEPT ![t] = [op |-> "upload", stage |-> "read", file |-> q.file, month |-> k,
                    batch |-> q.batch, copies |-> copies,
                    new |-> {Blankline(id[m], m, k) : m \in who},
                    due |-> due, exempt |-> feePaid, known |-> KnownFees]]
    BY DEF ReadFile, KnownFees
  <1>6. who \in SUBSET named
    BY DEF Missing
  <1> DEFINE new == {Blankline(id[m], m, k) : m \in who}
             r == [op |-> "upload", stage |-> "read", file |-> q.file, month |-> k,
                   batch |-> q.batch, copies |-> copies, new |-> new,
                   due |-> due, exempt |-> feePaid, known |-> KnownFees]
  <1> HIDE DEF who
  <1>7. who \in SUBSET Members /\ made' \in Nat /\ \A m \in who : id[m] \in Nat /\ m \in Members
    BY <1>3, <1>4, <1>6, KeysOK
  <1>8. due \in [named -> Snapshots]
    BY SnapshotOK
  <1>9. due \in PerMember(Snapshots) /\ DOMAIN due = named
    BY <1>3, <1>8 DEF PerMember
  <1>10. KnownFees \in SUBSET (Members \X Nat)
    BY DEF KnownFees, TypeInv, Lines
  <1>11. req' = [req EXCEPT ![t] = r]
    BY <1>5
  <1>12. r.file = q.file /\ r.month = k /\ r.copies = copies /\ r.new = new /\ r.due = due
         /\ r.batch = q.batch /\ r.exempt = feePaid /\ r.known = KnownFees
    OBVIOUS
  <1> HIDE DEF due
  <1>13. \A c \in copies : c \in Rows /\ c.member \in named /\ c.month = k /\ c \in rows
    BY DEF TypeInv
  <1> HIDE DEF q, k, named, copies
  <1>14. \A m \in who : LET b == Blankline(id[m], m, k)
                        IN  b \in Rows /\ b.member = m /\ b.month = k
    BY <1>2, <1>7, BlanklineOK
  <1>15. \A s \in new : s \in Rows /\ s.member \in named /\ s.month = k
    BY <1>6, <1>14
  <1>16. \E w \in SUBSET Members, j \in Months : \E i \in Keys(w) :
           made' = made + Cardinality(w) /\ new = {Blankline(i[m], m, j) : m \in w}
    BY <1>2, <1>4, <1>7
  <1> HIDE DEF new
  <1>17. r \in FileRead
    BY <1>2, <1>9, <1>10, <1>13, <1>15 DEF FileRead, TypeInv
  <1> HIDE DEF r
  <1>18. OfItsFile(r)
    BY <1>9, <1>12, <1>13, <1>15 DEF OfItsFile, named
  <1>19. r \in Requests
    BY <1>17, <1>18 DEF Requests
  <1>20. ReadsFile(r)
    BY <1>12, <1>13, <1>16, <1>17, <1>18 DEF ReadsFile
  <1>21. ReqsOK
    BY <1>11, <1>19, OneReq
  <1>22. RowsOK
    BY <1>4, <1>7 DEF RowsOK, TypeInv
  <1>23. StepOK
    BY <1>4, <1>21, <1>22, SameOK DEF StepOK
  <1> QED
    BY <1>1, <1>4, <1>11, <1>12, <1>17, <1>20, <1>23 DEF q

\* A commit leaves lines.
LEMMA CommitOK ==
    ASSUME TypeInv, NEW t \in Tabs, Committing(t)
    PROVE  StepOK /\ Passes(t)
  <1> DEFINE q == req[t]
             marked == {AfterUpload(q, [r EXCEPT !.altered = Overlays(r)]) : r \in q.copies}
             inserted == {AfterUpload(q, r) : r \in q.new}
  <1>1. q \in FileRead /\ OfItsFile(q)
    BY DEF Committing
  <1>2. /\ q.copies \subseteq Rows /\ q.new \subseteq Rows
        /\ \A r \in q.copies \cup q.new : r.member \in DOMAIN q.file
    BY <1>1 DEF FileRead, OfItsFile
  <1>3. /\ rows' = Saved(marked \cup inserted)
        /\ logs' = logs \cup {Log(q, r) : r \in q.copies \cup q.new}
        /\ feePaid' = feePaid \cup {r.member : r \in {s \in q.copies :
                                      PaysFee(s, q.file[s.member], q.exempt)}}
        /\ req' = [req EXCEPT ![t] = NoReq]
        /\ entries' \in [Installments -> Entries]
        /\ UNCHANGED <<tab, made, batches, undone, events>>
    BY DEF Committing
  <1> HIDE DEF q
  <1>4. ASSUME NEW r \in q.copies
        PROVE  AfterUpload(q, [r EXCEPT !.altered = Overlays(r)]) \in Rows
    <2>1. [r EXCEPT !.altered = Overlays(r)] \in Rows
          /\ [r EXCEPT !.altered = Overlays(r)].member = r.member
      BY <1>2, AlteredOK, OverlaysBool
    <2> QED
      BY <1>1, <1>2, <2>1, AfterUploadOK
  <1>5. \A r \in q.new : AfterUpload(q, r) \in Rows
    BY <1>1, <1>2, AfterUploadOK
  <1>6. \A r \in rows' : r \in rows \/ r \in marked \/ r \in inserted
    BY <1>3, SavedOK
  <1>7. \A r \in marked \cup inserted : r \in Rows
    BY <1>4, <1>5
  <1> HIDE DEF marked, inserted
  <1>8. RowsOK
    BY <1>3, <1>6, <1>7 DEF RowsOK, TypeInv
  <1>9. \A r \in q.copies \cup q.new : Log(q, r) \in Lines
    BY <1>1, LogOK
  <1>10. LogsOK
    BY <1>2, <1>3, <1>9 DEF LogsOK, TypeInv, Rows
  <1>11. Passes(t)
    BY <1>3 DEF Passes, Passing
  <1>12. ReqsOK
    BY <1>11, PassingOK, OneReq DEF Passes
  <1> QED
    BY <1>3, <1>8, <1>10, <1>11, <1>12, SameOK DEF StepOK, EntriesOK

\* An edit of a member sets the flag, or takes it and the fees back.
LEMMA SaveMemberOK ==
    ASSUME TypeInv, NEW m \in Members, SaveMember(m)
    PROVE  /\ StepOK /\ UNCHANGED <<tab, req, rows, made, batches, logs>>
           /\ \/ feePaid \subseteq feePaid' /\ UNCHANGED undone
              \/ /\ \A n \in Members : n # m => (n \in feePaid <=> n \in feePaid')
                 /\ undone \subseteq undone'
                 /\ \A l \in logs : l.member = m /\ l.fee => <<l.member, l.batch>> \in undone'
  <1>1. /\ UNCHANGED <<tab, req, rows, made, batches, logs, entries>> /\ Event
        /\ \/ feePaid' = feePaid \cup {m} /\ UNCHANGED undone
           \/ /\ feePaid' = feePaid \ {m}
              /\ undone' = undone \cup {<<m, l.batch>> : l \in {x \in logs : x.member = m /\ x.fee}}
    BY DEF SaveMember
  <1>2. \A l \in logs : l.batch \in Nat
    BY DEF TypeInv, Lines
  <1>3. LogsOK
    BY <1>1, <1>2 DEF LogsOK, TypeInv
  <1>4. StepOK
    BY <1>1, <1>3, SameOK, EventOK DEF StepOK, EventsOK
  <1>5. CASE feePaid' = feePaid \cup {m} /\ UNCHANGED undone
    BY <1>1, <1>4, <1>5
  <1>6. CASE /\ feePaid' = feePaid \ {m}
             /\ undone' = undone \cup {<<m, l.batch>> : l \in {x \in logs : x.member = m /\ x.fee}}
    BY <1>1, <1>4, <1>6
  <1> QED
    BY <1>1, <1>5, <1>6

\* What happens to a loan elsewhere leaves installments.
LEMMA TurnOK ==
    ASSUME TypeInv, NEW n \in Loans, Turn(n)
    PROVE  StepOK /\ UNCHANGED <<tab, req, rows, made, batches, logs, feePaid, undone>>
  <1>1. PICK new \in Standings :
          /\ entries' = [i \in Installments |->
               IF Of[i] = n THEN [entries[i] EXCEPT !.standing = new] ELSE entries[i]]
          /\ OfLoans
    BY DEF Turn, Stand, Standings
  <1>2. \A i \in Installments : entries[i] \in Entries
    BY DEF TypeInv
  <1>3. \A e \in Entries : [e EXCEPT !.standing = new] \in Entries
    BY DEF Entries
  <1>4. EntriesOK
    BY <1>1, <1>2, <1>3 DEF EntriesOK
  <1> QED
    BY <1>1, <1>4, SameOK, EventOK DEF StepOK, EventsOK, OfLoans

\* So does a payment at the counter.
LEMMA PayAtCounterOK ==
    ASSUME TypeInv, NEW i \in Installments, PayAtCounter(i)
    PROVE  StepOK /\ UNCHANGED <<tab, req, rows, made, batches, logs, feePaid, undone>>
  <1> DEFINE e == entries[i]
             interest == Remaining(DueInterest, e.interest)
             principal == Remaining(DuePrincipal, e.principal)
  <1>1. e \in Entries
    BY DEF TypeInv
  <1>2. interest \in Nat /\ principal \in Nat /\ e.interest \in Nat /\ e.principal \in Nat
    BY <1>1, RemainingNat, RollAssumption DEF Entries
  <1>3. PICK n \in 1..(interest + principal) :
          LET paidI == e.interest + Least(n, interest)
              paidP == e.principal + Greater(0, n - interest) IN
          entries' = [entries EXCEPT ![i] = [e EXCEPT !.interest = paidI, !.principal = paidP,
                                                      !.settled = Settled(paidI, paidP)]]
    BY DEF PayAtCounter
  <1> DEFINE paidI == e.interest + Least(n, interest)
             paidP == e.principal + Greater(0, n - interest)
             settled == Settled(paidI, paidP)
             new == [e EXCEPT !.interest = paidI, !.principal = paidP, !.settled = settled]
  <1>4. paidI \in Nat /\ paidP \in Nat
    <2> HIDE DEF e, interest, principal
    <2> QED
      BY <1>2, <1>3 DEF Least, Greater
  <1>5. settled \in BOOLEAN
    BY DEF Settled
  <1>6. entries' = [entries EXCEPT ![i] = new]
    BY <1>3
  <1>7. new \in Entries
    <2>1. settled = Settled(paidI, paidP)
      OBVIOUS
    <2> HIDE DEF paidI, paidP, settled, e
    <2> QED
      BY <1>1, <1>4, <1>5, <2>1 DEF Entries
  <1> HIDE DEF new
  <1>8. EntriesOK
    BY <1>6, <1>7 DEF EntriesOK, TypeInv
  <1>9. OfLoans
    BY DEF PayAtCounter
  <1> QED
    BY <1>8, <1>9, SameOK, EventOK DEF StepOK, EventsOK, OfLoans

\* The steps of the pages, one by one.
LEMMA PageKinds ==
    ASSUME NEW t \in Tabs, Page(t)
    PROVE  \/ Looks(t) \/ SaveEdit(t) \/ SaveCreate(t) \/ Generate(t) \/ Delete(t)
           \/ Regenerate(t) \/ Upload(t)
  BY DEF Page, Looks

\* Those of the server.
LEMMA ServerKinds ==
    ASSUME TypeInv, NEW t \in Tabs, Server(t)
    PROVE  \/ ReadLines(t) \/ SaveLines(t) \/ SaveBatch(t) \/ ReadFile(t) \/ Committing(t)
           \/ Fail(t)
  BY CommitKinds DEF Server, Die

\* The steps, sorted by what they do to uploads and their log.
LEMMA Sorted ==
    ASSUME TypeInv, [Next]_vars
    PROVE  \/ UNCHANGED <<req, batches, logs, feePaid, undone>> /\ StepOK
           \/ \E m \in Members : SaveMember(m)
           \/ \E t \in Tabs :
                \/ Passes(t) /\ UNCHANGED <<batches, logs, feePaid, undone>> /\ StepOK
                \/ Delete(t) \/ ReadLines(t) \/ SaveBatch(t) \/ ReadFile(t) \/ Committing(t)
  <1>1. CASE UNCHANGED vars
    BY <1>1, SameOK DEF vars, dbVars, StepOK
  <1>2. CASE \/ \E n \in Loans : Turn(n)
             \/ \E i \in Installments : PayAtCounter(i)
    BY <1>2, TurnOK, PayAtCounterOK
  <1>3. ASSUME NEW t \in Tabs, Looks(t)
        PROVE  UNCHANGED <<req, batches, logs, feePaid, undone>> /\ StepOK
    <2>1. TabsOK /\ UNCHANGED <<req, dbVars>>
      BY <1>3, LooksOK
    <2> QED
      BY <2>1, SameOK DEF StepOK, dbVars
  <1>4. ASSUME NEW t \in Tabs, SaveEdit(t) \/ SaveCreate(t) \/ Generate(t)
        PROVE  UNCHANGED <<req, batches, logs, feePaid, undone>> /\ StepOK
    BY <1>4, SaveEditOK, SaveCreateOK, GenerateOK, SaveEditSaves, SaveCreateSaves, GenerateSaves
  <1>5. ASSUME NEW t \in Tabs, Regenerate(t) \/ Upload(t) \/ Fail(t)
        PROVE  Passes(t) /\ UNCHANGED <<batches, logs, feePaid, undone>> /\ StepOK
    <2>1. Passes(t) /\ UNCHANGED <<tab, dbVars>>
      BY <1>5, SendsPass, FailPasses
    <2> QED
      BY <2>1, PassesStep DEF dbVars
  <1>6. ASSUME NEW t \in Tabs, SaveLines(t)
        PROVE  Passes(t) /\ UNCHANGED <<batches, logs, feePaid, undone>> /\ StepOK
    BY <1>6, SaveLinesOK
  <1>7. ASSUME NEW t \in Tabs, Page(t) \/ Server(t)
        PROVE  \/ UNCHANGED <<req, batches, logs, feePaid, undone>> /\ StepOK
               \/ Passes(t) /\ UNCHANGED <<batches, logs, feePaid, undone>> /\ StepOK
               \/ Delete(t) \/ ReadLines(t) \/ SaveBatch(t) \/ ReadFile(t) \/ Committing(t)
    BY <1>3, <1>4, <1>5, <1>6, <1>7, PageKinds, ServerKinds
  <1> QED
    BY <1>1, <1>2, <1>7 DEF Next

\* Every step is sound.
LEMMA EveryStepOK ==
    ASSUME TypeInv, [Next]_vars
    PROVE  StepOK
  BY Sorted, SaveMemberOK, DeleteOK, ReadLinesOK, SaveBatchOK, ReadFileOK, CommitOK

\* At the start there is nothing to go wrong.
LEMMA InitOK == Init => TypeInv /\ FeeInv /\ LoanPartReachesSchedule
  <1> SUFFICES ASSUME Init PROVE TypeInv /\ FeeInv /\ LoanPartReachesSchedule
    OBVIOUS
  <1>1. NoReq \in Passing /\ \A t \in Tabs : req[t] = NoReq
    BY DEF Init, Passing
  <1>2. tab \in [Tabs -> Screen]
    <2>1. PICK at \in [Tabs -> Screens] : tab = [t \in Tabs |-> Blank(at[t])]
      BY DEF Init
    <2>2. \A s \in Screens : Blank(s) \in Screen
      BY DEF Screen, Pictures, Blank, NoForm
    <2> QED
      BY <2>1, <2>2
  <1>3. entries \in [Installments -> Entries]
    <2>1. PICK standing \in [Loans -> {"none", "active"}] :
            entries = [i \in Installments |->
              [standing |-> standing[Of[i]], interest |-> 0, principal |-> 0,
               settled |-> Settled(0, 0)]]
      BY DEF Init
    <2>2. \A i \in Installments : standing[Of[i]] \in Standings
      BY RollAssumption DEF Standings
    <2>3. Settled(0, 0) \in BOOLEAN
      BY DEF Settled
    <2>4. \A s \in Standings :
            [standing |-> s, interest |-> 0, principal |-> 0, settled |-> Settled(0, 0)] \in Entries
      BY <2>3 DEF Entries
    <2> QED
      BY <2>1, <2>2, <2>4
  <1>4. TypeInv
    BY <1>1, <1>2, <1>3, PassingOK DEF Init, TypeInv
  <1>5. \A t \in Tabs : req[t] \notin LinesRead \cup FileRead \cup BatchSaved
    BY <1>1, PassingOK
  <1>6. logs = {} /\ Committed = {}
    BY DEF Init, Committed
  <1>7. FeeInv
    BY <1>5, <1>6 DEF FeeInv, BatchesApart, Begun, KnownFirst, KnownPays, FeeTakenOnce
  <1>8. LoanPartReachesSchedule
    BY <1>6 DEF LoanPartReachesSchedule
  <1> QED
    BY <1>4, <1>7, <1>8

\* Every variable keeps its type: an installment is marked as settled exactly
\* when it is paid, a line asks for what the schedule asks for that it was
\* figured from, a form of an edit is a line, and an upload works on the lines
\* of its file.
THEOREM RollTypes == Spec => []TypeInv
  <1>1. Init => TypeInv
    BY InitOK
  <1>2. TypeInv /\ [Next]_vars => TypeInv'
    BY EveryStepOK, StepKeeps
  <1> QED
    BY <1>1, <1>2, PTL DEF Spec

-----------------------------------------------------------------------------
\* The fee

\* Steps that touch no upload that goes on, and not the log.
LEMMA SameFees ==
    ASSUME TypeInv, FeeInv, UNCHANGED <<batches, logs, feePaid, undone>>,
           \A u \in Tabs : req'[u] \in BatchSaved \cup FileRead => req'[u] = req[u]
    PROVE  FeeInv'
  <1>1. Committed' = Committed
    BY DEF Committed
  <1>2. BatchesApart'
    BY <1>1 DEF FeeInv, BatchesApart, Begun
  <1>3. KnownFirst'
    BY <1>1 DEF FeeInv, KnownFirst
  <1>4. KnownPays'
    BY DEF FeeInv, KnownPays
  <1>5. FeeTakenOnce'
    BY DEF FeeInv, FeeTakenOnce
  <1> QED
    BY <1>2, <1>3, <1>4, <1>5 DEF FeeInv

\* One upload goes on, and the others stay as they are.
LEMMA OtherReqs ==
    ASSUME TypeInv, NEW t \in Tabs, NEW r, req' = [req EXCEPT ![t] = r]
    PROVE  req'[t] = r /\ \A u \in Tabs : u # t => req'[u] = req[u]
  BY DEF TypeInv

\* An edit of a member sets the flag, or takes the fee back that was known.
LEMMA SaveMemberFees ==
    ASSUME TypeInv, FeeInv, NEW m \in Members, SaveMember(m)
    PROVE  FeeInv'
  <1>1. /\ UNCHANGED <<tab, req, rows, made, batches, logs>>
        /\ \/ feePaid \subseteq feePaid' /\ UNCHANGED undone
           \/ /\ \A n \in Members : n # m => (n \in feePaid <=> n \in feePaid')
              /\ undone \subseteq undone'
              /\ \A l \in logs : l.member = m /\ l.fee => <<l.member, l.batch>> \in undone'
    BY SaveMemberOK
  <1>2. BatchesApart' /\ KnownFirst' /\ FeeTakenOnce'
    BY <1>1 DEF FeeInv, BatchesApart, KnownFirst, FeeTakenOnce, Committed, Begun
  <1>3. ASSUME NEW l \in logs, l.fee, <<l.member, l.batch>> \notin undone'
        PROVE  l.member \in feePaid'
    <2>1. l.member \in Members /\ <<l.member, l.batch>> \notin undone
      BY <1>1, <1>3 DEF TypeInv, Lines
    <2>2. l.member \in feePaid
      BY <1>3, <2>1 DEF FeeInv, KnownPays
    <2> QED
      BY <1>1, <1>3, <2>1, <2>2
  <1>4. KnownPays'
    BY <1>1, <1>3 DEF FeeInv, KnownPays
  <1> QED
    BY <1>2, <1>4 DEF FeeInv

\* A deletion changes the key to the row, which the fee has nothing to do with.
LEMMA DeleteFees ==
    ASSUME TypeInv, FeeInv, NEW t \in Tabs, Delete(t)
    PROVE  FeeInv'
  <1> DEFINE id == tab[t].form.id
  <1>1. logs' = {Unlinked(l, id) : l \in logs}
    BY DeleteOK
  <1>2. UNCHANGED <<req, batches, feePaid, undone>>
    BY DEF Delete, Answered
  <1> HIDE DEF id
  <1>3. ASSUME NEW l \in logs'
        PROVE  \E o \in logs :
                 /\ l = Unlinked(o, id) /\ l.batch = o.batch /\ l.member = o.member
                 /\ l.fee = o.fee /\ l.known = o.known
    BY <1>1, <1>3, UnlinkedOK DEF TypeInv
  <1>4. Committed' = Committed
    <2>1. \A o \in logs : Unlinked(o, id) \in logs' /\ Unlinked(o, id).batch = o.batch
      BY <1>1, UnlinkedOK DEF TypeInv
    <2> QED
      BY <1>3, <2>1 DEF Committed
  <1>5. BatchesApart'
    BY <1>2, <1>4 DEF FeeInv, BatchesApart, Begun
  <1>6. KnownFirst'
    BY <1>2, <1>3, <1>4 DEF FeeInv, KnownFirst
  <1>7. KnownPays'
    <2>1. ASSUME NEW l \in logs', l.fee, <<l.member, l.batch>> \notin undone
          PROVE  l.member \in feePaid
      BY <1>3, <2>1 DEF FeeInv, KnownPays
    <2> QED
      BY <1>2, <2>1 DEF FeeInv, KnownPays
  <1>8. FeeTakenOnce'
    <2> SUFFICES ASSUME NEW l \in logs', NEW o \in logs', l # o, l.member = o.member, l.fee, o.fee
                 PROVE  l.batch \notin o.known /\ o.batch \notin l.known
      BY DEF FeeTakenOnce
    <2>1. PICK l0 \in logs : l = Unlinked(l0, id) /\ l.batch = l0.batch /\ l.member = l0.member
                             /\ l.fee = l0.fee /\ l.known = l0.known
      BY <1>3
    <2>2. PICK o0 \in logs : o = Unlinked(o0, id) /\ o.batch = o0.batch /\ o.member = o0.member
                             /\ o.fee = o0.fee /\ o.known = o0.known
      BY <1>3
    <2>3. l0 # o0 /\ l0.member = o0.member /\ l0.fee /\ o0.fee
      BY <2>1, <2>2
    <2>4. l0.batch \notin o0.known /\ o0.batch \notin l0.known
      BY <2>3 DEF FeeInv, FeeTakenOnce
    <2> QED
      BY <2>1, <2>2, <2>4
  <1> QED
    BY <1>5, <1>6, <1>7, <1>8 DEF FeeInv

\* A batch that is saved is the highest so far.
LEMMA SaveBatchFees ==
    ASSUME TypeInv, FeeInv, NEW t \in Tabs, SaveBatch(t)
    PROVE  FeeInv'
  <1>1. PICK r \in BatchSaved : r.batch = batches + 1 /\ req' = [req EXCEPT ![t] = r]
    BY SaveBatchOK
  <1>2. UNCHANGED <<logs, feePaid, undone>> /\ batches' = batches + 1 /\ batches \in Nat
    BY SaveBatchOK DEF TypeInv
  <1>3. Committed' = Committed
    BY <1>2 DEF Committed
  <1>4. r \notin FileRead
    BY DEF BatchSaved, FileRead
  <1>5. req'[t] = r /\ \A u \in Tabs : u # t => req'[u] = req[u]
    BY <1>1, OtherReqs
  <1>6. Committed \subseteq Nat /\ \A u \in Tabs : Begun(u) => req[u].batch \in Nat
    BY DEF Committed, TypeInv, Lines, Begun, BatchSaved, FileRead
  <1>7. \A b \in Committed : b <= batches
    BY DEF FeeInv, BatchesApart
  <1>8. \A u \in Tabs : Begun(u) => req[u].batch <= batches /\ req[u].batch \notin Committed
    BY DEF FeeInv, BatchesApart
  <1>9. \A u, v \in Tabs : Begun(u) /\ Begun(v) /\ u # v => req[u].batch # req[v].batch
    BY DEF FeeInv, BatchesApart
  <1>10. \A u \in Tabs : u # t => (Begun(u)' <=> Begun(u))
    BY <1>5 DEF Begun
  <1>11. BatchesApart'
    <2>1. \A b \in Committed : b <= batches + 1
      BY <1>2, <1>6, <1>7
    <2>2. \A u \in Tabs : Begun(u)' => req'[u].batch <= batches + 1 /\ req'[u].batch \notin Committed
      <3>1. batches + 1 \notin Committed
        BY <1>2, <1>6, <1>7
      <3> QED
        BY <1>1, <1>2, <1>5, <1>6, <1>8, <1>10, <3>1
    <2>3. ASSUME NEW u \in Tabs, NEW v \in Tabs, Begun(u)', Begun(v)', u # v
          PROVE  req'[u].batch # req'[v].batch
      BY <1>1, <1>2, <1>5, <1>6, <1>8, <1>9, <1>10, <2>3
    <2> QED
      BY <1>2, <1>3, <2>1, <2>2, <2>3 DEF BatchesApart
  <1>12. KnownFirst'
    BY <1>2, <1>3, <1>4, <1>5 DEF FeeInv, KnownFirst
  <1>13. KnownPays'
    BY <1>2, <1>4, <1>5 DEF FeeInv, KnownPays
  <1>14. FeeTakenOnce'
    BY <1>2 DEF FeeInv, FeeTakenOnce
  <1> QED
    BY <1>11, <1>12, <1>13, <1>14 DEF FeeInv

\* An upload that reads exempts those who have paid, so all whose fee it knows.
LEMMA ReadFileFees ==
    ASSUME TypeInv, FeeInv, NEW t \in Tabs, ReadFile(t)
    PROVE  FeeInv'
  <1>1. PICK r \in FileRead : ReadsFile(r) /\ r.batch = req[t].batch
                              /\ req' = [req EXCEPT ![t] = r]
    BY ReadFileOK
  <1>2. req[t] \in BatchSaved /\ UNCHANGED <<batches, logs, feePaid, undone>>
    BY ReadFileOK
  <1>3. Committed' = Committed
    BY <1>2 DEF Committed
  <1>4. req'[t] = r /\ \A u \in Tabs : u # t => req'[u] = req[u]
    BY <1>1, OtherReqs
  <1>5. \A u \in Tabs : (Begun(u)' => Begun(u)) /\ (Begun(u) => req'[u].batch = req[u].batch)
    BY <1>1, <1>2, <1>4 DEF Begun
  <1>6. BatchesApart'
    <2>1. \A u \in Tabs : Begun(u)' => req'[u].batch <= batches /\ req'[u].batch \notin Committed
      BY <1>5 DEF FeeInv, BatchesApart
    <2>2. ASSUME NEW u \in Tabs, NEW v \in Tabs, Begun(u)', Begun(v)', u # v
          PROVE  req'[u].batch # req'[v].batch
      BY <1>5, <2>2 DEF FeeInv, BatchesApart
    <2>3. \A b \in Committed : b <= batches
      BY DEF FeeInv, BatchesApart
    <2> QED
      BY <1>2, <1>3, <2>1, <2>2, <2>3 DEF BatchesApart
  <1>7. \A p \in r.known : p[1] \in r.exempt /\ p[2] \in Committed
    <2>1. r.exempt = feePaid /\ r.known = KnownFees
      BY <1>1 DEF ReadsFile
    <2>2. ASSUME NEW p \in KnownFees PROVE p[1] \in feePaid /\ p[2] \in Committed
      <3>1. PICK l \in logs : l.fee /\ p = <<l.member, l.batch>> /\ p \notin undone
        BY <2>2 DEF KnownFees
      <3> QED
        BY <3>1 DEF FeeInv, KnownPays, Committed
    <2> QED
      BY <2>1, <2>2
  <1>8. \A s \in r.new : s.fee = 0
    BY <1>1 DEF ReadsFile, Blankline
  <1>9. KnownFirst'
    BY <1>2, <1>3, <1>4, <1>7 DEF FeeInv, KnownFirst
  <1>10. KnownPays'
    BY <1>2, <1>4, <1>7, <1>8 DEF FeeInv, KnownPays
  <1>11. FeeTakenOnce'
    BY <1>2 DEF FeeInv, FeeTakenOnce
  <1> QED
    BY <1>6, <1>9, <1>10, <1>11 DEF FeeInv

\* A line of a commit: it has the batch, and whoever pays the fee with it was
\* not known to have paid.
LEMMA LogFees ==
    ASSUME TypeInv, FeeInv, NEW t \in Tabs, Committing(t),
           NEW r \in req[t].copies \cup req[t].new
    PROVE  LET l == Log(req[t], r)
           IN  /\ l.batch = req[t].batch /\ l.known \subseteq Committed
               /\ l.fee => l.known = {} /\ l.member \in feePaid'
  <1> DEFINE q == req[t]
             l == Log(q, r)
  <1>1. q \in FileRead /\ OfItsFile(q)
    BY DEF Committing
  <1>2. /\ l.batch = q.batch /\ l.member = r.member
        /\ l.fee <=> PaysFee(r, q.file[r.member], q.exempt)
        /\ \A b \in l.known : <<r.member, b>> \in q.known
    BY <1>1, LogOK
  <1>3. \A p \in q.known : p[1] \in q.exempt /\ p[2] \in Committed
    BY <1>1 DEF FeeInv, KnownFirst, KnownPays
  <1>4. \A b \in l.known : r.member \in q.exempt /\ b \in Committed
    BY <1>2, <1>3
  <1>5. r \in Rows
    BY <1>1 DEF FileRead
  <1>6. ASSUME l.fee PROVE l.known = {} /\ l.member \in feePaid'
    <2>1. PaysFee(r, q.file[r.member], q.exempt)
      BY <1>2, <1>6
    <2>2. r.fee > 0 /\ r.member \notin q.exempt
      BY <1>5, <2>1 DEF PaysFee, FeePart, Rows
    <2>3. r \in q.copies
      BY <1>1, <2>2 DEF FeeInv, KnownPays
    <2>4. r.member \in feePaid'
      BY <2>1, <2>3 DEF Committing
    <2> QED
      BY <1>2, <1>4, <2>2, <2>4
  <1> QED
    BY <1>2, <1>4, <1>6

\* A commit logs its batch once, and takes the fee of nobody it knows to have
\* paid.
LEMMA CommitFees ==
    ASSUME TypeInv, FeeInv, NEW t \in Tabs, Committing(t)
    PROVE  FeeInv'
  <1> DEFINE q == req[t]
             new == {Log(q, r) : r \in q.copies \cup q.new}
  <1>1. /\ q \in FileRead /\ q.batch \in Nat
        /\ logs' = logs \cup new /\ feePaid \subseteq feePaid' /\ UNCHANGED <<batches, undone>>
        /\ req' = [req EXCEPT ![t] = NoReq]
    BY DEF Committing, FileRead
  <1>2. \A l \in new : l.batch = q.batch /\ l.known \subseteq Committed
                       /\ (l.fee => l.known = {} /\ l.member \in feePaid')
    BY LogFees
  <1>3. q.batch <= batches /\ q.batch \notin Committed
    BY <1>1 DEF FeeInv, BatchesApart, Begun
  <1> HIDE DEF new
  <1>4. Committed \subseteq Committed' /\ \A b \in Committed' : b \in Committed \/ b = q.batch
    BY <1>1, <1>2 DEF Committed
  <1>5. req'[t] \notin BatchSaved \cup FileRead /\ \A u \in Tabs : u # t => req'[u] = req[u]
    <2>1. NoReq \in Passing
      BY DEF Passing
    <2> QED
      BY <1>1, <2>1, PassingOK, OtherReqs
  <1>6. BatchesApart'
    <2>1. ASSUME NEW u \in Tabs, Begun(u)'
          PROVE  req'[u].batch <= batches /\ req'[u].batch \notin Committed'
      <3>1. u # t /\ Begun(u) /\ Begun(t) /\ req'[u] = req[u]
        BY <1>1, <1>5, <2>1 DEF Begun
      <3> QED
        BY <1>4, <3>1 DEF FeeInv, BatchesApart
    <2>2. ASSUME NEW u \in Tabs, NEW v \in Tabs, Begun(u)', Begun(v)', u # v
          PROVE  req'[u].batch # req'[v].batch
      BY <1>5, <2>2 DEF FeeInv, BatchesApart, Begun
    <2>3. \A b \in Committed' : b <= batches
      BY <1>3, <1>4 DEF FeeInv, BatchesApart
    <2> QED
      BY <1>1, <2>1, <2>2, <2>3 DEF BatchesApart
  <1>7. KnownFirst'
    <2>1. ASSUME NEW l \in logs' PROVE l.known \subseteq Committed' /\ l.batch \notin l.known
      BY <1>1, <1>2, <1>3, <1>4, <2>1 DEF FeeInv, KnownFirst
    <2>2. ASSUME NEW u \in Tabs, req'[u] \in FileRead, NEW p \in req'[u].known
          PROVE  p[2] \in Committed'
      BY <1>4, <1>5, <2>2 DEF FeeInv, KnownFirst
    <2> QED
      BY <2>1, <2>2 DEF KnownFirst
  <1>8. KnownPays'
    <2>1. ASSUME NEW l \in logs', l.fee, <<l.member, l.batch>> \notin undone
          PROVE  l.member \in feePaid'
      BY <1>1, <1>2, <2>1 DEF FeeInv, KnownPays
    <2>2. \A u \in Tabs : req'[u] \in FileRead =>
            /\ \A p \in req'[u].known : p[1] \in req'[u].exempt
            /\ \A r \in req'[u].new : r.fee = 0
      BY <1>5 DEF FeeInv, KnownPays
    <2> QED
      BY <1>1, <2>1, <2>2 DEF KnownPays
  <1>9. ASSUME NEW l \in logs, NEW o \in new, o.fee
        PROVE  l.batch \notin o.known /\ o.batch \notin l.known
    <2>1. o.known = {} /\ o.batch = q.batch
      BY <1>2, <1>9
    <2>2. l.known \subseteq Committed
      BY DEF FeeInv, KnownFirst
    <2> QED
      BY <1>3, <2>1, <2>2
  <1>10. \A l, o \in new : l.batch \notin o.known
    BY <1>2, <1>3
  <1>11. FeeTakenOnce'
    BY <1>1, <1>9, <1>10 DEF FeeInv, FeeTakenOnce
  <1> QED
    BY <1>6, <1>7, <1>8, <1>11 DEF FeeInv

\* Every step keeps the fee, batch by batch.
LEMMA FeeStep ==
    ASSUME TypeInv, FeeInv, [Next]_vars
    PROVE  FeeInv'
  <1>1. CASE UNCHANGED <<req, batches, logs, feePaid, undone>>
    BY <1>1, SameFees
  <1>2. ASSUME NEW t \in Tabs, Passes(t), UNCHANGED <<batches, logs, feePaid, undone>>
        PROVE  FeeInv'
    BY <1>2, SameFees, OtherReqs, PassingOK DEF Passes
  <1>3. ASSUME NEW t \in Tabs, ReadLines(t)
        PROVE  FeeInv'
    <2>1. PICK r \in LinesRead : req' = [req EXCEPT ![t] = r]
      BY <1>3, ReadLinesOK
    <2>2. r \notin BatchSaved \cup FileRead
      BY DEF LinesRead, BatchSaved, FileRead
    <2>3. UNCHANGED <<batches, logs, feePaid, undone>>
      BY <1>3, ReadLinesOK
    <2> QED
      BY <2>1, <2>2, <2>3, SameFees, OtherReqs
  <1> QED
    BY <1>1, <1>2, <1>3, Sorted, SaveMemberFees, DeleteFees, SaveBatchFees, ReadFileFees, CommitFees

\* The registration fee of a member is taken again only by an upload that
\* overlaps the one that took it, or after an edit of the member has taken it
\* back (process_deductions_bulk_upload, MemberService.update_member):
\* DeductionRoll!FeeTakenOnce.
THEOREM FeesTakenOnce == Spec => []FeeTakenOnce
  <1>1. Init => TypeInv /\ FeeInv
    BY InitOK
  <1>2. TypeInv /\ FeeInv /\ [Next]_vars => TypeInv' /\ FeeInv'
    BY EveryStepOK, StepKeeps, FeeStep
  <1>3. FeeInv => FeeTakenOnce
    BY DEF FeeInv
  <1> QED
    BY <1>1, <1>2, <1>3, PTL DEF Spec

-----------------------------------------------------------------------------
\* The loan parts

\* A sum over a set is no more than one over those of its members that have
\* any, if each of them has no less there.
LEMMA SumCovers ==
    ASSUME NEW S, IsFiniteSet(S), NEW W \in SUBSET S, NEW f, NEW g,
           \A i \in S : f[i] \in Int, \A i \in W : g[i] \in Int /\ f[i] <= g[i],
           \A i \in S \ W : f[i] = 0
    PROVE  SumFunctionOnSet(f, S) <= SumFunctionOnSet(g, W)
  <1> DEFINE h(X) == SumFunctionOnSet(f, X)
             k(X) == SumFunctionOnSet(g, X)
             T == {X \in SUBSET S : h(X) <= k(X \cap W)}
  <1>1. h({}) = 0 /\ k({}) = 0
    BY SumEmpty
  <1>2. ASSUME NEW X \in SUBSET S
        PROVE  h(X) \in Int /\ \A p \in X : h(X) = f[p] + h(X \ {p})
    BY SumOfIntegers, FS_Subset
  <1>3. ASSUME NEW X \in SUBSET W
        PROVE  k(X) \in Int /\ \A p \in X : k(X) = g[p] + k(X \ {p})
    BY SumOfIntegers, FS_Subset
  <1> HIDE DEF h, k
  <1>4. ASSUME NEW X \in SUBSET S, \A Y \in SUBSET X : Y # X => Y \in T
        PROVE  X \in T
    <2>1. CASE X = {}
      <3>1. X \cap W = {}
        BY <2>1
      <3> QED
        BY <1>1, <2>1, <3>1
    <2>2. CASE X # {}
      <3>1. PICK p \in X : TRUE
        BY <2>2
      <3> DEFINE Y == X \ {p}
                 B == X \cap W
                 C == Y \cap W
      <3>2. Y \in T
        BY <1>4, <3>1
      <3>3. h(Y) <= k(C)
        BY <3>2
      <3>4. h(X) = f[p] + h(Y) /\ h(Y) \in Int /\ f[p] \in Int
        BY <1>2, <3>1
      <3>5. k(B) \in Int /\ k(C) \in Int
        BY <1>3
      <3>6. h(X) <= k(B)
        <4>1. CASE p \in W
          <5>1. p \in B /\ C = B \ {p}
            BY <3>1, <4>1
          <5>2. k(B) = g[p] + k(C)
            BY <1>3, <5>1
          <5>3. g[p] \in Int /\ f[p] <= g[p]
            BY <4>1
          <5> HIDE DEF B, C, Y
          <5> QED
            BY <3>3, <3>4, <3>5, <5>2, <5>3
        <4>2. CASE p \notin W
          <5>1. B = C /\ f[p] = 0
            BY <3>1, <4>2
          <5> HIDE DEF B, C, Y
          <5> QED
            BY <3>3, <3>4, <3>5, <5>1
        <4> QED
          BY <4>1, <4>2
      <3> QED
        BY <3>6
    <2> QED
      BY <2>1, <2>2
  <1>5. SUBSET S \subseteq T
    <2> HIDE DEF T
    <2> QED
      BY <1>4, SubsetInduction
  <1>6. h(S) <= k(S \cap W)
    BY <1>5
  <1>7. S \cap W = W
    OBVIOUS
  <1> QED
    BY <1>6, <1>7 DEF h, k

\* Where all that is asked for is asked for installments that are credited, and
\* each of these takes the whole part up to its due, they take no less than
\* the part, and more only if there are several.
LEMMA PartReaches ==
    ASSUME NEW S, IsFiniteSet(S), NEW W \in SUBSET S, NEW part \in Nat, NEW due \in Nat,
           NEW rest, \A i \in S : rest[i] \in Nat /\ rest[i] <= due,
           \A i \in S \ W : rest[i] = 0, part <= SumFunctionOnSet(rest, S),
           NEW taken, \A i \in W : taken[i] = Least(part, due)
    PROVE  /\ SumFunctionOnSet(taken, W) \in Nat /\ SumFunctionOnSet(taken, W) >= part
           /\ SumFunctionOnSet(taken, W) > part => \E i, j \in S : i # j
  <1> DEFINE into == SumFunctionOnSet(taken, W)
             each == Least(part, due)
  <1>1. IsFiniteSet(W)
    BY FS_Subset
  <1>2. each \in Nat /\ each <= part /\ (part <= due => each = part) /\ (part > due => each = due)
    BY DEF Least
  <1>3. \A i \in W : taken[i] \in Nat /\ taken[i] = each
    BY <1>2
  <1>4. into \in Nat
    BY <1>1, <1>3, SumOfNaturals
  <1>5. \A i \in W : SumFunctionOnSet(taken, W \ {i}) \in Nat
                     /\ into = each + SumFunctionOnSet(taken, W \ {i})
    <2>1. ASSUME NEW i \in W
          PROVE  SumFunctionOnSet(taken, W \ {i}) \in Nat
      <3>1. IsFiniteSet(W \ {i}) /\ \A j \in W \ {i} : taken[j] \in Nat
        BY <1>1, <1>3, FS_Subset
      <3> QED
        BY <3>1, SumOfNaturals
    <2>2. \A i \in W : into = taken[i] + SumFunctionOnSet(taken, W \ {i})
      BY <1>1, <1>3, SumOfIntegers
    <2> QED
      BY <1>3, <2>1, <2>2
  <1>6. into >= part
    <2>1. CASE part > due \/ W = {}
      <3>1. \A i \in W : taken[i] \in Int /\ rest[i] <= taken[i]
        BY <1>2, <1>3, <2>1
      <3>2. SumFunctionOnSet(rest, S) <= into
        BY <3>1, SumCovers
      <3>3. SumFunctionOnSet(rest, S) \in Nat
        BY SumOfNaturals
      <3> HIDE DEF into
      <3> QED
        BY <1>4, <3>2, <3>3
    <2>2. CASE part <= due /\ W # {}
      <3>1. PICK i \in W : TRUE
        BY <2>2
      <3> DEFINE left == SumFunctionOnSet(taken, W \ {i})
      <3>2. into = each + left /\ left \in Nat
        BY <1>5, <3>1
      <3> HIDE DEF into, each, left
      <3>3. each = part
        BY <1>2, <2>2
      <3> QED
        BY <3>2, <3>3
    <2> QED
      BY <2>1, <2>2
  <1>7. ASSUME ~\E i, j \in S : i # j
        PROVE  into <= part
    <2>1. CASE W = {}
      BY <1>4, <2>1, SumEmpty
    <2>2. CASE W # {}
      <3>1. PICK i \in W : W \ {i} = {}
        BY <1>7, <2>2
      <3>2. into = each + 0
        BY <1>5, <3>1, SumEmpty
      <3> QED
        BY <1>2, <3>2
    <2> QED
      BY <2>1, <2>2
  <1> QED
    BY <1>4, <1>6, <1>7

\* An installment of an active loan that is not credited is paid in full.
LEMMA UnservedIsPaid ==
    ASSUME NEW s \in Snapshots, \A i \in DOMAIN s : s[i].standing = "active"
    PROVE  /\ Served(s) \in SUBSET (DOMAIN s)
           /\ \A i \in (DOMAIN s) \ Served(s) :
                Remaining(DueInterest, s[i].interest) = 0 /\ Remaining(DuePrincipal, s[i].principal) = 0
  <1>1. ASSUME NEW i \in (DOMAIN s) \ Served(s)
        PROVE  Remaining(DueInterest, s[i].interest) = 0 /\ Remaining(DuePrincipal, s[i].principal) = 0
    <2>1. s[i] \in Entries /\ s[i].settled
      BY SnapshotAt DEF Served
    <2>2. s[i].interest >= DueInterest /\ s[i].principal >= DuePrincipal
      BY <2>1 DEF Entries, Settled
    <2> QED
      BY <2>1, <2>2, RemainingNat, RollAssumption DEF Entries
  <1> QED
    BY <1>1 DEF Served

\* What a line asks for reaches the schedule that it was figured from.
LEMMA AskedReaches ==
    ASSUME NEW s \in Snapshots, \A i \in DOMAIN s : s[i].standing = "active",
           NEW a \in Parts,
           a.interest <= Asked(s).interest, a.principal <= Asked(s).principal
    PROVE  LET into == Reaching(s, a)
           IN  /\ ~(into.interest < a.interest \/ into.principal < a.principal)
               /\ into.interest > a.interest \/ into.principal > a.principal =>
                    \E i, j \in DOMAIN s : i # j
  <1> DEFINE S == DOMAIN s
             W == Served(s)
             restI == [i \in S |-> Remaining(DueInterest, s[i].interest)]
             restP == [i \in S |-> Remaining(DuePrincipal, s[i].principal)]
             takenI == [i \in W |-> Credited(s[i], a).interest - s[i].interest]
             takenP == [i \in W |-> Credited(s[i], a).principal - s[i].principal]
  <1>1. IsFiniteSet(S) /\ W \in SUBSET S /\ \A i \in S : s[i] \in Entries
    BY SnapshotAt, UnservedIsPaid
  <1>2. a.interest \in Nat /\ a.principal \in Nat /\ DueInterest \in Nat /\ DuePrincipal \in Nat
    BY RollAssumption DEF Parts
  <1>3. \A i \in S : /\ restI[i] \in Nat /\ restI[i] <= DueInterest
                     /\ restP[i] \in Nat /\ restP[i] <= DuePrincipal
    BY <1>1, <1>2, RemainingNat DEF Entries
  <1>4. \A i \in S \ W : restI[i] = 0 /\ restP[i] = 0
    BY UnservedIsPaid
  <1>5. \A i \in W : takenI[i] = Least(a.interest, DueInterest)
                     /\ takenP[i] = Least(a.principal, DuePrincipal)
    <2> SUFFICES ASSUME NEW i \in W
                 PROVE  takenI[i] = Least(a.interest, DueInterest)
                        /\ takenP[i] = Least(a.principal, DuePrincipal)
      OBVIOUS
    <2>1. s[i] \in Entries /\ s[i].interest \in Nat /\ s[i].principal \in Nat
      BY <1>1 DEF Entries
    <2>2. Credited(s[i], a).interest = s[i].interest + Least(a.interest, DueInterest)
          /\ Credited(s[i], a).principal = s[i].principal + Least(a.principal, DuePrincipal)
      BY <2>1, CreditedOK
    <2>3. Least(a.interest, DueInterest) \in Nat /\ Least(a.principal, DuePrincipal) \in Nat
      BY <1>2 DEF Least
    <2>4. takenI[i] = Credited(s[i], a).interest - s[i].interest
          /\ takenP[i] = Credited(s[i], a).principal - s[i].principal
      OBVIOUS
    <2> HIDE DEF takenI, takenP
    <2> QED
      BY <2>1, <2>2, <2>3, <2>4
  <1>6. /\ DOMAIN restI = S /\ DOMAIN restP = S /\ DOMAIN takenI = W /\ DOMAIN takenP = W
        /\ Asked(s).interest = SumFunction(restI) /\ Asked(s).principal = SumFunction(restP)
        /\ Reaching(s, a).interest = SumFunction(takenI)
        /\ Reaching(s, a).principal = SumFunction(takenP)
    BY DEF Asked, Reaching
  <1> HIDE DEF restI, restP, takenI, takenP, S, W
  <1>7. /\ Asked(s).interest = SumFunctionOnSet(restI, S)
        /\ Asked(s).principal = SumFunctionOnSet(restP, S)
        /\ Reaching(s, a).interest = SumFunctionOnSet(takenI, W)
        /\ Reaching(s, a).principal = SumFunctionOnSet(takenP, W)
    <2>1. /\ SumFunction(restI) = SumFunctionOnSet(restI, DOMAIN restI)
          /\ SumFunction(restP) = SumFunctionOnSet(restP, DOMAIN restP)
          /\ SumFunction(takenI) = SumFunctionOnSet(takenI, DOMAIN takenI)
          /\ SumFunction(takenP) = SumFunctionOnSet(takenP, DOMAIN takenP)
      BY DEF SumFunction
    <2> QED
      BY <1>6, <2>1
  <1>8. /\ SumFunctionOnSet(takenI, W) \in Nat /\ SumFunctionOnSet(takenI, W) >= a.interest
        /\ SumFunctionOnSet(takenI, W) > a.interest => \E i, j \in S : i # j
    <2> DEFINE part == a.interest
    <2>1. \A i \in S : restI[i] \in Nat /\ restI[i] <= DueInterest
      BY <1>3
    <2>2. \A i \in S \ W : restI[i] = 0
      BY <1>4
    <2>3. \A i \in W : takenI[i] = Least(part, DueInterest)
      BY <1>5
    <2>4. part \in Nat /\ part <= SumFunctionOnSet(restI, S)
      BY <1>2, <1>7
    <2> HIDE DEF part
    <2>5. /\ SumFunctionOnSet(takenI, W) \in Nat /\ SumFunctionOnSet(takenI, W) >= part
          /\ SumFunctionOnSet(takenI, W) > part => \E i, j \in S : i # j
      BY <1>1, <1>2, <2>1, <2>2, <2>3, <2>4, PartReaches
    <2> QED
      BY <2>5 DEF part
  <1>9. /\ SumFunctionOnSet(takenP, W) \in Nat /\ SumFunctionOnSet(takenP, W) >= a.principal
        /\ SumFunctionOnSet(takenP, W) > a.principal => \E i, j \in S : i # j
    <2> DEFINE part == a.principal
    <2>1. \A i \in S : restP[i] \in Nat /\ restP[i] <= DuePrincipal
      BY <1>3
    <2>2. \A i \in S \ W : restP[i] = 0
      BY <1>4
    <2>3. \A i \in W : takenP[i] = Least(part, DuePrincipal)
      BY <1>5
    <2>4. part \in Nat /\ part <= SumFunctionOnSet(restP, S)
      BY <1>2, <1>7
    <2> HIDE DEF part
    <2>5. /\ SumFunctionOnSet(takenP, W) \in Nat /\ SumFunctionOnSet(takenP, W) >= part
          /\ SumFunctionOnSet(takenP, W) > part => \E i, j \in S : i # j
      BY <1>1, <1>2, <2>1, <2>2, <2>3, <2>4, PartReaches
    <2> QED
      BY <2>5 DEF part
  <1> QED
    BY <1>2, <1>7, <1>8, <1>9 DEF S

\* So does what an upload takes of a line that is as new as the schedule.
LEMMA LogReaches ==
    ASSUME TypeInv, NEW q \in FileRead, OfItsFile(q), NEW r \in q.copies \cup q.new,
           Log(q, r).fresh
    PROVE  ~Log(q, r).short /\ (Log(q, r).over => Log(q, r).several)
  <1> DEFINE n == q.file[r.member]
             s == q.due[r.member]
             a == Allotted(r, n)
             into == Reaching(s, a)
  <1>1. r \in Rows /\ r.member \in DOMAIN q.file /\ r.member \in DOMAIN q.due
    BY DEF FileRead, OfItsFile
  <1>2. n \in Nat /\ s \in Snapshots
    BY <1>1, PerMemberOK, RollAssumption DEF FileRead
  <1>3. r.asof = s /\ s # Unfigured /\ \A i \in DOMAIN s : s[i].standing = "active"
    BY DEF Log
  <1>4. r.loan = Asked(s)
    BY <1>1, <1>3 DEF Rows, AsFigured
  <1>5. a \in Parts /\ a.interest <= Asked(s).interest /\ a.principal <= Asked(s).principal
    BY <1>1, <1>2, <1>4, AllottedOK
  <1>6. /\ Log(q, r).short = (into.interest < a.interest \/ into.principal < a.principal)
        /\ Log(q, r).over = (into.interest > a.interest \/ into.principal > a.principal)
        /\ Log(q, r).several = (\E i, j \in DOMAIN s : i # j)
    BY DEF Log
  <1> HIDE DEF n, s, a
  <1>7. /\ ~(into.interest < a.interest \/ into.principal < a.principal)
        /\ into.interest > a.interest \/ into.principal > a.principal =>
             \E i, j \in DOMAIN s : i # j
    BY <1>2, <1>3, <1>5, AskedReaches
  <1> QED
    BY <1>6, <1>7

\* Every step keeps the loan parts of the log.
LEMMA LoanPartStep ==
    ASSUME TypeInv, LoanPartReachesSchedule, [Next]_vars
    PROVE  LoanPartReachesSchedule'
  <1>1. CASE UNCHANGED logs
    BY <1>1 DEF LoanPartReachesSchedule
  <1>2. ASSUME NEW t \in Tabs, Delete(t)
        PROVE  LoanPartReachesSchedule'
    <2> DEFINE id == tab[t].form.id
    <2>1. logs' = {Unlinked(l, id) : l \in logs}
      BY <1>2, DeleteOK
    <2> HIDE DEF id
    <2>2. ASSUME NEW l \in logs', l.fresh
          PROVE  ~l.short /\ (l.over => l.several)
      <3>1. PICK o \in logs : l = Unlinked(o, id)
        BY <2>1
      <3>2. l.fresh = o.fresh /\ l.short = o.short /\ l.over = o.over /\ l.several = o.several
        BY <3>1, UnlinkedOK DEF TypeInv
      <3> QED
        BY <2>2, <3>2 DEF LoanPartReachesSchedule
    <2> QED
      BY <2>2 DEF LoanPartReachesSchedule
  <1>3. ASSUME NEW t \in Tabs, Committing(t)
        PROVE  LoanPartReachesSchedule'
    <2> DEFINE q == req[t]
    <2>1. q \in FileRead /\ OfItsFile(q)
          /\ logs' = logs \cup {Log(q, r) : r \in q.copies \cup q.new}
      BY <1>3 DEF Committing
    <2> HIDE DEF q
    <2>2. \A r \in q.copies \cup q.new :
            Log(q, r).fresh => ~Log(q, r).short /\ (Log(q, r).over => Log(q, r).several)
      BY <2>1, LogReaches
    <2> QED
      BY <2>1, <2>2 DEF LoanPartReachesSchedule
  <1>4. ASSUME NEW t \in Tabs, ReadLines(t) \/ SaveBatch(t) \/ ReadFile(t)
        PROVE  UNCHANGED logs
    BY <1>4 DEF ReadLines, SaveBatch, ReadFile
  <1>5. ASSUME NEW m \in Members, SaveMember(m)
        PROVE  UNCHANGED logs
    BY <1>5 DEF SaveMember
  <1> QED
    BY <1>1, <1>2, <1>3, <1>4, <1>5, Sorted

\* The loan parts of a remittance reach the installments of a current sheet
\* whose loans are not in doubt, and an installment that stands alone in its
\* month takes no more, however many members, months and loans there are and
\* whatever is typed, edited and generated beside it
\* (process_deductions_bulk_upload, generate_monthly_deductions):
\* DeductionRoll!LoanPartReachesSchedule.
THEOREM LoanPartsReachSchedule == Spec => []LoanPartReachesSchedule
  <1>1. Init => TypeInv /\ LoanPartReachesSchedule
    BY InitOK
  <1>2. TypeInv /\ LoanPartReachesSchedule /\ [Next]_vars => TypeInv' /\ LoanPartReachesSchedule'
    BY EveryStepOK, StepKeeps, LoanPartStep
  <1> QED
    BY <1>1, <1>2, PTL DEF Spec

-----------------------------------------------------------------------------
\* The amount paid

Held(t) == req[t] \in LinesRead \cup FileRead
Kept(t) == req[t].copies \cup req[t].new

\* Lines of the sheet and lines in the hands of a request have keys that were
\* given out, one line a key.
KeysGiven ==
    /\ \A r \in rows : 0 < r.id /\ r.id <= made
    /\ \A r, s \in rows : r.id = s.id => r = s
    /\ \A l \in logs : l.row <= made
    /\ \A t \in Tabs : Held(t) =>
         /\ \A r \in Kept(t) : 0 < r.id /\ r.id <= made
         /\ \A r, s \in Kept(t) : r.id = s.id => r = s
         /\ \A c \in req[t].copies, r \in req[t].new : c.id # r.id

\* A line that a request is about to insert is known to nobody else.
NewUnknown ==
    /\ \A t \in Tabs : Held(t) =>
         \A r \in req[t].new : r.paid = 0 /\ Logged(r.id) = {} /\ Keyed(r.id) = {}
    /\ \A t, u \in Tabs : t # u /\ Held(t) /\ Held(u) =>
         \A r \in req[t].new, s \in Kept(u) : r.id # s.id

Total(id) == SumFunction([l \in Logged(id) |-> l.remitted])

LogsFinite == \A id \in Nat \ {0} : IsFiniteSet(Logged(id))

PaidInv == KeysGiven /\ NewUnknown /\ LogsFinite /\ PaidIsRemitted

\* Keys for new lines are greater than any before, one a line.
LEMMA KeysApart ==
    ASSUME TypeInv, NEW who \in SUBSET Members, NEW id \in Keys(who)
    PROVE  /\ made + Cardinality(who) \in Nat /\ made <= made + Cardinality(who)
           /\ \A m \in who : /\ id[m] \in Nat /\ made < id[m]
                             /\ id[m] <= made + Cardinality(who)
           /\ \A m, n \in who : id[m] = id[n] => m = n
  <1>1. IsFiniteSet(who)
    BY FS_Subset, RollAssumption
  <1>2. Cardinality(who) \in Nat /\ made \in Nat
    BY <1>1, FS_CardinalityType DEF TypeInv
  <1>3. /\ id \in [who -> made + 1 .. made + Cardinality(who)]
        /\ \A m, n \in who : id[m] = id[n] => m = n
    BY DEF Keys, Bijection, Injection, IsInjective
  <1>4. ASSUME NEW m \in who PROVE id[m] \in made + 1 .. made + Cardinality(who)
    BY <1>3
  <1> QED
    BY <1>2, <1>3, <1>4

\* A log without lines of a key adds up to nothing.
LEMMA TotalOfNone ==
    ASSUME NEW id, Logged(id) = {}
    PROVE  Total(id) = 0
  <1>1. DOMAIN [l \in Logged(id) |-> l.remitted] = {}
    OBVIOUS
  <1> QED
    BY <1>1, SumEmpty DEF Total, SumFunction

\* The same lines add up to the same.
LEMMA TotalStays ==
    ASSUME NEW id, Logged(id)' = Logged(id)
    PROVE  Total(id)' = Total(id)
  BY DEF Total

\* One line more adds what was remitted with it.
LEMMA TotalOfOneMore ==
    ASSUME NEW id, IsFiniteSet(Logged(id)), logs \in SUBSET Lines, NEW l \in Lines,
           l \notin Logged(id), Logged(id)' = Logged(id) \cup {l}
    PROVE  /\ Total(id) \in Int
           /\ Total(id)' = Total(id) + l.remitted
           /\ IsFiniteSet(Logged(id)')
  <1> DEFINE S == Logged(id)
             f == [o \in S |-> o.remitted]
             g == [o \in S \cup {l} |-> o.remitted]
  <1>1. S \subseteq Lines
    BY DEF Logged
  <1>2. \A o \in S \cup {l} : g[o] \in Int
    BY <1>1 DEF Lines
  <1>3. Total(id)' = SumFunctionOnSet(g, S \cup {l})
    BY DEF Total, SumFunction
  <1>4. Total(id) = SumFunctionOnSet(f, S)
    BY DEF Total, SumFunction
  <1>5. \A o \in S : f[o] = g[o]
    OBVIOUS
  <1>6. g[l] = l.remitted
    OBVIOUS
  <1> HIDE DEF S, f, g
  <1>7. IsFiniteSet(S) /\ l \notin S
    BY DEF S
  <1>8. SumFunctionOnSet(g, S \cup {l}) = SumFunctionOnSet(g, S) + g[l]
    BY <1>2, <1>7, SumAdds
  <1>9. SumFunctionOnSet(f, S) = SumFunctionOnSet(g, S)
    BY <1>5, <1>7, SumExtensional
  <1>10. SumFunctionOnSet(g, S) \in Int
    BY <1>2, <1>7, SumOfIntegers
  <1>11. IsFiniteSet(S \cup {l})
    BY <1>7, FS_AddElement
  <1> QED
    BY <1>3, <1>4, <1>6, <1>8, <1>9, <1>10, <1>11 DEF S

\* Requests that only pass leave what the others hold.
LEMMA OthersHold ==
    ASSUME TypeInv, NEW t \in Tabs, NEW r, r \notin LinesRead \cup FileRead,
           req' = [req EXCEPT ![t] = r]
    PROVE  \A u \in Tabs : Held(u)' => u # t /\ Held(u) /\ req'[u] = req[u]
  <1>1. req'[t] = r /\ \A u \in Tabs : u # t => req'[u] = req[u]
    BY OtherReqs
  <1> QED
    BY <1>1 DEF Held

\* A step that saves copies of lines, logs nothing and keeps what requests hold.
LEMMA SavedPaid ==
    ASSUME TypeInv, PaidInv, UNCHANGED <<logs, made>>,
           NEW copies, rows' = Saved(copies),
           \A c \in copies : /\ 0 < c.id /\ c.id <= made
                             /\ ~c.altered => c.paid = Total(c.id),
           \A c, d \in copies : c.id = d.id => c = d,
           \A u \in Tabs : Held(u)' =>
              /\ Held(u) /\ req'[u] = req[u]
              /\ \A r \in req[u].new, c \in copies : r.id # c.id
    PROVE  PaidInv'
  <1>1. \A r \in rows' : \/ r \in rows /\ \A c \in copies : c.id # r.id
                         \/ r \in copies
    BY DEF Saved
  <1>2. \A id : Logged(id)' = Logged(id) /\ Total(id)' = Total(id)
    BY DEF Logged, Total
  <1>3. KeysGiven'
    BY <1>1 DEF KeysGiven, PaidInv, Held, Kept
  <1>4. NewUnknown'
    <2>1. ASSUME NEW u \in Tabs, Held(u)', NEW r \in req'[u].new
          PROVE  r.paid = 0 /\ Logged(r.id)' = {} /\ Keyed(r.id)' = {}
      <3>1. r \in req[u].new /\ Held(u) /\ \A c \in copies : r.id # c.id
        BY <2>1
      <3>2. r.paid = 0 /\ Logged(r.id) = {} /\ \A s \in rows : s.id # r.id
        BY <3>1 DEF PaidInv, NewUnknown, Keyed
      <3>3. \A s \in rows' : s.id # r.id
        BY <1>1, <3>1, <3>2
      <3> QED
        BY <1>2, <3>2, <3>3 DEF Keyed
    <2> QED
      BY <2>1 DEF NewUnknown, PaidInv, Held, Kept
  <1>5. LogsFinite'
    BY <1>2 DEF LogsFinite, PaidInv
  <1>6. PaidIsRemitted'
    <2>1. ASSUME NEW r \in rows', ~r.altered PROVE r.paid = Total(r.id)
      BY <1>1, <2>1 DEF PaidInv, PaidIsRemitted, Total
    <2> QED
      BY <1>2, <2>1 DEF PaidIsRemitted, Total
  <1> QED
    BY <1>3, <1>4, <1>5, <1>6 DEF PaidInv

\* A copy that overlays nothing has the amount of the row.
LEMMA NotAltered ==
    ASSUME PaidInv, NEW c, ~Overlays(c)
    PROVE  c.paid = Total(c.id)
  <1>1. PICK r \in rows : r.id = c.id /\ ~r.altered /\ r.paid = c.paid
    BY DEF Overlays, Keyed
  <1> QED
    BY <1>1 DEF PaidInv, PaidIsRemitted, Total

\* A step that inserts lines under new keys.
LEMMA InsertedPaid ==
    ASSUME TypeInv, PaidInv, UNCHANGED <<logs, req>>, made' \in Nat, made <= made',
           NEW new, rows' = rows \cup new,
           \A r \in new : r.id \in Nat /\ made < r.id /\ r.id <= made' /\ r.paid = 0,
           \A r, s \in new : r.id = s.id => r = s
    PROVE  PaidInv'
  <1>1. made \in Nat /\ \A r \in rows : r.id \in Nat
    BY DEF TypeInv, Rows
  <1>2. \A id : Logged(id)' = Logged(id) /\ Total(id)' = Total(id)
    BY DEF Logged, Total
  <1>3. \A t \in Tabs : Held(t) => \A r \in Kept(t) : r.id \in Nat
    BY RowsOfRequest DEF TypeInv, Held, Kept, Rows
  <1>4. \A t \in Tabs : Held(t)' = Held(t) /\ Kept(t)' = Kept(t)
    BY DEF Held, Kept
  <1>5. \A l \in logs : l.row \in Nat
    BY DEF TypeInv, Lines
  <1>6. KeysGiven'
    <2>1. \A r \in rows' : 0 < r.id /\ r.id <= made'
      BY <1>1 DEF KeysGiven, PaidInv
    <2>2. \A r \in rows, s \in new : r.id # s.id
      BY <1>1 DEF KeysGiven, PaidInv
    <2>3. \A r, s \in rows' : r.id = s.id => r = s
      BY <2>2 DEF KeysGiven, PaidInv
    <2>4. \A l \in logs' : l.row <= made'
      BY <1>1, <1>5 DEF KeysGiven, PaidInv
    <2>5. ASSUME NEW t \in Tabs, Held(t)
          PROVE  /\ \A r \in Kept(t) : 0 < r.id /\ r.id <= made'
                 /\ \A r, s \in Kept(t) : r.id = s.id => r = s
                 /\ \A c \in req[t].copies, r \in req[t].new : c.id # r.id
      BY <1>1, <1>3, <2>5 DEF KeysGiven, PaidInv
    <2> QED
      BY <1>4, <2>1, <2>3, <2>4, <2>5 DEF KeysGiven
  <1>7. NewUnknown'
    <2>1. ASSUME NEW t \in Tabs, Held(t), NEW r \in req[t].new
          PROVE  Keyed(r.id)' = {}
      <3>1. r \in Kept(t) /\ r.id <= made /\ r.id \in Nat /\ \A s \in rows : s.id # r.id
        BY <1>3, <2>1 DEF Kept, KeysGiven, PaidInv, NewUnknown, Keyed
      <3>2. \A s \in new : s.id # r.id
        BY <1>1, <3>1
      <3> QED
        BY <3>1, <3>2 DEF Keyed
    <2> QED
      BY <1>2, <1>4, <2>1 DEF NewUnknown, PaidInv
  <1>8. LogsFinite'
    BY <1>2 DEF LogsFinite, PaidInv
  <1>9. PaidIsRemitted'
    <2>1. ASSUME NEW r \in new PROVE r.paid = Total(r.id)
      <3>1. Logged(r.id) = {}
        BY <1>1, <1>5 DEF Logged, KeysGiven, PaidInv
      <3> QED
        BY <3>1, TotalOfNone
    <2>2. \A r \in rows : ~r.altered => r.paid = Total(r.id)
      BY DEF PaidInv, PaidIsRemitted, Total
    <2> QED
      BY <1>2, <2>1, <2>2 DEF PaidIsRemitted, Total
  <1> QED
    BY <1>6, <1>7, <1>8, <1>9 DEF PaidInv

\* A request takes copies of lines and makes lines under new keys.
LEMMA ReadPaid ==
    ASSUME TypeInv, PaidInv, UNCHANGED <<rows, logs>>, made' \in Nat, made <= made',
           NEW t \in Tabs, NEW q \in LinesRead \cup FileRead, req' = [req EXCEPT ![t] = q],
           \A c \in q.copies : \E r \in rows : c.id = r.id,
           \A c, d \in q.copies : c.id = d.id => c = d,
           \A r \in q.new : made < r.id /\ r.id <= made' /\ r.paid = 0,
           \A r, s \in q.new : r.id = s.id => r = s
    PROVE  PaidInv'
  <1>1. made \in Nat /\ \A r \in rows : r.id \in Nat
    BY DEF TypeInv, Rows
  <1>2. \A id : Logged(id)' = Logged(id) /\ Keyed(id)' = Keyed(id) /\ Total(id)' = Total(id)
    BY DEF Logged, Keyed, Total
  <1>3. req'[t] = q /\ \A u \in Tabs : u # t => req'[u] = req[u]
    BY OtherReqs
  <1>4. \A r \in q.copies \cup q.new : r.id \in Nat
    BY DEF LinesRead, FileRead, Rows
  <1>5. \A u \in Tabs : Held(u) => \A r \in Kept(u) : r.id \in Nat /\ 0 < r.id /\ r.id <= made
    BY RowsOfRequest DEF TypeInv, Held, Kept, Rows, KeysGiven, PaidInv
  <1>6. \A l \in logs : l.row \in Nat /\ l.row <= made
    BY DEF TypeInv, Lines, KeysGiven, PaidInv
  <1>7. \A c \in q.copies : 0 < c.id /\ c.id <= made
    BY DEF KeysGiven, PaidInv
  <1>8. \A u \in Tabs : u # t => Held(u)' = Held(u) /\ Kept(u)' = Kept(u)
    BY <1>3 DEF Held, Kept
  <1>9. Kept(t)' = q.copies \cup q.new
    BY <1>3 DEF Kept
  <1>10. KeysGiven'
    <2>1. ASSUME NEW u \in Tabs, Held(u)'
          PROVE  /\ \A r \in Kept(u)' : 0 < r.id /\ r.id <= made'
                 /\ \A r, s \in Kept(u)' : r.id = s.id => r = s
                 /\ \A c \in req'[u].copies, r \in req'[u].new : c.id # r.id
      <3>1. CASE u = t
        <4>1. \A r \in q.copies \cup q.new : 0 < r.id /\ r.id <= made'
          BY <1>1, <1>4, <1>7
        <4>2. \A r, s \in q.copies \cup q.new : r.id = s.id => r = s
          BY <1>1, <1>4, <1>7
        <4>3. \A c \in q.copies, r \in q.new : c.id # r.id
          BY <1>1, <1>4, <1>7
        <4> QED
          BY <1>3, <1>9, <3>1, <4>1, <4>2, <4>3
      <3>2. CASE u # t
        BY <1>1, <1>3, <1>5, <1>8, <2>1, <3>2 DEF KeysGiven, PaidInv
      <3> QED
        BY <3>1, <3>2
    <2>2. \A r \in rows : 0 < r.id /\ r.id <= made'
      BY <1>1 DEF KeysGiven, PaidInv
    <2>3. \A l \in logs : l.row <= made'
      BY <1>1, <1>6
    <2> QED
      BY <2>1, <2>2, <2>3 DEF KeysGiven, PaidInv
  <1>11. ASSUME NEW r \in q.new PROVE r.paid = 0 /\ Logged(r.id) = {} /\ Keyed(r.id) = {}
    BY <1>1, <1>4, <1>6 DEF Logged, Keyed, KeysGiven, PaidInv
  <1>12. ASSUME NEW u \in Tabs, u # t, Held(u)
         PROVE  /\ \A r \in q.new, s \in Kept(u) : r.id # s.id
                /\ \A r \in req[u].new, s \in q.copies \cup q.new : r.id # s.id
    <2>1. \A r \in q.new, s \in Kept(u) : r.id # s.id
      BY <1>1, <1>4, <1>5, <1>12
    <2>2. ASSUME NEW r \in req[u].new PROVE \A s \in q.copies : r.id # s.id
      <3>1. \A s \in rows : s.id # r.id
        BY <1>12, <2>2 DEF PaidInv, NewUnknown, Keyed
      <3> QED
        BY <3>1
    <2> QED
      BY <2>1, <2>2 DEF Kept
  <1>13. NewUnknown'
    <2>1. ASSUME NEW u \in Tabs, Held(u)', NEW r \in req'[u].new
          PROVE  r.paid = 0 /\ Logged(r.id) = {} /\ Keyed(r.id) = {}
      <3>1. CASE u = t
        BY <1>3, <1>11, <2>1, <3>1
      <3>2. CASE u # t
        BY <1>3, <1>8, <2>1, <3>2 DEF PaidInv, NewUnknown
      <3> QED
        BY <3>1, <3>2
    <2>2. ASSUME NEW u \in Tabs, NEW v \in Tabs, u # v, Held(u)', Held(v)',
                 NEW r \in req'[u].new, NEW s \in Kept(v)'
          PROVE  r.id # s.id
      <3>1. CASE u = t
        BY <1>3, <1>8, <1>12, <2>2, <3>1
      <3>2. CASE v = t
        BY <1>3, <1>8, <1>9, <1>12, <2>2, <3>2
      <3>3. CASE u # t /\ v # t
        BY <1>3, <1>8, <2>2, <3>3 DEF PaidInv, NewUnknown
      <3> QED
        BY <3>1, <3>2, <3>3
    <2> QED
      BY <1>2, <2>1, <2>2 DEF NewUnknown
  <1>14. LogsFinite' /\ PaidIsRemitted'
    BY <1>2 DEF LogsFinite, PaidIsRemitted, PaidInv, Total
  <1> QED
    BY <1>10, <1>13, <1>14 DEF PaidInv

-----------------------------------------------------------------------------
\* What each action does to lines, by their keys

LEMMA SaveEditPaid ==
    ASSUME TypeInv, PaidInv, NEW t \in Tabs, SaveEdit(t)
    PROVE  PaidInv'
  <1>1. PICK c \in Rows : SavesEdit(t, c)
    BY SaveEditSaves
  <1>2. UNCHANGED <<logs, made, req>>
    BY SaveEditSaves
  <1> DEFINE old == tab[t].form
  <1>3. /\ Keyed(old.id) # {} /\ c.id = old.id /\ rows' = Saved({c})
        /\ ~c.altered => ~Overlays(old) /\ c.paid = old.paid
    BY <1>1 DEF SavesEdit
  <1> HIDE DEF old
  <1>4. PICK r \in rows : r.id = c.id
    BY <1>3 DEF Keyed
  <1>5. 0 < c.id /\ c.id <= made
    BY <1>4 DEF PaidInv, KeysGiven
  <1>6. ~c.altered => c.paid = Total(c.id)
    BY <1>3, NotAltered
  <1>7. ASSUME NEW u \in Tabs, Held(u)'
        PROVE  Held(u) /\ req'[u] = req[u] /\ \A n \in req[u].new : n.id # c.id
    BY <1>2, <1>4, <1>7 DEF Held, PaidInv, NewUnknown, Keyed
  <1> QED
    BY <1>2, <1>3, <1>5, <1>6, <1>7, SavedPaid

LEMMA SaveCreatePaid ==
    ASSUME TypeInv, PaidInv, NEW t \in Tabs, SaveCreate(t)
    PROVE  PaidInv'
  <1>1. PICK c \in Rows : c.id = made + 1 /\ c.paid = 0 /\ rows' = rows \cup {c}
    BY SaveCreateSaves
  <1>2. made' = made + 1 /\ made \in Nat /\ UNCHANGED <<logs, req>>
    BY SaveCreateSaves DEF TypeInv
  <1> DEFINE new == {c}
  <1>3. rows' = rows \cup new /\ made' \in Nat /\ made <= made'
    BY <1>1, <1>2
  <1>4. \A r \in new : r.id \in Nat /\ made < r.id /\ r.id <= made' /\ r.paid = 0
    BY <1>1, <1>2
  <1>5. \A r, o \in new : r.id = o.id => r = o
    OBVIOUS
  <1> HIDE DEF new
  <1> QED
    BY <1>2, <1>3, <1>4, <1>5, InsertedPaid

\* Lines that are generated are found by their keys.
LEMMA GeneratedApart ==
    ASSUME TypeInv, NEW who, NEW k, NEW id, NEW estimate, Generates(who, k, id, estimate),
           made' = made + Cardinality(who)
    PROVE  LET new == {Newline(id[m], m, k, estimate[m]) : m \in who}
           IN  /\ made' \in Nat /\ made <= made'
               /\ \A r \in new : r.id \in Nat /\ made < r.id /\ r.id <= made' /\ r.paid = 0
               /\ \A r, s \in new : r.id = s.id => r = s
  <1> DEFINE new == {Newline(id[m], m, k, estimate[m]) : m \in who}
  <1>1. /\ made' \in Nat /\ made <= made'
        /\ \A m \in who : id[m] \in Nat /\ made < id[m] /\ id[m] <= made'
        /\ \A m, n \in who : id[m] = id[n] => m = n
    BY KeysApart DEF Generates
  <1>2. \A m \in who : Newline(id[m], m, k, estimate[m]).id = id[m]
                       /\ Newline(id[m], m, k, estimate[m]).paid = 0
    BY GenerateNew
  <1>3. \A r \in new : r.id \in Nat /\ made < r.id /\ r.id <= made' /\ r.paid = 0
    BY <1>1, <1>2
  <1>4. \A r, s \in new : r.id = s.id => r = s
    BY <1>1, <1>2
  <1> QED
    BY <1>1, <1>3, <1>4

LEMMA GeneratePaid ==
    ASSUME TypeInv, PaidInv, NEW t \in Tabs, Generate(t)
    PROVE  PaidInv'
  <1>1. PICK who, k, id, estimate :
          /\ Generates(who, k, id, estimate) /\ made' = made + Cardinality(who)
          /\ rows' = rows \cup {Newline(id[m], m, k, estimate[m]) : m \in who}
    BY GenerateSaves
  <1>2. UNCHANGED <<logs, req>>
    BY GenerateSaves
  <1> DEFINE new == {Newline(id[m], m, k, estimate[m]) : m \in who}
  <1>3. /\ made' \in Nat /\ made <= made'
        /\ \A r \in new : r.id \in Nat /\ made < r.id /\ r.id <= made' /\ r.paid = 0
        /\ \A r, s \in new : r.id = s.id => r = s
    BY <1>1, GeneratedApart
  <1>4. rows' = rows \cup new
    BY <1>1
  <1> HIDE DEF new
  <1> QED
    BY <1>2, <1>3, <1>4, InsertedPaid

LEMMA ReadLinesPaid ==
    ASSUME TypeInv, PaidInv, NEW t \in Tabs, ReadLines(t)
    PROVE  PaidInv'
  <1>1. PICK q \in LinesRead : ReadsLines(q) /\ req' = [req EXCEPT ![t] = q]
    BY ReadLinesOK
  <1>2. UNCHANGED <<rows, logs>>
    BY ReadLinesOK
  <1>3. PICK who, k, id, estimate :
          /\ Generates(who, k, id, estimate) /\ made' = made + Cardinality(who)
          /\ q.new = {Newline(id[m], m, k, estimate[m]) : m \in who}
          /\ q.copies = {Figured(r, estimate[r.member]) : r \in {s \in rows : s.month = k}}
    BY <1>1 DEF ReadsLines
  <1>4. /\ made' \in Nat /\ made <= made'
        /\ \A r \in q.new : made < r.id /\ r.id <= made' /\ r.paid = 0
        /\ \A r, s \in q.new : r.id = s.id => r = s
    BY <1>3, GeneratedApart
  <1>5. \A r \in rows : Figured(r, estimate[r.member]).id = r.id
    BY <1>3, FiguredOK, EstimateOK DEF TypeInv, Rows, Generates
  <1>6. \A c \in q.copies : \E r \in rows : c.id = r.id /\ c = Figured(r, estimate[r.member])
    BY <1>3, <1>5
  <1>7. \A c, d \in q.copies : c.id = d.id => c = d
    BY <1>6 DEF PaidInv, KeysGiven
  <1> QED
    BY <1>1, <1>2, <1>4, <1>6, <1>7, ReadPaid

LEMMA ReadFilePaid ==
    ASSUME TypeInv, PaidInv, NEW t \in Tabs, ReadFile(t)
    PROVE  PaidInv'
  <1>1. PICK q \in FileRead : ReadsFile(q) /\ req' = [req EXCEPT ![t] = q]
    BY ReadFileOK
  <1>2. UNCHANGED <<rows, logs>>
    BY ReadFileOK
  <1>3. PICK who \in SUBSET Members, k \in Months : \E id \in Keys(who) :
          made' = made + Cardinality(who) /\ q.new = {Blankline(id[m], m, k) : m \in who}
    BY <1>1 DEF ReadsFile
  <1>4. PICK id \in Keys(who) :
          made' = made + Cardinality(who) /\ q.new = {Blankline(id[m], m, k) : m \in who}
    BY <1>3
  <1>5. /\ made' \in Nat /\ made <= made'
        /\ \A m \in who : id[m] \in Nat /\ made < id[m] /\ id[m] <= made'
        /\ \A m, n \in who : id[m] = id[n] => m = n
    BY <1>4, KeysApart
  <1>6. \A m \in who : Blankline(id[m], m, k).id = id[m] /\ Blankline(id[m], m, k).paid = 0
    BY DEF Blankline
  <1>7. \A r \in q.new : made < r.id /\ r.id <= made' /\ r.paid = 0
    BY <1>4, <1>5, <1>6
  <1>8. \A r, s \in q.new : r.id = s.id => r = s
    BY <1>4, <1>5, <1>6
  <1>9. /\ \A c \in q.copies : \E r \in rows : c.id = r.id
        /\ \A c, d \in q.copies : c.id = d.id => c = d
    BY <1>1 DEF ReadsFile, PaidInv, KeysGiven
  <1> QED
    BY <1>1, <1>2, <1>5, <1>7, <1>8, <1>9, ReadPaid

\* A request that only passes changes no line.
LEMMA SamePaid ==
    ASSUME TypeInv, PaidInv, UNCHANGED <<rows, logs, made>>,
           \A u \in Tabs : Held(u)' => Held(u) /\ req'[u] = req[u]
    PROVE  PaidInv'
  <1>1. \A id : Logged(id)' = Logged(id) /\ Keyed(id)' = Keyed(id)
    BY DEF Logged, Keyed
  <1>2. \A u \in Tabs : Held(u)' => Held(u) /\ Kept(u)' = Kept(u) /\ req'[u].new = req[u].new
    BY DEF Kept
  <1>3. KeysGiven'
    BY <1>2 DEF PaidInv, KeysGiven
  <1>4. NewUnknown'
    BY <1>1, <1>2 DEF PaidInv, NewUnknown
  <1>5. LogsFinite' /\ PaidIsRemitted'
    BY <1>1 DEF PaidInv, LogsFinite, PaidIsRemitted
  <1> QED
    BY <1>3, <1>4, <1>5 DEF PaidInv

\* A deletion takes the row, and its key from the log.
LEMMA DeletePaid ==
    ASSUME TypeInv, PaidInv, NEW t \in Tabs, Delete(t)
    PROVE  PaidInv'
  <1> DEFINE id == tab[t].form.id
  <1>1. /\ logs' = {Unlinked(l, id) : l \in logs} /\ rows' = rows \ Keyed(id)
        /\ UNCHANGED <<req, made>>
    BY DeleteOK DEF Delete, Answered
  <1>2. \E r \in rows : r.id = id
    BY DEF Delete, Keyed
  <1>3. id # 0 /\ made \in Nat
    BY <1>2 DEF PaidInv, KeysGiven, TypeInv
  <1> HIDE DEF id
  <1>4. \A l \in logs : l.row \in Nat /\ l \in Lines
    BY DEF TypeInv, Lines
  <1>5. \A l \in logs : IF l.row = id THEN Unlinked(l, id).row = 0 ELSE Unlinked(l, id) = l
    BY <1>4 DEF Unlinked, Lines
  <1>6. ASSUME NEW j, j # 0
        PROVE  Logged(j)' = IF j = id THEN {} ELSE Logged(j)
    <2>1. \A l \in logs' : \E o \in logs : l = Unlinked(o, id)
      BY <1>1
    <2>2. CASE j = id
      <3>1. \A l \in logs' : l.row # j
        BY <1>3, <1>5, <2>1, <2>2
      <3> QED
        BY <2>2, <3>1 DEF Logged
    <2>3. CASE j # id
      <3>1. ASSUME NEW l \in logs', l.row = j PROVE l \in logs
        BY <1>5, <1>6, <2>1, <3>1
      <3>2. ASSUME NEW l \in logs, l.row = j PROVE l \in logs'
        BY <1>1, <1>5, <2>3, <3>2
      <3> QED
        BY <2>3, <3>1, <3>2 DEF Logged
    <2> QED
      BY <2>2, <2>3
  <1>7. KeysGiven'
    <2>1. ASSUME NEW l \in logs' PROVE l.row <= made
      <3>1. PICK o \in logs : l = Unlinked(o, id)
        BY <1>1
      <3>2. o.row <= made /\ 0 <= made
        BY <1>3 DEF PaidInv, KeysGiven
      <3> QED
        BY <1>5, <3>1, <3>2
    <2> QED
      BY <1>1, <2>1 DEF PaidInv, KeysGiven, Held, Kept
  <1>8. NewUnknown'
    <2>1. ASSUME NEW u \in Tabs, Held(u), NEW r \in req[u].new
          PROVE  Logged(r.id)' = {} /\ Keyed(r.id)' = {}
      <3>1. Logged(r.id) = {} /\ Keyed(r.id) = {} /\ 0 < r.id
        BY <2>1 DEF PaidInv, NewUnknown, KeysGiven, Kept
      <3>2. r.id # 0
        BY <3>1
      <3> QED
        BY <1>1, <1>6, <3>1, <3>2 DEF Keyed
    <2> QED
      BY <1>1, <2>1 DEF PaidInv, NewUnknown, Held, Kept
  <1>9. LogsFinite'
    BY <1>6, FS_EmptySet DEF PaidInv, LogsFinite
  <1>10. PaidIsRemitted'
    <2>1. ASSUME NEW r \in rows', ~r.altered PROVE r.paid = Total(r.id)'
      <3>1. r \in rows /\ r.id # id /\ r.id # 0
        BY <1>1, <2>1 DEF Keyed, PaidInv, KeysGiven
      <3>2. Total(r.id)' = Total(r.id)
        BY <1>6, <3>1, TotalStays
      <3> QED
        BY <2>1, <3>1, <3>2 DEF PaidInv, PaidIsRemitted, Total
    <2> QED
      BY <2>1 DEF PaidIsRemitted, Total
  <1> QED
    BY <1>7, <1>8, <1>9, <1>10 DEF PaidInv

LEMMA SaveLinesPaid ==
    ASSUME TypeInv, PaidInv, NEW t \in Tabs, SaveLines(t)
    PROVE  PaidInv'
  <1>1. CASE Clash(req[t].copies)
    <2>1. Fail(t)
      BY <1>1 DEF SaveLines
    <2>2. PICK r \in Passing : req' = [req EXCEPT ![t] = r]
      BY <2>1, FailPasses DEF Passes
    <2>3. UNCHANGED <<rows, logs, made>>
      BY <2>1 DEF Fail, dbVars
    <2>4. \A u \in Tabs : Held(u)' => Held(u) /\ req'[u] = req[u]
      BY <2>2, PassingOK, OthersHold
    <2> QED
      BY <2>3, <2>4, SamePaid
  <1>2. CASE ~Clash(req[t].copies)
    <2> DEFINE q == req[t]
               Marked(c) == [c EXCEPT !.altered = Overlays(c)]
               marked == {Marked(c) : c \in q.copies}
               saved == marked \cup q.new
    <2>1. q \in LinesRead
      BY StageOfRequest DEF TypeInv, SaveLines, At
    <2>2. rows' = Saved(saved) /\ UNCHANGED <<logs, made>>
      BY <1>2 DEF SaveLines
    <2>3. PICK p \in Passing : req' = [req EXCEPT ![t] = p]
      BY SaveLinesOK DEF Passes
    <2>4. Held(t) /\ Kept(t) = q.copies \cup q.new
      BY <2>1 DEF Held, Kept
    <2>5. \A c \in q.copies : Marked(c).id = c.id /\ Marked(c).paid = c.paid
                              /\ (Marked(c).altered <=> Overlays(c))
      BY <2>1, OverlaysBool DEF LinesRead, Rows
    <2> HIDE DEF Marked
    <2>6. \A r \in saved : \/ \E c \in q.copies : r = Marked(c)
                           \/ r \in q.new
      OBVIOUS
    <2>7. \A r \in saved : \E c \in Kept(t) : c.id = r.id
      BY <2>4, <2>5, <2>6
    <2>8. ASSUME NEW r \in saved
          PROVE  /\ 0 < r.id /\ r.id <= made
                 /\ ~r.altered => r.paid = Total(r.id)
      <3>1. 0 < r.id /\ r.id <= made
        BY <2>4, <2>7 DEF PaidInv, KeysGiven
      <3>2. CASE \E c \in q.copies : r = Marked(c)
        BY <2>5, <3>1, <3>2, NotAltered
      <3>3. CASE r \in q.new
        BY <2>4, <3>1, <3>3, TotalOfNone DEF PaidInv, NewUnknown
      <3> QED
        BY <2>6, <3>2, <3>3
    <2>9. \A r, s \in saved : r.id = s.id => r = s
      BY <2>4, <2>5, <2>6 DEF PaidInv, KeysGiven
    <2> HIDE DEF saved
    <2>10. ASSUME NEW u \in Tabs, Held(u)'
           PROVE  /\ Held(u) /\ req'[u] = req[u]
                  /\ \A r \in req[u].new, c \in saved : r.id # c.id
      <3>1. u # t /\ Held(u) /\ req'[u] = req[u]
        BY <2>3, <2>10, PassingOK, OthersHold
      <3>2. \A r \in req[u].new, c \in Kept(t) : r.id # c.id
        BY <2>4, <3>1 DEF PaidInv, NewUnknown
      <3> QED
        BY <2>7, <3>1, <3>2
    <2> QED
      BY <2>2, <2>8, <2>9, <2>10, SavedPaid
  <1> QED
    BY <1>1, <1>2

\* A commit logs for each of its lines what is added to the amount paid.
LEMMA LoggedOnce ==
    ASSUME TypeInv, FeeInv, PaidInv, NEW t \in Tabs, Committing(t)
    PROVE  /\ \A r \in Kept(t) :
                 /\ Total(r.id) \in Int /\ IsFiniteSet(Logged(r.id)')
                 /\ Total(r.id)' = Total(r.id) + req[t].file[r.member]
           /\ \A id : (\A r \in Kept(t) : r.id # id) => Logged(id)' = Logged(id)
           /\ \A l \in logs' : l \in logs \/ \E r \in Kept(t) : l.row = r.id
  <1> DEFINE q == req[t]
  <1>1. /\ q \in FileRead /\ OfItsFile(q) /\ Kept(t) = q.copies \cup q.new /\ Held(t)
        /\ logs' = logs \cup {Log(q, r) : r \in Kept(t)}
    BY DEF Committing, Kept, Held
  <1>2. q.batch \notin Committed
    BY <1>1 DEF FeeInv, BatchesApart, Begun
  <1>3. ASSUME NEW r \in Kept(t)
        PROVE  /\ Log(q, r) \in Lines /\ Log(q, r).row = r.id /\ Log(q, r) \notin logs
               /\ Log(q, r).remitted = q.file[r.member]
               /\ r.id \in Nat \ {0}
    <2>1. Log(q, r) \in Lines /\ Log(q, r).batch = q.batch
      BY <1>1, LogOK
    <2>2. Log(q, r).row = r.id /\ Log(q, r).remitted = q.file[r.member]
      BY <1>1, LogOK
    <2>3. r.id \in Nat /\ 0 < r.id
      BY <1>1 DEF PaidInv, KeysGiven, FileRead, Rows
    <2> QED
      BY <1>2, <2>1, <2>2, <2>3 DEF Committed
  <1> HIDE DEF q
  <1>4. ASSUME NEW r \in Kept(t)
        PROVE  /\ Total(r.id) \in Int /\ IsFiniteSet(Logged(r.id)')
               /\ Total(r.id)' = Total(r.id) + q.file[r.member]
    <2>1. \A s \in Kept(t) : s.id = r.id => s = r
      BY <1>1 DEF PaidInv, KeysGiven
    <2>2. Logged(r.id)' = Logged(r.id) \cup {Log(q, r)}
      BY <1>1, <1>3, <2>1 DEF Logged
    <2>3. IsFiniteSet(Logged(r.id)) /\ Log(q, r) \notin Logged(r.id)
      BY <1>3 DEF PaidInv, LogsFinite, Logged
    <2> QED
      BY <1>3, <2>2, <2>3, TotalOfOneMore DEF TypeInv
  <1>5. ASSUME NEW id, \A r \in Kept(t) : r.id # id
        PROVE  Logged(id)' = Logged(id)
    BY <1>1, <1>3, <1>5 DEF Logged
  <1>6. \A l \in logs' : l \in logs \/ \E r \in Kept(t) : l.row = r.id
    BY <1>1, <1>3
  <1> QED
    BY <1>4, <1>5, <1>6 DEF q

LEMMA CommitPaid ==
    ASSUME TypeInv, FeeInv, PaidInv, NEW t \in Tabs, Committing(t)
    PROVE  PaidInv'
  <1> DEFINE q == req[t]
             Marked(c) == [c EXCEPT !.altered = Overlays(c)]
             marked == {AfterUpload(q, Marked(c)) : c \in q.copies}
             inserted == {AfterUpload(q, r) : r \in q.new}
             saved == marked \cup inserted
  <1>1. /\ q \in FileRead /\ OfItsFile(q) /\ Kept(t) = q.copies \cup q.new /\ Held(t)
        /\ rows' = Saved(saved) /\ UNCHANGED made
        /\ req' = [req EXCEPT ![t] = NoReq]
    BY DEF Committing, Kept, Held
  <1>2. \A r \in Kept(t) : r \in Rows /\ q.file[r.member] \in Nat
    BY <1>1, PerMemberOK, RollAssumption DEF OfItsFile, FileRead
  <1>3. \A u \in Tabs : Held(u)' => u # t /\ Held(u) /\ req'[u] = req[u]
    <2>1. NoReq \in Passing
      BY DEF Passing
    <2> QED
      BY <1>1, <2>1, PassingOK, OthersHold
  <1>4. \A r \in Kept(t) :
          /\ Total(r.id) \in Int /\ IsFiniteSet(Logged(r.id)')
          /\ Total(r.id)' = Total(r.id) + q.file[r.member]
    BY LoggedOnce
  <1>5. /\ \A id : (\A r \in Kept(t) : r.id # id) => Logged(id)' = Logged(id)
        /\ \A l \in logs' : l \in logs \/ \E r \in Kept(t) : l.row = r.id
    BY LoggedOnce
  <1>6. ASSUME NEW r \in Kept(t)
        PROVE  LET new == AfterUpload(q, r)
               IN  new.id = r.id /\ new.paid = r.paid + q.file[r.member]
                   /\ new.altered = r.altered
    BY <1>2 DEF AfterUpload, PaidAfter, Rows
  <1>7. ASSUME NEW c \in q.copies
        PROVE  LET new == AfterUpload(q, Marked(c))
               IN  new.id = c.id /\ new.paid = c.paid + q.file[c.member]
                   /\ (new.altered <=> Overlays(c))
    <2>1. c \in Rows /\ Overlays(c) \in BOOLEAN
      BY <1>1, <1>2, OverlaysBool
    <2> QED
      BY <2>1 DEF AfterUpload, PaidAfter, Rows
  <1> HIDE DEF q, Marked
  <1>8. \A r \in saved : \/ \E c \in q.copies : r = AfterUpload(q, Marked(c))
                         \/ \E n \in q.new : r = AfterUpload(q, n)
    OBVIOUS
  <1>9. \A r \in saved : \E c \in Kept(t) : c.id = r.id
    BY <1>1, <1>6, <1>7, <1>8
  <1>10. \A r \in Kept(t) : \E s \in saved : s.id = r.id
    BY <1>1, <1>6, <1>7
  <1>11. \A r, s \in saved : r.id = s.id => r = s
    BY <1>1, <1>6, <1>7, <1>8 DEF PaidInv, KeysGiven, q
  <1>12. ASSUME NEW r \in saved
         PROVE  /\ 0 < r.id /\ r.id <= made
                /\ ~r.altered => r.paid = Total(r.id)'
    <2>1. 0 < r.id /\ r.id <= made
      BY <1>1, <1>9 DEF PaidInv, KeysGiven
    <2>2. ASSUME NEW c \in q.copies, r = AfterUpload(q, Marked(c)), ~r.altered
          PROVE  r.paid = Total(r.id)'
      <3>1. c.paid = Total(c.id)
        BY <1>7, <2>2, NotAltered
      <3> QED
        BY <1>1, <1>4, <1>7, <2>2, <3>1
    <2>3. ASSUME NEW n \in q.new, r = AfterUpload(q, n)
          PROVE  r.paid = Total(r.id)'
      <3>1. n.paid = 0 /\ Total(n.id) = 0
        BY <1>1, TotalOfNone DEF PaidInv, NewUnknown, q
      <3> QED
        BY <1>1, <1>4, <1>6, <2>3, <3>1
    <2> QED
      BY <1>8, <2>1, <2>2, <2>3
  <1> HIDE DEF saved
  <1>13. \A r \in rows' : \/ r \in rows /\ \A c \in Kept(t) : c.id # r.id
                          \/ r \in saved
    BY <1>1, <1>10 DEF Saved
  <1>14. KeysGiven'
    <2>1. \A r \in rows' : 0 < r.id /\ r.id <= made
      BY <1>12, <1>13 DEF PaidInv, KeysGiven
    <2>2. \A r, s \in rows' : r.id = s.id => r = s
      BY <1>9, <1>11, <1>13 DEF PaidInv, KeysGiven
    <2>3. \A l \in logs' : l.row <= made
      BY <1>1, <1>5 DEF PaidInv, KeysGiven
    <2>4. \A u \in Tabs : Held(u)' => Held(u) /\ Kept(u)' = Kept(u) /\ req'[u] = req[u]
      BY <1>3 DEF Kept
    <2> QED
      BY <1>1, <2>1, <2>2, <2>3, <2>4 DEF PaidInv, KeysGiven
  <1>15. NewUnknown'
    <2>1. ASSUME NEW u \in Tabs, Held(u)', NEW r \in req'[u].new
          PROVE  r.paid = 0 /\ Logged(r.id)' = {} /\ Keyed(r.id)' = {}
      <3>1. u # t /\ Held(u) /\ req'[u] = req[u]
        BY <1>3, <2>1
      <3>2. \A c \in Kept(t) : c.id # r.id
        BY <1>1, <2>1, <3>1 DEF PaidInv, NewUnknown
      <3>3. r.paid = 0 /\ Logged(r.id) = {} /\ \A s \in rows : s.id # r.id
        BY <2>1, <3>1 DEF PaidInv, NewUnknown, Keyed
      <3>4. \A s \in rows' : s.id # r.id
        BY <1>9, <1>13, <3>2, <3>3
      <3> QED
        BY <1>5, <3>2, <3>3, <3>4 DEF Keyed
    <2> QED
      BY <1>3, <2>1 DEF NewUnknown, PaidInv, Kept
  <1>16. LogsFinite'
    BY <1>4, <1>5 DEF LogsFinite, PaidInv
  <1>17. PaidIsRemitted'
    <2>1. ASSUME NEW r \in rows', ~r.altered PROVE r.paid = Total(r.id)'
      <3>1. CASE r \in rows /\ \A c \in Kept(t) : c.id # r.id
        <4>1. Total(r.id)' = Total(r.id)
          BY <1>5, <3>1, TotalStays
        <4> QED
          BY <2>1, <3>1, <4>1 DEF PaidInv, PaidIsRemitted, Total
      <3>2. CASE r \in saved
        BY <1>12, <2>1, <3>2
      <3> QED
        BY <1>13, <3>1, <3>2
    <2> QED
      BY <2>1 DEF PaidIsRemitted, Total
  <1> QED
    BY <1>14, <1>15, <1>16, <1>17 DEF PaidInv

\* Every step keeps the amounts paid.
LEMMA PaidStep ==
    ASSUME TypeInv, FeeInv, PaidInv, [Next]_vars
    PROVE  PaidInv'
  <1>1. CASE UNCHANGED vars
    BY <1>1, SamePaid DEF vars, dbVars, Held
  <1>2. ASSUME UNCHANGED <<req, rows, logs, made>>
        PROVE  PaidInv'
    BY <1>2, SamePaid DEF Held
  <1>3. CASE \/ \E m \in Members : SaveMember(m)
             \/ \E n \in Loans : Turn(n)
             \/ \E i \in Installments : PayAtCounter(i)
    BY <1>2, <1>3, SaveMemberOK, TurnOK, PayAtCounterOK
  <1>4. ASSUME NEW t \in Tabs, Looks(t)
        PROVE  PaidInv'
    BY <1>2, <1>4, LooksOK DEF dbVars
  <1>5. ASSUME NEW t \in Tabs, Passes(t), UNCHANGED <<rows, logs, made>>
        PROVE  PaidInv'
    BY <1>5, PassingOK, OthersHold, SamePaid DEF Passes
  <1>6. ASSUME NEW t \in Tabs, Regenerate(t) \/ Upload(t) \/ Fail(t)
        PROVE  PaidInv'
    BY <1>5, <1>6, SendsPass, FailPasses DEF dbVars
  <1>7. ASSUME NEW t \in Tabs, SaveBatch(t)
        PROVE  PaidInv'
    <2>1. PICK r \in BatchSaved : req' = [req EXCEPT ![t] = r]
      BY <1>7, SaveBatchOK
    <2>2. r \notin LinesRead \cup FileRead
      BY DEF BatchSaved, LinesRead, FileRead
    <2>3. UNCHANGED <<rows, logs, made>>
      BY <1>7 DEF SaveBatch
    <2> QED
      BY <2>1, <2>2, <2>3, OthersHold, SamePaid
  <1>8. ASSUME NEW t \in Tabs, Page(t)
        PROVE  PaidInv'
    BY <1>4, <1>6, <1>8, PageKinds, SaveEditPaid, SaveCreatePaid, GeneratePaid, DeletePaid
  <1>9. ASSUME NEW t \in Tabs, Server(t)
        PROVE  PaidInv'
    BY <1>6, <1>7, <1>9, ServerKinds, ReadLinesPaid, SaveLinesPaid, ReadFilePaid, CommitPaid
  <1> QED
    BY <1>1, <1>3, <1>8, <1>9 DEF Next

\* What a line says was paid is what uploads remitted for it, unless the amount
\* paid was typed or a copy older than the last remittance was saved over it,
\* however many uploads, generations, edits and deletions run beside each other
\* (process_deductions_bulk_upload, generate_monthly_deductions,
\* handleSaveEdit): DeductionRoll!PaidIsRemitted.
THEOREM PaymentsAreRemitted == Spec => []PaidIsRemitted
  <1>1. Init => TypeInv /\ FeeInv
    BY InitOK
  <1>2. Init => PaidInv
    <2> SUFFICES ASSUME Init PROVE PaidInv
      OBVIOUS
    <2>1. \A t \in Tabs : ~Held(t)
      <3>1. NoReq \in Passing
        BY DEF Passing
      <3> QED
        BY <3>1, PassingOK DEF Init, Held
    <2>2. rows = {} /\ logs = {} /\ \A id : Logged(id) = {}
      BY DEF Init, Logged
    <2> QED
      BY <2>1, <2>2, FS_EmptySet DEF PaidInv, KeysGiven, NewUnknown, LogsFinite, PaidIsRemitted
  <1>3. TypeInv /\ FeeInv /\ PaidInv /\ [Next]_vars => TypeInv' /\ FeeInv' /\ PaidInv'
    BY EveryStepOK, StepKeeps, FeeStep, PaidStep
  <1>4. PaidInv => PaidIsRemitted
    BY DEF PaidInv
  <1> QED
    BY <1>1, <1>2, <1>3, <1>4, PTL DEF Spec
=============================================================================
