------------------------ MODULE MemberWorkflowProofs ------------------------
(***************************************************************************)
(* Proofs about MemberWorkflow: for any members, tabs, permissions and     *)
(* number of requests worked on at a time, and any interleaving of them;   *)
(* and about the wizard of Registration, for lists of any length and any   *)
(* order of its pages, loads, saves and timers.                            *)
(***************************************************************************)
EXTENDS MemberWorkflow, Registration, SequenceTheorems, FiniteSetTheorems, TLAPS

(* A dossier shows nobody but its member.                                  *)
PageOK(view) ==
    /\ view \in Tab
    /\ view.dialog = "none" <=> view.on = {}
    /\ view.page = "dossier" =>
         /\ view.member # NoOne
         /\ view.on \subseteq {view.member}
         /\ \A m \in Members : m # view.member => view.shown[m] = Gone

RequestOK(r) == r \in Request /\ (r.phase \in {"sent", "read"} <=> r.on # {})

TypeInv ==
    /\ rows \in Table
    /\ edited \subseteq Members
    /\ tab \in [Tabs -> Tab] /\ \A t \in Tabs : PageOK(tab[t])
    /\ req \in [Tabs -> Request] /\ \A t \in Tabs : RequestOK(req[t])

LEMMA TypeInvImplies == TypeInv => TypeOK
BY DEF TypeInv, TypeOK, PageOK, RequestOK

LEMMA NoRequestOK == RequestOK(NoRequest)
BY DEF RequestOK, Request, NoRequest, Unread, Table

LEMMA AnsweredOK ==
    ASSUME NEW r \in Request, NEW phase \in {"ok", "failed"}
    PROVE  RequestOK(Answered(r, phase))
BY DEF RequestOK, Request, Answered, Unread, Table

LEMMA DisplayedOK ==
    ASSUME rows \in Table, NEW ms \in SUBSET Members
    PROVE  /\ Displayed(ms) \in Screen
           /\ \A m \in Members \ ms : Displayed(ms)[m] = Gone
BY DEF Displayed, Screen, Table, Row

LEMMA PageIsOK ==
    ASSUME rows \in Table, NEW m \in Members \cup {NoOne}
    PROVE  PageOK(Page(m))
<1> DEFINE ms == IF m = NoOne THEN Members ELSE {m}
<1>1. ms \in SUBSET Members
  OBVIOUS
<1>2. /\ Displayed(ms) \in Screen
      /\ \A k \in Members \ ms : Displayed(ms)[k] = Gone
  BY <1>1, DisplayedOK
<1> HIDE DEF ms
<1>3. Page(m) = [page |-> IF m = NoOne THEN "list" ELSE "dossier", member |-> m,
                 shown |-> Displayed(ms), dialog |-> "none", on |-> {}, load |-> "done"]
  BY DEF Page, ms
<1>4. Page(m) \in Tab
  BY <1>2, <1>3 DEF Tab
<1>5. m # NoOne => ms = {m}
  BY DEF ms
<1> QED
  BY <1>2, <1>3, <1>4, <1>5 DEF PageOK

LEMMA NoDialogOK ==
    ASSUME NEW view \in Tab, PageOK(view), NEW load \in {"done", "loading", "failed"}
    PROVE  /\ PageOK(NoDialog(view))
           /\ PageOK([NoDialog(view) EXCEPT !.load = load])
           /\ PageOK([view EXCEPT !.load = load])
BY DEF PageOK, NoDialog, Tab

(* One tab, or one request, is replaced by another one.                    *)
LEMMA OneTab ==
    ASSUME TypeInv, NEW t \in Tabs, NEW view, PageOK(view),
           tab' = [tab EXCEPT ![t] = view]
    PROVE  tab' \in [Tabs -> Tab] /\ \A u \in Tabs : PageOK(tab'[u])
BY DEF TypeInv, PageOK

LEMMA OneRequest ==
    ASSUME TypeInv, NEW t \in Tabs, NEW r, RequestOK(r),
           req' = [req EXCEPT ![t] = r]
    PROVE  req' \in [Tabs -> Request] /\ \A u \in Tabs : RequestOK(req'[u])
BY DEF TypeInv, RequestOK

LEMMA TabStep ==
    ASSUME TypeInv, UNCHANGED <<dbVars, req>>,
           tab' \in [Tabs -> Tab] /\ \A u \in Tabs : PageOK(tab'[u])
    PROVE  TypeInv'
BY DEF TypeInv, dbVars, PageOK, RequestOK

LEMMA RequestStep ==
    ASSUME TypeInv, UNCHANGED tab, rows' \in Table, edited' \subseteq Members,
           req' \in [Tabs -> Request] /\ \A u \in Tabs : RequestOK(req'[u])
    PROVE  TypeInv'
BY DEF TypeInv, PageOK, RequestOK

-----------------------------------------------------------------------------
(* What the operations write.                                              *)

LEMMA TouchedOK ==
    ASSUME TypeInv, NEW t \in Tabs
    PROVE  /\ Touched(t) \in SUBSET Members
           /\ \A m \in Touched(t) : req[t].snap[m] \in Row
<1>1. req[t] \in Request
  BY DEF TypeInv
<1>2. req[t].on \in SUBSET Members /\ req[t].snap \in [Members -> Row \cup {Gone}]
  BY <1>1 DEF Request, Table
<1>3. Touched(t) \subseteq req[t].on /\ \A m \in Touched(t) : req[t].snap[m] # Gone
  BY DEF Touched
<1> QED
  BY <1>2, <1>3

LEMMA PutType ==
    ASSUME TypeInv, NEW t \in Tabs, NEW table \in Table, Put(t, table),
           edited' \subseteq Members
    PROVE  TypeInv'
<1>1. req[t] \in Request
  BY DEF TypeInv
<1>2. RequestOK(Answered(req[t], "ok"))
  BY <1>1, AnsweredOK
<1>3. req' \in [Tabs -> Request] /\ \A u \in Tabs : RequestOK(req'[u])
  BY <1>2, OneRequest DEF Put
<1> QED
  BY <1>3, RequestStep DEF Put

LEMMA WriteType ==
    ASSUME TypeInv, NEW t \in Tabs, NEW table \in Table, Write(t, table)
    PROVE  TypeInv'
<1>1. Put(t, table) /\ edited' \subseteq Members
  BY DEF Write, TypeInv
<1> QED
  BY <1>1, PutType

LEMMA WritableRows ==
    ASSUME TypeInv, NEW t \in Tabs, Writable(t), req[t].op # "edit"
    PROVE  \A m \in Touched(t) : m \in Members /\ rows[m] \in Row
BY TouchedOK DEF Writable, TypeInv, Table

(* The rows that the operations leave.                                     *)
ApprovedTable(t) ==
    [m \in Members |->
       IF m \in Touched(t)
       THEN [rows[m] EXCEPT !.stage = Moved(t, m, "approved"), !.approved = TRUE]
       ELSE rows[m]]

RejectedTable(t) ==
    [m \in Members |->
       IF m \in Touched(t)
       THEN [rows[m] EXCEPT !.stage = Moved(t, m, "rejected")] ELSE rows[m]]

CompletedTable(t) ==
    [m \in Members |->
       IF m \in Touched(t) THEN [rows[m] EXCEPT !.stage = "active", !.on = TRUE] ELSE rows[m]]

DeletedTable(t) == [m \in Members |-> IF m \in Touched(t) THEN Gone ELSE rows[m]]

EditedTable(t) == [m \in Members |-> IF m \in Touched(t) THEN req[t].snap[m] ELSE rows[m]]

LEMMA TablesType ==
    ASSUME TypeInv, NEW t \in Tabs, Writable(t), req[t].op # "edit", NEW on \in BOOLEAN
    PROVE  /\ ApprovedTable(t) \in Table
           /\ RejectedTable(t) \in Table
           /\ CompletedTable(t) \in Table
           /\ Switched(t, on) \in Table
           /\ DeletedTable(t) \in Table
<1>1. \A m \in Touched(t) : m \in Members /\ rows[m] \in Row
  BY WritableRows
<1>2. \A m \in Members : rows[m] \in Row \cup {Gone}
  BY DEF TypeInv, Table
<1>3. \A m \in Touched(t), stage \in {"approved", "rejected"} : Moved(t, m, stage) \in Stages
  BY <1>1 DEF Moved, Row, Stages
<1>4. ApprovedTable(t) \in Table
  BY <1>1, <1>2, <1>3 DEF ApprovedTable, Table, Row
<1>5. RejectedTable(t) \in Table
  BY <1>1, <1>2, <1>3 DEF RejectedTable, Table, Row
<1>6. CompletedTable(t) \in Table
  BY <1>1, <1>2 DEF CompletedTable, Table, Row, Stages
<1>7. Switched(t, on) \in Table
  BY <1>1, <1>2 DEF Switched, Table, Row
<1>8. DeletedTable(t) \in Table
  BY <1>2 DEF DeletedTable, Table
<1> QED
  BY <1>4, <1>5, <1>6, <1>7, <1>8

(* Every workflow operation writes one of these tables.                    *)
Operation(t) ==
    \/ Approve(t) \/ Reject(t) \/ Complete(t) \/ Activate(t) \/ Deactivate(t)
    \/ BulkActivate(t) \/ BulkDeactivate(t) \/ Delete(t)

LEMMA OperationType ==
    ASSUME TypeInv, NEW t \in Tabs, Operation(t)
    PROVE  TypeInv'
<1>1. req[t].op # "edit" /\ Writable(t)
  BY DEF Operation, Approve, Reject, Complete, Activate, Deactivate, BulkActivate,
         BulkDeactivate, Delete, Working, Write, Put
<1>2. \E table \in {ApprovedTable(t), RejectedTable(t), CompletedTable(t),
                    Switched(t, TRUE), Switched(t, FALSE), DeletedTable(t)} :
         Write(t, table)
  BY DEF Operation, Approve, Reject, Complete, Activate, Deactivate, BulkActivate,
         BulkDeactivate, Delete, ApprovedTable, RejectedTable, CompletedTable, DeletedTable
<1>3. PICK table \in {ApprovedTable(t), RejectedTable(t), CompletedTable(t),
                     Switched(t, TRUE), Switched(t, FALSE), DeletedTable(t)} :
         Write(t, table)
  BY <1>2
<1>4. table \in Table
  BY <1>1, <1>3, TablesType
<1> QED
  BY <1>3, <1>4, WriteType

LEMMA EditType ==
    ASSUME TypeInv, NEW t \in Tabs, Edit(t)
    PROVE  TypeInv'
<1>1. EditedTable(t) \in Table
  BY TouchedOK DEF EditedTable, TypeInv, Table
<1>2. Put(t, EditedTable(t)) /\ edited' \subseteq Members
  BY TouchedOK DEF Edit, EditedTable, TypeInv
<1> QED
  BY <1>1, <1>2, PutType

-----------------------------------------------------------------------------
(* What the screens and the answers do.                                    *)

LEMMA VisitType ==
    ASSUME TypeInv, NEW t \in Tabs, NEW m \in Members \cup {NoOne}, Visit(t, m)
    PROVE  TypeInv'
<1>1. PageOK(Page(m))
  BY PageIsOK DEF TypeInv
<1>2. tab' = [tab EXCEPT ![t] = Page(m)] /\ UNCHANGED <<dbVars, req>>
  BY DEF Visit
<1> QED
  BY <1>1, <1>2, OneTab, TabStep

LEMMA OpenedOK ==
    ASSUME NEW view, PageOK(view), NEW op \in Ops, NEW ms \in SUBSET Members, ms # {},
           view.page = "dossier" => ms \subseteq {view.member}
    PROVE  PageOK([view EXCEPT !.dialog = op, !.on = ms])
BY DEF PageOK, Tab, Ops, Single, Bulk

LEMMA OpenType ==
    ASSUME TypeInv, NEW t \in Tabs, NEW op \in Single, NEW m \in Members, Open(t, op, m)
    PROVE  TypeInv'
<1>1. PageOK(tab[t]) /\ op \in Ops
  BY DEF TypeInv, Ops
<1>2. tab[t].page = "dossier" => {m} \subseteq {tab[t].member}
  BY <1>1 DEF Open, PageOK
<1>3. PageOK([tab[t] EXCEPT !.dialog = op, !.on = {m}])
  BY <1>1, <1>2, OpenedOK
<1>4. tab' = [tab EXCEPT ![t] = [tab[t] EXCEPT !.dialog = op, !.on = {m}]]
  BY DEF Open, TypeInv
<1> QED
  BY <1>3, <1>4, OneTab, TabStep DEF Open

LEMMA OpenBulkType ==
    ASSUME TypeInv, NEW t \in Tabs, NEW op \in Bulk, NEW ms \in (SUBSET Members) \ {{}},
           OpenBulk(t, op, ms)
    PROVE  TypeInv'
<1>1. PageOK(tab[t]) /\ op \in Ops /\ tab[t].page # "dossier"
  BY DEF TypeInv, Ops, OpenBulk
<1>2. PageOK([tab[t] EXCEPT !.dialog = op, !.on = ms])
  BY <1>1, OpenedOK
<1>3. tab' = [tab EXCEPT ![t] = [tab[t] EXCEPT !.dialog = op, !.on = ms]]
  BY DEF OpenBulk, TypeInv
<1> QED
  BY <1>2, <1>3, OneTab, TabStep DEF OpenBulk

LEMMA CloseType ==
    ASSUME TypeInv, NEW t \in Tabs, Close(t)
    PROVE  TypeInv'
<1>1. PageOK(NoDialog(tab[t]))
  BY NoDialogOK DEF TypeInv
<1>2. tab' = [tab EXCEPT ![t] = NoDialog(tab[t])]
  BY DEF Close, TypeInv
<1> QED
  BY <1>1, <1>2, OneTab, TabStep DEF Close

(* Every dialog sends what it was opened for.                              *)
LEMMA DialogsConfirm ==
    ASSUME NEW t \in Tabs, Dialogs(t)
    PROVE  Confirm(t)
BY DEF Dialogs, EditForm, ApproveDialog, RejectDialog, CompleteDialog, ActivateDialog,
       DeactivateDialog, BulkActivateDialog, BulkDeactivateDialog, DeleteDialog

LEMMA ConfirmType ==
    ASSUME TypeInv, NEW t \in Tabs, Confirm(t)
    PROVE  TypeInv'
<1> DEFINE seen == [m \in Members |->
                      IF m \in tab[t].on /\ tab[t].shown[m] # Gone
                      THEN tab[t].shown[m].stage ELSE Gone]
<1>1. tab[t] \in Tab /\ tab[t].dialog \in Ops /\ tab[t].on # {}
  BY DEF TypeInv, PageOK, Tab, Confirm
<1>2. tab[t].shown \in Screen /\ tab[t].on \in SUBSET Members
  BY <1>1 DEF Tab
<1>3. seen \in [Members -> Stages \cup {Gone}]
  BY <1>2 DEF Screen
<1> HIDE DEF seen
<1> DEFINE r == [op |-> tab[t].dialog, on |-> tab[t].on, seen |-> seen,
                 snap |-> Unread, phase |-> "sent"]
<1>4. RequestOK(r)
  BY <1>1, <1>2, <1>3 DEF RequestOK, Request, Unread, Table
<1>5. req' = [req EXCEPT ![t] = r] /\ UNCHANGED <<dbVars, tab>>
  BY DEF Confirm, seen
<1> HIDE DEF r
<1>6. req' \in [Tabs -> Request] /\ \A u \in Tabs : RequestOK(req'[u])
  BY <1>4, <1>5, OneRequest
<1> QED
  BY <1>5, <1>6, RequestStep DEF TypeInv, dbVars

LEMMA ReadType ==
    ASSUME TypeInv, NEW t \in Tabs, Read(t)
    PROVE  TypeInv'
<1>1. req[t] \in Request /\ RequestOK(req[t]) /\ req[t].phase = "sent"
  BY DEF TypeInv, Read
<1>2. RequestOK(Answered(req[t], "failed"))
  BY <1>1, AnsweredOK
<1>3. Of(rows, req[t].on) \in Table
  BY DEF Of, TypeInv, Table
<1>4. RequestOK([req[t] EXCEPT !.snap = Of(rows, req[t].on), !.phase = "read"])
  BY <1>1, <1>3 DEF RequestOK, Request
<1>5. \E r \in {Answered(req[t], "failed"),
                [req[t] EXCEPT !.snap = Of(rows, req[t].on), !.phase = "read"]} :
         req' = [req EXCEPT ![t] = r]
  BY DEF Read, TypeInv
<1>6. req' \in [Tabs -> Request] /\ \A u \in Tabs : RequestOK(req'[u])
  BY <1>2, <1>4, <1>5, OneRequest
<1> QED
  BY <1>6, RequestStep DEF Read, TypeInv, dbVars

LEMMA RefuseType ==
    ASSUME TypeInv, NEW t \in Tabs, Refuse(t)
    PROVE  TypeInv'
<1>1. RequestOK(Answered(req[t], "failed"))
  BY AnsweredOK DEF TypeInv
<1>2. req' = [req EXCEPT ![t] = Answered(req[t], "failed")] /\ UNCHANGED <<dbVars, tab>>
  BY DEF Refuse, TypeInv
<1>3. req' \in [Tabs -> Request] /\ \A u \in Tabs : RequestOK(req'[u])
  BY <1>1, <1>2, OneRequest
<1> QED
  BY <1>2, <1>3, RequestStep DEF TypeInv, dbVars

LEMMA AnswerType ==
    ASSUME TypeInv, NEW t \in Tabs, Success(t) \/ Failure(t)
    PROVE  TypeInv'
<1>1. PageOK(tab[t]) /\ tab[t] \in Tab
  BY DEF TypeInv
<1>2. PageOK(Page(NoOne))
  BY PageIsOK DEF TypeInv
<1>3. PageOK([tab[t] EXCEPT !.load = "loading"])
      /\ PageOK([NoDialog(tab[t]) EXCEPT !.load = "loading"])
  BY <1>1, NoDialogOK
<1>4. \/ UNCHANGED tab
      \/ \E view \in {Page(NoOne), [tab[t] EXCEPT !.load = "loading"],
                     [NoDialog(tab[t]) EXCEPT !.load = "loading"]} :
           tab' = [tab EXCEPT ![t] = view]
  BY DEF Success, Failure, TypeInv
<1>5. tab' \in [Tabs -> Tab] /\ \A u \in Tabs : PageOK(tab'[u])
  <2>1. CASE UNCHANGED tab
    BY <2>1 DEF TypeInv
  <2>2. CASE ~(UNCHANGED tab)
    BY <1>2, <1>3, <1>4, <2>2, OneTab
  <2> QED
    BY <2>1, <2>2
<1>6. req' = [req EXCEPT ![t] = NoRequest] /\ UNCHANGED dbVars
  BY DEF Success, Failure, Done
<1>7. req' \in [Tabs -> Request] /\ \A u \in Tabs : RequestOK(req'[u])
  BY <1>6, NoRequestOK, OneRequest
<1> QED
  BY <1>5, <1>6, <1>7 DEF TypeInv, dbVars

LEMMA RereadOK ==
    ASSUME NEW view \in Tab, PageOK(view)
    PROVE  /\ Reread(view) \in Tab /\ PageOK(Reread(view))
           /\ Reread(view).page = view.page /\ Reread(view).member = view.member
<1>1. PageOK(NoDialog(view)) /\ NoDialog(view) \in Tab
      /\ NoDialog(view).page = view.page /\ NoDialog(view).member = view.member
  BY DEF NoDialog, PageOK, Tab
<1> QED
  BY <1>1 DEF Reread

LEMMA RefreshType ==
    ASSUME TypeInv, NEW t \in Tabs, Refresh(t) \/ RefreshFails(t)
    PROVE  TypeInv'
<1> DEFINE view == Reread(tab[t])
           shown == Page(tab[t].member).shown
<1>1. PageOK(tab[t]) /\ tab[t] \in Tab /\ tab[t].member \in Members \cup {NoOne}
  BY DEF TypeInv, Tab
<1>2. view \in Tab /\ PageOK(view) /\ view.page = tab[t].page /\ view.member = tab[t].member
  BY <1>1, RereadOK
<1>3. shown = Displayed(IF tab[t].member = NoOne THEN Members ELSE {tab[t].member})
  BY DEF Page
<1>4. /\ shown \in Screen
      /\ tab[t].member # NoOne =>
           \A m \in Members : m # tab[t].member => shown[m] = Gone
  <2>1. CASE tab[t].member = NoOne
    BY <1>3, <2>1, DisplayedOK DEF TypeInv
  <2>2. CASE tab[t].member # NoOne
    BY <1>1, <1>3, <2>2, DisplayedOK DEF TypeInv
  <2> QED
    BY <2>1, <2>2
<1>5. CASE Refresh(t)
  <2>1. tab' = [tab EXCEPT ![t] = [view EXCEPT !.shown = shown, !.load = "done"]]
    BY <1>5 DEF Refresh, TypeInv
  <2> HIDE DEF view, shown
  <2>2. PageOK([view EXCEPT !.shown = shown, !.load = "done"])
    BY <1>2, <1>4 DEF PageOK, Tab
  <2> QED
    BY <1>5, <2>1, <2>2, OneTab, TabStep DEF Refresh
<1>6. CASE RefreshFails(t)
  <2>1. PICK load \in {"done", "failed"} :
          tab' = [tab EXCEPT ![t] = [view EXCEPT !.load = load]]
    BY <1>6 DEF RefreshFails, TypeInv
  <2> HIDE DEF view
  <2>2. PageOK([view EXCEPT !.load = load])
    BY <1>2, NoDialogOK
  <2> QED
    BY <1>6, <2>1, <2>2, OneTab, TabStep DEF RefreshFails
<1> QED
  BY <1>5, <1>6

LEMMA StepType ==
    ASSUME TypeInv, [Next]_vars
    PROVE  TypeInv'
<1>1. CASE UNCHANGED vars
  BY <1>1 DEF vars, dbVars, TypeInv, PageOK, RequestOK
<1>2. CASE Next
  <2>1. PICK t \in Tabs :
          \/ \E m \in Members \cup {NoOne} : Visit(t, m)
          \/ \E m \in Members, op \in Single : Open(t, op, m)
          \/ \E ms \in (SUBSET Members) \ {{}}, op \in Bulk : OpenBulk(t, op, ms)
          \/ Close(t) \/ Dialogs(t) \/ Serve(t)
          \/ Success(t) \/ Failure(t) \/ Refresh(t) \/ RefreshFails(t)
    BY <1>2 DEF Next
  <2>2. CASE Serve(t)
    BY <2>2, ReadType, RefuseType, OperationType, EditType DEF Serve, Operation
  <2>3. CASE ~Serve(t)
    BY <2>1, <2>3, VisitType, OpenType, OpenBulkType, CloseType, DialogsConfirm, ConfirmType,
       AnswerType, RefreshType
  <2> QED
    BY <2>2, <2>3
<1> QED
  BY <1>1, <1>2

LEMMA InitType == Init => TypeInv
<1> SUFFICES ASSUME Init PROVE TypeInv
  OBVIOUS
<1>1. rows \in Table /\ edited \subseteq Members
  BY DEF Init, Table, Row, Stages
<1>2. PageOK(Page(NoOne))
  BY <1>1, PageIsOK
<1>3. \A t \in Tabs : tab[t] = Page(NoOne) /\ req[t] = NoRequest
  BY DEF Init
<1> QED
  BY <1>1, <1>2, <1>3, NoRequestOK DEF Init, TypeInv, PageOK, RequestOK

(* Rows, screens and requests keep their types, and a dialog or a request  *)
(* that is open is about a member (MemberWorkflow!TypeOK).                 *)
THEOREM TypesHold == Spec => []TypeOK
<1>1. Spec => []TypeInv
  BY InitType, StepType, PTL DEF Spec
<1> QED
  BY <1>1, TypeInvImplies, PTL

-----------------------------------------------------------------------------
(* No account is active that nobody approved.                              *)

(* A row in a stage after the approval names who approved it.              *)
Named(row) == row.on \/ row.stage \in {"approved", "active"} => row.approved

(* What a request has read in such a stage is approved still, or gone.     *)
ReadApproved(m) ==
    \A t \in Tabs :
      /\ req[t].phase = "read"
      /\ req[t].snap[m] # Gone /\ req[t].snap[m].stage \in {"approved", "active"}
      => rows[m] = Gone \/ rows[m].approved

ApprovalInv ==
    \A m \in Members \ edited :
      (rows[m] # Gone => Named(rows[m])) /\ ReadApproved(m)

(* A table that keeps what was approved and revives nobody.                *)
Keeps(table) ==
    \A m \in Members \ edited :
      /\ rows[m] = Gone => table[m] = Gone
      /\ table[m] # Gone => Named(table[m]) /\ (rows[m].approved => table[m].approved)

LEMMA PutApproval ==
    ASSUME TypeInv, ApprovalInv, NEW t \in Tabs, NEW table \in Table, Keeps(table),
           Write(t, table)
    PROVE  ApprovalInv'
<1>1. /\ rows' = table /\ edited' = edited
      /\ req' = [req EXCEPT ![t] = Answered(req[t], "ok")]
  BY DEF Write, Put, TypeInv
<1>2. \A u \in Tabs : req'[u].phase = "read" => req'[u] = req[u]
  BY <1>1 DEF Answered, TypeInv, Request
<1>3. \A m \in Members \ edited : ReadApproved(m)'
  BY <1>1, <1>2 DEF ApprovalInv, ReadApproved, Keeps
<1> QED
  BY <1>1, <1>3 DEF ApprovalInv, Keeps, Named

(* Permitted and Touched let only approved members become active.          *)
LEMMA TablesApproval ==
    ASSUME TypeInv, ApprovalInv, NEW t \in Tabs, Operation(t)
    PROVE  \E table \in Table : Keeps(table) /\ Write(t, table)
<1>1. /\ req[t].op # "edit" /\ Writable(t) /\ Permitted(t) /\ req[t].phase = "read"
  BY DEF Operation, Approve, Reject, Complete, Activate, Deactivate, BulkActivate,
         BulkDeactivate, Delete, Working, Write, Put
<1>2. \A m \in Touched(t) : m \in Members /\ rows[m] \in Row /\ req[t].snap[m] \in Row
  BY <1>1, TouchedOK, WritableRows
<1>3. \A m \in Touched(t) : req[t].snap[m] # Gone /\ rows[m] # Gone
  BY <1>2, GoneAssumption
<1>4. \A m \in Touched(t) \ edited :
         /\ Named(rows[m])
         /\ req[t].snap[m].stage \in {"approved", "active"} => rows[m].approved
  BY <1>1, <1>2, <1>3 DEF ApprovalInv, ReadApproved
<1>5. \A m \in Members \ edited : rows[m] # Gone => Named(rows[m])
  BY DEF ApprovalInv
<1>6. CASE Approve(t)
  <2>1. ApprovedTable(t) \in Table /\ Write(t, ApprovedTable(t))
    BY <1>1, <1>6, TablesType DEF Approve, ApprovedTable
  <2>2. Keeps(ApprovedTable(t))
    BY <1>2, <1>3, <1>5 DEF Keeps, ApprovedTable, Named, Row
  <2> QED
    BY <2>1, <2>2
<1>7. CASE Reject(t)
  <2>1. RejectedTable(t) \in Table /\ Write(t, RejectedTable(t))
    BY <1>1, <1>7, TablesType DEF Reject, RejectedTable
  <2>2. \A m \in Touched(t) : Moved(t, m, "rejected") \in {"rejected", rows[m].stage}
    BY DEF Moved
  <2>3. Keeps(RejectedTable(t))
    BY <1>2, <1>3, <1>5, <2>2 DEF Keeps, RejectedTable, Named, Row
  <2> QED
    BY <2>1, <2>3
<1>8. CASE Complete(t)
  <2>1. CompletedTable(t) \in Table /\ Write(t, CompletedTable(t))
    BY <1>1, <1>8, TablesType DEF Complete, CompletedTable
  <2>2. \A m \in Touched(t) \ edited : rows[m].approved
    BY <1>1, <1>4, <1>8 DEF Complete, Working, Permitted
  <2>3. Keeps(CompletedTable(t))
    BY <1>2, <1>3, <1>5, <2>2 DEF Keeps, CompletedTable, Named, Row
  <2> QED
    BY <2>1, <2>3
<1>9. CASE Activate(t) \/ BulkActivate(t)
  <2>1. Switched(t, TRUE) \in Table /\ Write(t, Switched(t, TRUE))
    BY <1>1, <1>9, TablesType DEF Activate, BulkActivate
  <2>2. \A m \in Touched(t) \ edited : rows[m].approved
    BY <1>1, <1>4, <1>9 DEF Activate, BulkActivate, Working, Permitted, Touched
  <2>3. Keeps(Switched(t, TRUE))
    BY <1>2, <1>3, <1>5, <2>2 DEF Keeps, Switched, Named, Row
  <2> QED
    BY <2>1, <2>3
<1>10. CASE Deactivate(t) \/ BulkDeactivate(t)
  <2>1. Switched(t, FALSE) \in Table /\ Write(t, Switched(t, FALSE))
    BY <1>1, <1>10, TablesType DEF Deactivate, BulkDeactivate
  <2>2. Keeps(Switched(t, FALSE))
    BY <1>2, <1>3, <1>5 DEF Keeps, Switched, Named, Row
  <2> QED
    BY <2>1, <2>2
<1>11. CASE Delete(t)
  <2>1. DeletedTable(t) \in Table /\ Write(t, DeletedTable(t))
    BY <1>1, <1>11, TablesType DEF Delete, DeletedTable
  <2>2. Keeps(DeletedTable(t))
    BY <1>5 DEF Keeps, DeletedTable
  <2> QED
    BY <2>1, <2>2
<1> QED
  BY <1>6, <1>7, <1>8, <1>9, <1>10, <1>11 DEF Operation

LEMMA EditApproval ==
    ASSUME TypeInv, ApprovalInv, NEW t \in Tabs, Edit(t)
    PROVE  ApprovalInv'
<1>1. /\ rows' = EditedTable(t) /\ edited' = edited \cup Touched(t)
      /\ req' = [req EXCEPT ![t] = Answered(req[t], "ok")]
  BY DEF Edit, Put, EditedTable, TypeInv
<1>2. \A m \in Members \ edited' : m \in Members \ edited /\ rows'[m] = rows[m]
  BY <1>1 DEF EditedTable
<1>3. \A u \in Tabs : req'[u].phase = "read" => req'[u] = req[u]
  BY <1>1 DEF Answered, TypeInv, Request
<1>4. \A m \in Members \ edited' : ReadApproved(m)'
  BY <1>2, <1>3 DEF ApprovalInv, ReadApproved
<1> QED
  BY <1>2, <1>4 DEF ApprovalInv, Named

LEMMA ReadApproval ==
    ASSUME TypeInv, ApprovalInv, NEW t \in Tabs, Read(t)
    PROVE  ApprovalInv'
<1>1. rows' = rows /\ edited' = edited
  BY DEF Read, dbVars
<1>2. \A u \in Tabs : u # t => req'[u] = req[u]
  BY DEF Read, TypeInv
<1>3. req'[t].phase = "read" => req'[t].snap = Of(rows, req[t].on)
  BY DEF Read, Answered, TypeInv, Request
<1>4. ASSUME NEW m \in Members \ edited PROVE ReadApproved(m)'
  <2>1. req'[t].phase = "read" /\ req'[t].snap[m] # Gone => req'[t].snap[m] = rows[m]
    BY <1>3 DEF Of
  <2> QED
    BY <1>1, <1>2, <2>1 DEF ApprovalInv, ReadApproved, Named
<1> QED
  BY <1>1, <1>4 DEF ApprovalInv, Named

(* A request that is not read, and rows that stay as they are.             *)
LEMMA QuietApproval ==
    ASSUME ApprovalInv, UNCHANGED dbVars,
           \A u \in Tabs : req'[u].phase = "read" => req'[u] = req[u]
    PROVE  ApprovalInv'
BY DEF ApprovalInv, ReadApproved, Named, dbVars

LEMMA StepApproval ==
    ASSUME TypeInv, ApprovalInv, [Next]_vars
    PROVE  ApprovalInv'
<1>1. CASE UNCHANGED vars
  <2>1. UNCHANGED dbVars /\ req' = req
    BY <1>1 DEF vars, dbVars
  <2>2. \A u \in Tabs : req'[u].phase = "read" => req'[u] = req[u]
    BY <2>1
  <2> QED
    BY <2>1, <2>2, QuietApproval
<1>2. CASE Next
  <2>1. PICK t \in Tabs :
          \/ \E m \in Members \cup {NoOne} : Visit(t, m)
          \/ \E m \in Members, op \in Single : Open(t, op, m)
          \/ \E ms \in (SUBSET Members) \ {{}}, op \in Bulk : OpenBulk(t, op, ms)
          \/ Close(t) \/ Dialogs(t) \/ Serve(t)
          \/ Success(t) \/ Failure(t) \/ Refresh(t) \/ RefreshFails(t)
    BY <1>2 DEF Next
  <2>2. CASE Operation(t)
    BY <2>2, TablesApproval, PutApproval
  <2>3. CASE Edit(t)
    BY <2>3, EditApproval
  <2>4. CASE Read(t)
    BY <2>4, ReadApproval
  <2>5. CASE Refuse(t)
    <3>1. UNCHANGED dbVars /\ req' = [req EXCEPT ![t] = Answered(req[t], "failed")]
      BY <2>5 DEF Refuse, TypeInv
    <3>2. \A u \in Tabs : req'[u].phase = "read" => req'[u] = req[u]
      BY <3>1 DEF Answered, TypeInv, Request
    <3> QED
      BY <3>1, <3>2, QuietApproval
  <2>6. CASE Success(t) \/ Failure(t)
    <3>1. UNCHANGED dbVars /\ req' = [req EXCEPT ![t] = NoRequest]
      BY <2>6 DEF Success, Failure, Done
    <3>2. \A u \in Tabs : req'[u].phase = "read" => req'[u] = req[u]
      BY <3>1 DEF NoRequest, TypeInv
    <3> QED
      BY <3>1, <3>2, QuietApproval
  <2>7. CASE Dialogs(t)
    <3>1. Confirm(t)
      BY <2>7, DialogsConfirm
    <3>2. UNCHANGED dbVars
      BY <3>1 DEF Confirm
    <3>3. \A u \in Tabs : req'[u].phase = "read" => req'[u] = req[u]
      BY <3>1 DEF Confirm, TypeInv
    <3> QED
      BY <3>2, <3>3, QuietApproval
  <2>8. CASE \/ \E m \in Members \cup {NoOne} : Visit(t, m)
             \/ \E m \in Members, op \in Single : Open(t, op, m)
             \/ \E ms \in (SUBSET Members) \ {{}}, op \in Bulk : OpenBulk(t, op, ms)
             \/ Close(t) \/ Refresh(t) \/ RefreshFails(t)
    <3>1. UNCHANGED <<dbVars, req>>
      BY <2>8 DEF Visit, Open, OpenBulk, Close, Refresh, RefreshFails
    <3> QED
      BY <3>1, QuietApproval
  <2> QED
    BY <2>1, <2>2, <2>3, <2>4, <2>5, <2>6, <2>7, <2>8 DEF Serve, Operation
<1> QED
  BY <1>1, <1>2

LEMMA InitApproval == Init => ApprovalInv
BY DEF Init, ApprovalInv, ReadApproved, Named, NoRequest

(* No account is active that nobody approved, unless an edit of the member *)
(* wrote an old row back (activate_member, bulk_activate_members and       *)
(* complete_registration against approve_member, reject_member and         *)
(* delete_member of other requests): MemberWorkflow!ActiveWasApproved.     *)
THEOREM ActiveAccountsWereApproved == Spec => []ActiveWasApproved
<1>1. Init => TypeInv /\ ApprovalInv
  BY InitType, InitApproval
<1>2. TypeInv /\ ApprovalInv /\ [Next]_vars => TypeInv' /\ ApprovalInv'
  BY StepType, StepApproval
<1>3. ApprovalInv => ActiveWasApproved
  BY DEF ApprovalInv, Named, ActiveWasApproved
<1> QED
  BY <1>1, <1>2, <1>3, PTL DEF Spec

-----------------------------------------------------------------------------
(* What was completed or rejected is undone from an old screen only.       *)

(* The stage a button is offered in, of the operations that move one.      *)
From(op) == IF op = "complete" THEN "approved" ELSE "pending"
Movers == {"approve", "reject", "complete"}

(* A dialog is open over what its page still shows: reading the page anew  *)
(* closes it.                                                              *)
DialogFits(view) ==
    view.dialog \in Movers =>
      \A m \in view.on : view.shown[m] # Gone /\ view.shown[m].stage = From(view.dialog)

(* A request remembers the stage its button was offered in.                *)
RequestFits(r) ==
    r.phase \in {"sent", "read"} /\ r.op \in Movers =>
      \A m \in r.on : r.seen[m] = From(r.op)

SeenInv ==
    /\ \A t \in Tabs : DialogFits(tab[t])
    /\ \A t \in Tabs : RequestFits(req[t])

LEMMA FitsTab ==
    ASSUME TypeInv, SeenInv, NEW t \in Tabs, NEW view, DialogFits(view),
           tab' = [tab EXCEPT ![t] = view], UNCHANGED req
    PROVE  SeenInv'
BY DEF TypeInv, SeenInv, DialogFits, RequestFits

LEMMA FitsRequest ==
    ASSUME TypeInv, SeenInv, NEW t \in Tabs, NEW r, RequestFits(r),
           req' = [req EXCEPT ![t] = r], UNCHANGED tab
    PROVE  SeenInv'
BY DEF TypeInv, SeenInv, DialogFits, RequestFits

LEMMA FitsQuiet ==
    ASSUME NEW view \in Tab, DialogFits(view), NEW load \in {"done", "loading", "failed"}
    PROVE  /\ DialogFits(NoDialog(view))
           /\ DialogFits([NoDialog(view) EXCEPT !.load = load])
           /\ DialogFits([view EXCEPT !.load = load])
BY DEF DialogFits, NoDialog, Tab, Movers

LEMMA FitsPage == ASSUME NEW m PROVE DialogFits(Page(m))
BY DEF DialogFits, Page, Movers

LEMMA FitsEnded ==
    ASSUME NEW r \in Request, NEW phase \in {"ok", "failed"}
    PROVE  RequestFits(Answered(r, phase)) /\ RequestFits(NoRequest)
BY DEF RequestFits, Answered, NoRequest, Request

(* The buttons that move a stage are offered in one stage each.            *)
LEMMA FitsOpen ==
    ASSUME TypeInv, SeenInv, NEW t \in Tabs, NEW op \in Single, NEW m \in Members, Open(t, op, m)
    PROVE  SeenInv'
<1>1. tab[t] \in Tab /\ tab[t].shown[m] # Gone
  BY DEF TypeInv, Open
<1>2. op \in Movers => op \in OfferedAlways(tab[t].shown[m])
  BY DEF Open, OfferedInList, OfferedInDossier, Movers
<1>3. op \in Movers => tab[t].shown[m].stage = From(op)
  BY <1>2 DEF OfferedAlways, From, Movers
<1>4. DialogFits([tab[t] EXCEPT !.dialog = op, !.on = {m}])
  BY <1>1, <1>3 DEF DialogFits, Tab
<1>5. tab' = [tab EXCEPT ![t] = [tab[t] EXCEPT !.dialog = op, !.on = {m}]] /\ UNCHANGED req
  BY DEF Open, TypeInv
<1> QED
  BY <1>4, <1>5, FitsTab

LEMMA FitsOpenBulk ==
    ASSUME TypeInv, SeenInv, NEW t \in Tabs, NEW op \in Bulk, NEW ms, OpenBulk(t, op, ms)
    PROVE  SeenInv'
<1>1. DialogFits([tab[t] EXCEPT !.dialog = op, !.on = ms])
  BY DEF DialogFits, TypeInv, Tab, Bulk, Movers
<1>2. tab' = [tab EXCEPT ![t] = [tab[t] EXCEPT !.dialog = op, !.on = ms]] /\ UNCHANGED req
  BY DEF OpenBulk, TypeInv
<1> QED
  BY <1>1, <1>2, FitsTab

LEMMA FitsConfirm ==
    ASSUME TypeInv, SeenInv, NEW t \in Tabs, Confirm(t)
    PROVE  SeenInv'
<1> DEFINE seen == [m \in Members |->
                      IF m \in tab[t].on /\ tab[t].shown[m] # Gone
                      THEN tab[t].shown[m].stage ELSE Gone]
           r == [op |-> tab[t].dialog, on |-> tab[t].on, seen |-> seen,
                 snap |-> Unread, phase |-> "sent"]
<1>1. tab[t].on \in SUBSET Members /\ DialogFits(tab[t])
  BY DEF TypeInv, Tab, SeenInv
<1>2. tab[t].dialog \in Movers => \A m \in tab[t].on : seen[m] = From(tab[t].dialog)
  BY <1>1 DEF DialogFits
<1>3. req' = [req EXCEPT ![t] = r] /\ UNCHANGED tab
  BY DEF Confirm
<1> HIDE DEF seen
<1>4. RequestFits(r)
  BY <1>2 DEF RequestFits
<1> QED
  BY <1>3, <1>4, FitsRequest

LEMMA FitsRead ==
    ASSUME TypeInv, SeenInv, NEW t \in Tabs, Read(t)
    PROVE  SeenInv'
<1> DEFINE r == [req[t] EXCEPT !.snap = Of(rows, req[t].on), !.phase = "read"]
<1>1. req[t] \in Request /\ RequestFits(req[t]) /\ req[t].phase = "sent"
  BY DEF TypeInv, SeenInv, Read
<1>2. RequestFits(r)
  BY <1>1 DEF RequestFits, Request
<1>3. \/ req' = [req EXCEPT ![t] = Answered(req[t], "failed")]
      \/ req' = [req EXCEPT ![t] = r]
  BY DEF Read, TypeInv
<1>4. UNCHANGED tab
  BY DEF Read
<1> HIDE DEF r
<1> QED
  BY <1>1, <1>2, <1>3, <1>4, FitsEnded, FitsRequest

LEMMA FitsServed ==
    ASSUME TypeInv, SeenInv, NEW t \in Tabs, Operation(t) \/ Edit(t) \/ Refuse(t)
    PROVE  SeenInv'
<1>1. \E phase \in {"ok", "failed"} :
         req' = [req EXCEPT ![t] = Answered(req[t], phase)] /\ UNCHANGED tab
  <2>1. CASE Operation(t)
    BY <2>1 DEF Operation, Approve, Reject, Complete, Activate, Deactivate, BulkActivate,
       BulkDeactivate, Delete, Write, Put, TypeInv
  <2>2. CASE Edit(t)
    BY <2>2 DEF Edit, Put, TypeInv
  <2>3. CASE Refuse(t)
    BY <2>3 DEF Refuse, TypeInv
  <2> QED
    BY <2>1, <2>2, <2>3
<1>2. req[t] \in Request
  BY DEF TypeInv
<1> QED
  BY <1>1, <1>2, FitsEnded, FitsRequest

LEMMA FitsAnswer ==
    ASSUME TypeInv, SeenInv, NEW t \in Tabs, Success(t) \/ Failure(t)
    PROVE  SeenInv'
<1>1. tab[t] \in Tab /\ DialogFits(tab[t]) /\ req[t] \in Request
  BY DEF TypeInv, SeenInv
<1>2. /\ DialogFits(Page(NoOne))
      /\ DialogFits([tab[t] EXCEPT !.load = "loading"])
      /\ DialogFits([NoDialog(tab[t]) EXCEPT !.load = "loading"])
  BY <1>1, FitsPage, FitsQuiet
<1>3. \/ UNCHANGED tab
      \/ \E view \in {Page(NoOne), [tab[t] EXCEPT !.load = "loading"],
                     [NoDialog(tab[t]) EXCEPT !.load = "loading"]} :
           tab' = [tab EXCEPT ![t] = view]
  BY DEF Success, Failure, TypeInv
<1>4. \A u \in Tabs : DialogFits(tab'[u])
  <2>1. CASE UNCHANGED tab
    BY <2>1 DEF SeenInv
  <2>2. CASE ~(UNCHANGED tab)
    <3>1. PICK view : DialogFits(view) /\ tab' = [tab EXCEPT ![t] = view]
      BY <1>2, <1>3, <2>2
    <3> QED
      BY <3>1 DEF SeenInv, TypeInv
  <2> QED
    BY <2>1, <2>2
<1>5. req' = [req EXCEPT ![t] = NoRequest]
  BY DEF Success, Failure, Done
<1>6. \A u \in Tabs : RequestFits(req'[u])
  BY <1>1, <1>5, FitsEnded DEF SeenInv, TypeInv
<1> QED
  BY <1>4, <1>6 DEF SeenInv, DialogFits, RequestFits

(* Only the deletion of a dossier outlives the reading of its page.        *)
LEMMA FitsRefresh ==
    ASSUME TypeInv, SeenInv, NEW t \in Tabs, Refresh(t) \/ RefreshFails(t)
    PROVE  SeenInv'
<1> DEFINE view == Reread(tab[t])
           shown == Page(tab[t].member).shown
<1>1. view \in Tab /\ view.dialog \notin Movers
  <2>1. tab[t] \in Tab /\ PageOK(tab[t])
    BY DEF TypeInv
  <2>2. view \in Tab
    BY <2>1, RereadOK
  <2> QED
    BY <2>1, <2>2 DEF Reread, NoDialog, Tab, Movers
<1>2. UNCHANGED req
  BY DEF Refresh, RefreshFails
<1>3. CASE Refresh(t)
  <2>1. tab' = [tab EXCEPT ![t] = [view EXCEPT !.shown = shown, !.load = "done"]]
    BY <1>3 DEF Refresh, TypeInv
  <2> HIDE DEF view, shown
  <2>2. DialogFits([view EXCEPT !.shown = shown, !.load = "done"])
    BY <1>1 DEF DialogFits, Tab
  <2> QED
    BY <1>2, <2>1, <2>2, FitsTab
<1>4. CASE RefreshFails(t)
  <2>1. PICK load \in {"done", "failed"} :
          tab' = [tab EXCEPT ![t] = [view EXCEPT !.load = load]]
    BY <1>4 DEF RefreshFails, TypeInv
  <2> HIDE DEF view
  <2>2. DialogFits([view EXCEPT !.load = load])
    BY <1>1 DEF DialogFits, Tab
  <2> QED
    BY <1>2, <2>1, <2>2, FitsTab
<1> QED
  BY <1>3, <1>4

LEMMA StepSeen ==
    ASSUME TypeInv, SeenInv, [Next]_vars
    PROVE  SeenInv'
<1>1. CASE UNCHANGED vars
  BY <1>1 DEF vars, dbVars, SeenInv, DialogFits, RequestFits
<1>2. CASE Next
  <2>1. PICK t \in Tabs :
          \/ \E m \in Members \cup {NoOne} : Visit(t, m)
          \/ \E m \in Members, op \in Single : Open(t, op, m)
          \/ \E ms \in (SUBSET Members) \ {{}}, op \in Bulk : OpenBulk(t, op, ms)
          \/ Close(t) \/ Dialogs(t) \/ Serve(t)
          \/ Success(t) \/ Failure(t) \/ Refresh(t) \/ RefreshFails(t)
    BY <1>2 DEF Next
  <2>2. CASE Serve(t)
    BY <2>2, FitsRead, FitsServed DEF Serve, Operation
  <2>3. CASE Dialogs(t)
    BY <2>3, DialogsConfirm, FitsConfirm
  <2>4. ASSUME NEW m \in Members \cup {NoOne}, Visit(t, m)
        PROVE  SeenInv'
    BY <2>4, FitsPage, FitsTab DEF Visit
  <2>5. CASE Close(t)
    <3>1. tab[t] \in Tab /\ DialogFits(tab[t])
      BY DEF TypeInv, SeenInv
    <3>2. DialogFits(NoDialog(tab[t]))
      BY <3>1, FitsQuiet
    <3>3. tab' = [tab EXCEPT ![t] = NoDialog(tab[t])] /\ UNCHANGED req
      BY <2>5 DEF Close, TypeInv
    <3> QED
      BY <3>2, <3>3, FitsTab
  <2> QED
    BY <2>1, <2>2, <2>3, <2>4, <2>5, FitsOpen, FitsOpenBulk, FitsAnswer, FitsRefresh
<1> QED
  BY <1>1, <1>2

(* The operations that change the stage of a row that stays are those      *)
(* whose button was offered in a stage before it.                          *)
LEMMA UndoneStep ==
    ASSUME TypeInv, SeenInv, [Next]_vars, NEW m \in Members, m \notin edited',
           rows[m] # Gone, rows[m].stage \in {"active", "rejected"},
           rows'[m] # Gone, rows'[m].stage # rows[m].stage
    PROVE  \E t \in Busy : m \in req[t].on /\ req[t].seen[m] # rows[m].stage
<1>1. rows' # rows
  OBVIOUS
<1>2. PICK t \in Tabs : Operation(t) \/ Edit(t)
  <2>1. ASSUME NEW t \in Tabs,
               \/ \E k \in Members \cup {NoOne} : Visit(t, k)
               \/ \E k \in Members, op \in Single : Open(t, op, k)
               \/ \E ms \in (SUBSET Members) \ {{}}, op \in Bulk : OpenBulk(t, op, ms)
               \/ Close(t) \/ Confirm(t) \/ Read(t) \/ Refuse(t)
               \/ Success(t) \/ Failure(t) \/ Refresh(t) \/ RefreshFails(t)
        PROVE  FALSE
    BY <1>1, <2>1 DEF Visit, Open, OpenBulk, Close, Confirm, Read, Refuse, Success, Failure, Done,
       Refresh, RefreshFails, dbVars
  <2>2. Next
    BY <1>1 DEF vars
  <2> QED
    BY <2>1, <2>2, DialogsConfirm DEF Next, Serve, Operation
<1>3. req[t] \in Request /\ req[t].phase = "read" /\ RequestFits(req[t]) /\ rows[m] \in Row
  BY <1>2 DEF TypeInv, SeenInv, Table, Operation, Edit, Approve, Reject, Complete, Activate, Deactivate,
     BulkActivate, BulkDeactivate, Delete, Working
<1>4. Touched(t) \subseteq req[t].on
  BY DEF Touched
<1>5. ~Edit(t)
  <2>1. ASSUME Edit(t) PROVE FALSE
    <3>1. rows' = EditedTable(t) /\ edited' = edited \cup Touched(t)
      BY <2>1 DEF Edit, Put, EditedTable
    <3> QED
      BY <3>1 DEF EditedTable
  <2> QED
    BY <2>1
<1>6. Approve(t) \/ Reject(t) \/ Complete(t)
  <2>1. ASSUME Activate(t) \/ BulkActivate(t) \/ Deactivate(t) \/ BulkDeactivate(t)
        PROVE  FALSE
    <3>1. PICK on \in BOOLEAN : rows' = Switched(t, on)
      BY <2>1 DEF Activate, BulkActivate, Deactivate, BulkDeactivate, Write, Put
    <3>2. rows'[m].stage = rows[m].stage
      BY <1>3, <3>1 DEF Switched, Row
    <3> QED
      BY <3>2
  <2>2. ASSUME Delete(t) PROVE FALSE
    BY <2>2 DEF Delete, Write, Put
  <2> QED
    BY <1>2, <1>5, <2>1, <2>2 DEF Operation
<1>7. m \in Touched(t)
  BY <1>6 DEF Approve, Reject, Complete, Write, Put
<1>8. req[t].op \in Movers
  BY <1>6 DEF Approve, Reject, Complete, Working, Movers
<1>9. req[t].seen[m] = From(req[t].op)
  BY <1>3, <1>4, <1>7, <1>8 DEF RequestFits
<1>10. From(req[t].op) # rows[m].stage
  BY DEF From
<1>11. t \in Busy
  BY <1>3 DEF Busy
<1> QED
  BY <1>4, <1>7, <1>9, <1>10, <1>11

(* A completed or rejected registration leaves that stage only on a        *)
(* request from a screen that showed another one (the buttons of           *)
(* WorkflowToolbar and MemberDataGrid, the dialogs that close when a page  *)
(* is read anew): MemberWorkflow!UndoneFromStale.                          *)
THEOREM UndoneOnlyFromStale == Spec => UndoneFromStale
<1>1. Init => TypeInv /\ SeenInv
  BY InitType, FitsPage DEF Init, SeenInv, RequestFits, NoRequest
<1>2. TypeInv /\ SeenInv /\ [Next]_vars => TypeInv' /\ SeenInv'
  BY StepType, StepSeen
<1>3. TypeInv /\ SeenInv /\ [Next]_vars =>
        [\A m \in Members \ edited' :
           /\ rows[m] # Gone /\ rows[m].stage \in {"active", "rejected"}
           /\ rows'[m] # Gone /\ rows'[m].stage # rows[m].stage
           => \E t \in Busy : m \in req[t].on /\ req[t].seen[m] # rows[m].stage]_vars
  BY UndoneStep
<1> QED
  BY <1>1, <1>2, <1>3, PTL DEF Spec, UndoneFromStale

-----------------------------------------------------------------------------
\* Registration: types

Entries == [id : Nat, who : Things]
Plain == [id : {0}, who : Things]
Singles == [id : Nat, who : Things \cup {Nobody}]

Stores ==
    [member : People \cup {Nobody}, category : Categories \cup {"none"}, step : 0..4,
     current : [Kinds -> Singles], list : [Kinds -> Seq(Plain)], guarantor : BOOLEAN]

Pages ==
    [mode : {"away", "new", "edit"}, target : People \cup {Nobody},
     status : {"form", "loading", "error", "saving", "done", "over"}]

\* Entries that are saved carry no key, but for a single one that was loaded.
Savable == {s \in Seq(Entries) : Len(s) = 1 \/ \A i \in DOMAIN s : s[i].id = 0}

Forms ==
    [member : People, category : Categories \cup {"none"}, guarantor : BOOLEAN,
     list : [Kinds -> Savable]]

Saves ==
    [phase : {"member", "read", "upsert", "guarantor"}, shown : BOOLEAN,
     mode : {"new", "edit"}, target : People \cup {Nobody}, form : Forms, kind : Kinds,
     todo : Seq(Entries), had : SUBSET Rows, kept : SUBSET Nat, clean : BOOLEAN]

PageInv == page \in Pages /\ loads \subseteq members

ServerInv ==
    /\ members \subseteq People /\ attached \subseteq Rows /\ inserted \in 0..MaxRow
    /\ \A r \in attached : r.id <= inserted /\ Registered(r.member)
    /\ \A r, s \in attached : r.id = s.id => r = s

-----------------------------------------------------------------------------
\* Registration: the store

\* What the store holds of a member of the Normal category who is not
\* registered was asked for by the steps already passed.
StoreComplete ==
    store.category = "normal" /\ ~Registered(store.member) =>
      /\ store.step >= 2 => Active("kin") # <<>>
      /\ store.step = 4 => store.guarantor

StoreInv == store \in Stores /\ StoreComplete

LEMMA ActiveSavable ==
    ASSUME store \in Stores, NEW k \in Kinds
    PROVE  /\ Active(k) \in Savable
           /\ \A i \in DOMAIN store.list[k] : Active(k) = store.list[k]
  <1>1. store.list[k] \in Seq(Plain) /\ store.current[k] \in Singles
    BY DEF Stores
  <1>2. CASE store.list[k] # <<>>
    <2>1. Active(k) = store.list[k]
      BY <1>2 DEF Active
    <2>2. Plain \subseteq Entries
      BY DEF Plain, Entries
    <2>3. store.list[k] \in Seq(Entries)
      BY <1>1, <2>2, SeqMonotonic
    <2>4. \A i \in DOMAIN store.list[k] : store.list[k][i].id = 0
      <3>1. DOMAIN store.list[k] = 1..Len(store.list[k])
        BY <1>1, LenProperties
      <3>2. ASSUME NEW i \in DOMAIN store.list[k]
            PROVE  store.list[k][i] \in Plain
        BY <1>1, <3>1, ElementOfSeq
      <3> QED
        BY <3>2 DEF Plain
    <2> QED
      BY <2>1, <2>3, <2>4 DEF Savable
  <1>3. CASE store.list[k] = <<>> /\ store.current[k].who # Nobody
    <2>1. Active(k) = <<store.current[k]>>
      BY <1>3 DEF Active
    <2>2. store.current[k] \in Entries
      BY <1>1, <1>3 DEF Singles, Entries
    <2> QED
      BY <1>3, <2>1, <2>2 DEF Savable
  <1>4. CASE store.list[k] = <<>> /\ store.current[k].who = Nobody
    <2>1. Active(k) = <<>>
      BY <1>4 DEF Active
    <2> QED
      BY <1>4, <2>1, EmptySeq DEF Savable
  <1> QED
    BY <1>2, <1>3, <1>4

\* A change of the store that is about somebody registered, or no category.
LEMMA StoreOfRegistered ==
    ASSUME store' \in Stores, UNCHANGED members,
           Registered(store'.member) \/ store'.category = "none"
    PROVE  StoreInv'
  BY DEF StoreInv, StoreComplete, Registered

LEMMA LoadAnsweredStore ==
    ASSUME StoreInv, PageInv, ServerInv, NEW m \in People, LoadAnswered(m)
    PROVE  StoreInv'
  <1>1. PICK kin \in FirstRow(m, "kin"), vehicle \in FirstRow(m, "vehicle"),
             c \in Categories, g \in {store.guarantor, TRUE} :
          store' = [store EXCEPT !.member = m, !.category = c,
                                 !.current = [k \in Kinds |-> IF k = "kin" THEN kin ELSE vehicle],
                                 !.guarantor = g]
    BY DEF LoadAnswered
  <1>2. \A k \in Kinds : FirstRow(m, k) \subseteq Singles
    BY DEF FirstRow, StoreInv, Stores, Singles, ServerInv, RowsOf, Rows
  <1>3. kin \in Singles /\ vehicle \in Singles
    BY <1>2 DEF Kinds
  <1> DEFINE both == [k \in Kinds |-> IF k = "kin" THEN kin ELSE vehicle]
  <1>4. both \in [Kinds -> Singles]
    BY <1>3
  <1> HIDE DEF both
  <1>5. g \in BOOLEAN
    BY DEF StoreInv, Stores
  <1>6. store' = [store EXCEPT !.member = m, !.category = c, !.current = both, !.guarantor = g]
    BY <1>1 DEF both
  <1>7. store' \in Stores /\ store'.member = m
    BY <1>4, <1>5, <1>6 DEF StoreInv, Stores
  <1>8. Registered(m) /\ UNCHANGED members
    BY DEF PageInv, LoadAnswered, Registered, serverVars
  <1> QED
    BY <1>7, <1>8, StoreOfRegistered

LEMMA ReplaceMemberStore ==
    ASSUME StoreInv, NEW m \in People, NEW c \in Categories, ReplaceMember(m, c)
    PROVE  StoreInv'
  <1>1. store' = [store EXCEPT !.member = m, !.category = c] /\ Registered(m)
        /\ UNCHANGED members
    BY DEF ReplaceMember, serverVars
  <1>2. store' \in Stores /\ store'.member = m
    BY <1>1 DEF StoreInv, Stores
  <1> QED
    BY <1>1, <1>2, StoreOfRegistered

\* The store that a reset leaves.
LEMMA ResetStore ==
    ASSUME StoreInv, UNCHANGED members, Reset
    PROVE  StoreInv'
  <1> DEFINE step == IF page.mode = "away" THEN 0 ELSE store.step
  <1>1. step \in 0..4
    BY DEF StoreInv, Stores
  <1>2. store' = [EmptyStore EXCEPT !.step = step]
    BY DEF Reset
  <1> HIDE DEF step
  <1>3. EmptyStore \in Stores
    <2>1. NoItem \in Singles
      BY DEF NoItem, Singles
    <2>2. [k \in Kinds |-> <<>>] \in [Kinds -> Seq(Plain)]
      BY EmptySeq
    <2> QED
      BY <2>1, <2>2 DEF EmptyStore, Stores
  <1>4. store' \in Stores /\ store'.category = "none"
    BY <1>1, <1>2, <1>3 DEF EmptyStore, Stores
  <1> QED
    BY <1>4, StoreOfRegistered

\* The steps of the wizard.
LEMMA StepsStore ==
    ASSUME StoreInv,
           \/ Back \/ KinComplete \/ VehicleComplete
           \/ \E m \in People, c \in Categories : MemberComplete(m, c)
           \/ \E given \in BOOLEAN : GuarantorComplete(given)
    PROVE  StoreInv'
  <1>1. store \in Stores /\ StoreComplete
    BY DEF StoreInv
  <1>2. UNCHANGED members
    BY DEF Back, MemberComplete, KinComplete, VehicleComplete, GuarantorComplete, serverVars
  <1>3. ASSUME NEW n \in 0..4, store' = [store EXCEPT !.step = n],
               n >= 2 => store.step >= 2 \/ (store.category = "normal" => Active("kin") # <<>>),
               n = 4 => store.step = 4
        PROVE  StoreInv'
    <2>1. /\ store' \in Stores /\ store'.step = n /\ store'.category = store.category
          /\ store'.member = store.member /\ store'.guarantor = store.guarantor
          /\ store'.list = store.list /\ store'.current = store.current
      BY <1>1, <1>3 DEF Stores
    <2>2. Active("kin")' = Active("kin")
      BY <2>1 DEF Active
    <2> QED
      BY <1>1, <1>2, <1>3, <2>1, <2>2 DEF StoreInv, StoreComplete, Registered, Stores
  <1>4. CASE Back
    <2>1. store.step > 0 /\ store' = [store EXCEPT !.step = store.step - 1] /\ store.step \in 0..4
      BY <1>1, <1>4 DEF Back, GoTo, Stores
    <2>2. store.step - 1 \in 0..4 /\ store.step - 1 # 4 /\ (store.step - 1 >= 2 => store.step >= 2)
      BY <2>1
    <2> QED
      BY <1>3, <2>1, <2>2
  <1>5. ASSUME NEW m \in People, NEW c \in Categories, MemberComplete(m, c)
        PROVE  StoreInv'
    <2>1. store' = [store EXCEPT !.member = m, !.category = c, !.step = 1]
      BY <1>5 DEF MemberComplete
    <2>2. store' \in Stores /\ store'.step = 1
      <3>1. m \in People \cup {Nobody} /\ c \in Categories \cup {"none"} /\ 1 \in 0..4
        OBVIOUS
      <3> QED
        BY <1>1, <2>1, <3>1 DEF Stores
    <2> QED
      BY <2>2 DEF StoreInv, StoreComplete
  <1>6. CASE KinComplete
    <2>1. /\ store' = [store EXCEPT !.step = 2]
          /\ store.category = "normal" => Active("kin") # <<>>
      BY <1>6 DEF KinComplete, GoTo, Required
    <2> QED
      BY <1>3, <2>1
  <1>7. CASE VehicleComplete
    <2>1. store.step = 2 /\ store' = [store EXCEPT !.step = 3]
      BY <1>7 DEF VehicleComplete, GoTo, At
    <2> QED
      BY <1>3, <2>1
  <1>8. ASSUME NEW given \in BOOLEAN, GuarantorComplete(given)
        PROVE  StoreInv'
    <2>1. /\ store.step = 3 /\ (store.category = "normal" => given)
          /\ store' = [store EXCEPT !.guarantor = given, !.step = 4]
      BY <1>8 DEF GuarantorComplete, Required, At
    <2>2. /\ store' \in Stores /\ store'.category = store.category
          /\ store'.member = store.member /\ store'.guarantor = given
          /\ store'.list = store.list /\ store'.current = store.current
      <3>1. 4 \in 0..4
        OBVIOUS
      <3> QED
        BY <1>1, <2>1, <3>1 DEF Stores
    <2>3. Active("kin")' = Active("kin")
      BY <2>2 DEF Active
    <2> QED
      BY <1>1, <1>2, <2>1, <2>2, <2>3 DEF StoreInv, StoreComplete, Registered
  <1> QED
    BY <1>4, <1>5, <1>6, <1>7, <1>8

\* The dialogs and the delete button change the list of their step: the list of
\* kin is changed only at the step that asks for it.
LEMMA ListsStore ==
    ASSUME StoreInv, KinDialog \/ KinDelete \/ VehicleDialog \/ VehicleDelete
    PROVE  StoreInv'
  <1>1. store \in Stores /\ StoreComplete
    BY DEF StoreInv
  <1>2. ASSUME NEW kind \in Kinds, NEW s \in Seq(Plain), UNCHANGED members,
               \/ store' = [store EXCEPT !.list[kind] = s]
               \/ store' = [store EXCEPT !.list[kind] = s, !.current[kind] = NoItem]
               \/ store' = store,
               kind = "kin" => store.step = 1
        PROVE  StoreInv'
    <2>1. NoItem \in Singles
      BY DEF NoItem, Singles
    <2>2. store.list \in [Kinds -> Seq(Plain)] /\ store.current \in [Kinds -> Singles]
      BY <1>1 DEF Stores
    <2>3. \/ store' = [store EXCEPT !.list = [store.list EXCEPT ![kind] = s]]
          \/ store' = [store EXCEPT !.list = [store.list EXCEPT ![kind] = s],
                                    !.current = [store.current EXCEPT ![kind] = NoItem]]
          \/ store' = store
      BY <1>1, <1>2
    <2> DEFINE l == [store.list EXCEPT ![kind] = s]
               d == [store.current EXCEPT ![kind] = NoItem]
    <2>4. l \in [Kinds -> Seq(Plain)] /\ d \in [Kinds -> Singles]
          /\ (kind # "kin" => l["kin"] = store.list["kin"] /\ d["kin"] = store.current["kin"])
      BY <2>1, <2>2 DEF Kinds
    <2> HIDE DEF l, d
    <2>5. /\ store' \in Stores /\ store'.category = store.category
          /\ store'.member = store.member /\ store'.guarantor = store.guarantor
          /\ store'.step = store.step
          /\ store'.list = store.list \/ store'.list = l
          /\ store'.current = store.current \/ store'.current = d
      BY <1>1, <2>3, <2>4 DEF Stores, l, d
    <2>6. CASE kind = "kin"
      BY <1>2, <2>5, <2>6 DEF StoreInv, StoreComplete
    <2>7. CASE kind # "kin"
      <3>1. Active("kin")' = Active("kin")
        BY <2>4, <2>5, <2>7 DEF Active
      <3> QED
        BY <1>1, <1>2, <2>5, <3>1 DEF StoreInv, StoreComplete, Registered
    <2> QED
      BY <2>6, <2>7
  <1>3. ASSUME NEW kind \in Kinds, NEW who \in Things, AddItem(kind, who),
               kind = "kin" => store.step = 1
        PROVE  StoreInv'
    <2> DEFINE s == Append(store.list[kind], [id |-> 0, who |-> who])
    <2>1. store.list[kind] \in Seq(Plain) /\ [id |-> 0, who |-> who] \in Plain
      BY <1>1 DEF Stores, Plain
    <2>2. s \in Seq(Plain)
      BY <2>1, AppendProperties
    <2>3. store' = [store EXCEPT !.list[kind] = s, !.current[kind] = NoItem] /\ UNCHANGED members
      BY <1>3 DEF AddItem, serverVars
    <2> HIDE DEF s
    <2> QED
      BY <1>2, <1>3, <2>2, <2>3
  <1>4. ASSUME NEW kind \in Kinds, NEW who \in Things, NEW i \in DOMAIN Active(kind),
               EditItem(kind, i, who), kind = "kin" => store.step = 1
        PROVE  StoreInv'
    <2> DEFINE item == [Active(kind)[i] EXCEPT !.who = who]
    <2>1. store.list[kind] \in Seq(Plain)
      BY <1>1 DEF Stores
    <2>2. CASE i \in DOMAIN store.list[kind]
      <3>1. Active(kind) = store.list[kind]
        BY <1>1, <2>2, ActiveSavable
      <3>2. store.list[kind][i] \in Plain /\ i \in 1..Len(store.list[kind])
        BY <2>1, <2>2, LenProperties
      <3>3. item \in Plain
        BY <3>1, <3>2 DEF Plain
      <3> DEFINE s == [store.list[kind] EXCEPT ![i] = item]
      <3>4. store' = [store EXCEPT !.list[kind][i] = item] /\ UNCHANGED members
        BY <1>4, <2>2 DEF EditItem, serverVars
      <3> HIDE DEF item
      <3>5. s \in Seq(Plain)
        BY <2>1, <3>2, <3>3, ExceptSeq
      <3>6. store' = [store EXCEPT !.list[kind] = s]
        BY <3>4
      <3> HIDE DEF s
      <3> QED
        BY <1>2, <1>4, <3>4, <3>5, <3>6
    <2>3. CASE i \notin DOMAIN store.list[kind]
      BY <1>2, <1>4, <2>1, <2>3 DEF EditItem, serverVars
    <2> QED
      BY <2>2, <2>3
  <1>5. ASSUME NEW kind \in Kinds, NEW i \in DOMAIN Active(kind),
               RemoveItem(kind, i), kind = "kin" => store.step = 1
        PROVE  StoreInv'
    <2> DEFINE s == RemoveAt(store.list[kind], i)
    <2>1. store.list[kind] \in Seq(Plain)
      BY <1>1 DEF Stores
    <2>2. CASE i \in DOMAIN store.list[kind]
      <3>1. i \in 1..Len(store.list[kind]) /\ Len(store.list[kind]) \in Nat
        BY <2>1, <2>2, LenProperties
      <3>2. /\ SubSeq(store.list[kind], 1, i - 1) \in Seq(Plain)
            /\ SubSeq(store.list[kind], i + 1, Len(store.list[kind])) \in Seq(Plain)
        <4>1. 1 \in Int /\ i - 1 \in Int /\ i + 1 \in Int
          BY <3>1
        <4>2. \A j \in 1 .. i - 1 : j \in 1..Len(store.list[kind])
          BY <3>1
        <4>3. \A j \in i + 1 .. Len(store.list[kind]) : j \in 1..Len(store.list[kind])
          BY <3>1
        <4> QED
          BY <2>1, <3>1, <4>1, <4>2, <4>3, SubSeqProperties
      <3>3. s \in Seq(Plain)
        BY <3>2, ConcatProperties DEF RemoveAt
      <3>4. store' = [store EXCEPT !.list[kind] = s] /\ UNCHANGED members
        BY <1>5, <2>2 DEF RemoveItem, serverVars
      <3> HIDE DEF s
      <3> QED
        BY <1>2, <1>5, <3>3, <3>4
    <2>3. CASE i \notin DOMAIN store.list[kind]
      BY <1>2, <1>5, <2>1, <2>3 DEF RemoveItem, serverVars
    <2> QED
      BY <2>2, <2>3
  <1>6. {"kin", "vehicle"} = Kinds /\ "kin" # "vehicle"
    BY DEF Kinds
  <1>7. CASE KinDialog
    BY <1>3, <1>4, <1>6, <1>7 DEF KinDialog, At
  <1>8. CASE KinDelete
    BY <1>5, <1>6, <1>8 DEF KinDelete, At
  <1>9. CASE VehicleDialog
    BY <1>3, <1>4, <1>6, <1>9 DEF VehicleDialog
  <1>10. CASE VehicleDelete
    BY <1>5, <1>6, <1>10 DEF VehicleDelete
  <1> QED
    BY <1>7, <1>8, <1>9, <1>10

-----------------------------------------------------------------------------
\* Registration: the save

Rowing == save.phase \in {"read", "upsert"}

SaveTyped ==
    \/ save = NotSaving
    \/ /\ save \in Saves
       /\ save.phase = "member" => save.kind = "kin"
       /\ save.phase # "member" => Registered(save.target)

\* What a save of a new member was given was asked for.
FormComplete ==
    save.phase = "member" /\ save.form.category = "normal" /\ ~Registered(save.form.member) =>
      save.form.list["kin"] # <<>> /\ save.form.guarantor

\* The rows that were read are the target's, and those added have greater keys.
HadOwn ==
    save.phase = "upsert" =>
      /\ \A r \in save.had : r.id <= inserted
      /\ \A i \in save.kept : i <= inserted
      /\ \A r \in save.had : \A s \in attached :
           s.id = r.id => s.member = save.target /\ s.kind = save.kind

\* A member just registered has no rows yet but those of the save.
NewHasNone ==
    Rowing /\ save.mode = "new" =>
      /\ save.phase = "read" => RowsOf(save.target, save.kind) = {}
      /\ save.phase = "upsert" => save.had = {}
      /\ save.kind = "kin" => RowsOf(save.target, "vehicle") = {}

KeptRows == {r \in RowsOf(save.target, save.kind) : r.id \in save.kept}

\* Half way through a clean block the kept rows and the entries to come make up
\* what was under review, and rows read are as they were read.
RowsAccounted ==
    \A r \in RowsOf(save.target, save.kind) :
      r.id \in save.kept \/ \E h \in save.had : h.id = r.id
EntriesAccounted ==
    {r.who : r \in KeptRows} \cup Whos(save.todo) = Whos(save.form.list[save.kind])
TodoSavable ==
    \/ \A i \in DOMAIN save.todo : save.todo[i].id = 0
    \/ Len(save.todo) = 1 /\ save.kept = {}
BlockOn ==
    save.phase = "upsert" /\ save.clean =>
      /\ RowsAccounted /\ EntriesAccounted /\ TodoSavable
      /\ save.todo # <<>> => save.had \subseteq attached

HoldsReviewed(k) ==
    {r.who : r \in RowsOf(save.target, k)} = Whos(save.form.list[k])

\* A clean save has brought the blocks behind it to what was under review.
BlocksDone ==
    save.phase # "idle" /\ save.clean =>
      /\ Rowing /\ save.kind = "vehicle" => HoldsReviewed("kin")
      /\ save.phase = "guarantor" => \A k \in Kinds : HoldsReviewed(k)

SaveInv ==
    SaveTyped /\ FormComplete /\ HadOwn /\ NewHasNone /\ BlockOn /\ BlocksDone

LEMMA Ended ==
    ASSUME save' = NotSaving
    PROVE  SaveInv'
  <1>1. save'.phase = "idle"
    BY DEF NotSaving
  <1> QED
    BY <1>1 DEF SaveInv, SaveTyped, FormComplete, HadOwn, NewHasNone, BlockOn, BlocksDone, Rowing, NotSaving

\* A step that leaves the rows alone, and the save but for whether it is shown.
LEMMA QuietSave ==
    ASSUME SaveInv, UNCHANGED <<members, attached, inserted>>, save' = save \/ save' = Unmounted
    PROVE  SaveInv'
  <1>1. CASE save = NotSaving
    <2>1. save' = NotSaving
      BY <1>1 DEF Unmounted, NotSaving
    <2> QED
      BY <2>1, Ended
  <1>2. CASE save \in Saves
    <2>1. /\ save'.phase = save.phase /\ save'.mode = save.mode /\ save'.target = save.target
          /\ save'.form = save.form /\ save'.kind = save.kind /\ save'.todo = save.todo
          /\ save'.had = save.had /\ save'.kept = save.kept /\ save'.clean = save.clean
          /\ save' \in Saves
      BY <1>2 DEF Unmounted, Saves
    <2>2. save # NotSaving
      BY <1>2 DEF Saves, NotSaving
    <2>3. SaveTyped'
      BY <2>1, <2>2 DEF SaveInv, SaveTyped, Registered
    <2>4. FormComplete'
      BY <2>1 DEF SaveInv, FormComplete, Registered
    <2>5. HadOwn'
      BY <2>1 DEF SaveInv, HadOwn
    <2>6. NewHasNone'
      BY <2>1 DEF SaveInv, NewHasNone, Rowing, RowsOf
    <2>7. \A k : (HoldsReviewed(k)' <=> HoldsReviewed(k))
      BY <2>1 DEF HoldsReviewed, RowsOf, Whos
    <2>8. BlocksDone'
      BY <2>1, <2>7 DEF SaveInv, BlocksDone, Rowing
    <2>9. RowsAccounted' <=> RowsAccounted
      BY <2>1 DEF RowsAccounted, RowsOf
    <2>10. EntriesAccounted' <=> EntriesAccounted
      BY <2>1 DEF EntriesAccounted, KeptRows, RowsOf, Whos
    <2>11. TodoSavable' <=> TodoSavable
      BY <2>1 DEF TodoSavable
    <2>12. BlockOn'
      BY <2>1, <2>9, <2>10, <2>11 DEF SaveInv, BlockOn
    <2> QED
      BY <2>3, <2>4, <2>5, <2>6, <2>8, <2>12 DEF SaveInv
  <1> QED
    BY <1>1, <1>2 DEF SaveInv, SaveTyped

\* The button: what it closes over comes from a store in order.
LEMMA SubmitSave ==
    ASSUME StoreInv, PageInv, Submit
    PROVE  SaveInv'
  <1> DEFINE form == Reviewed
  <1>1. form \in Forms
    <2>1. \A k \in Kinds : Active(k) \in Savable
      BY ActiveSavable DEF StoreInv
    <2>2. [k \in Kinds |-> Active(k)] \in [Kinds -> Savable]
      BY <2>1
    <2>3. store.member \in People
      BY DEF StoreInv, Stores, Submit
    <2> QED
      BY <2>2, <2>3 DEF Reviewed, Forms, StoreInv, Stores
  <1>2. form.category = "normal" /\ ~Registered(form.member) => form.list["kin"] # <<>> /\ form.guarantor
    <2>1. store.step = 4 /\ StoreComplete /\ "kin" \in Kinds
      BY DEF StoreInv, Submit, At, Kinds
    <2>2. form.list["kin"] = Active("kin") /\ form.category = store.category
          /\ form.member = store.member /\ form.guarantor = store.guarantor
      BY <2>1 DEF Reviewed
    <2> HIDE DEF form
    <2> QED
      BY <2>1, <2>2 DEF StoreComplete
  <1>3. save' = [phase |-> "member", shown |-> TRUE, mode |-> page.mode,
                 target |-> page.target, form |-> form, kind |-> "kin", todo |-> <<>>,
                 had |-> {}, kept |-> {}, clean |-> TRUE]
    BY DEF Submit
  <1>4. page.mode \in {"new", "edit"} /\ page.target \in People \cup {Nobody} /\ UNCHANGED members
    BY DEF Submit, At, OnForm, PageInv, Pages, serverVars
  <1> HIDE DEF form
  <1>5. save' \in Saves
    <2>1. <<>> \in Seq(Entries)
      BY EmptySeq
    <2> QED
      BY <1>1, <1>3, <1>4, <2>1 DEF Saves, Kinds
  <1>6. save'.phase = "member" /\ save'.kind = "kin" /\ save'.form = form
    BY <1>3
  <1> QED
    BY <1>2, <1>4, <1>5, <1>6 DEF SaveInv, SaveTyped, FormComplete, HadOwn, NewHasNone, BlockOn,
       BlocksDone, Rowing, Registered

\* The member is registered: if just now, it has no rows.
LEMMA SaveMemberSave ==
    ASSUME ServerInv, SaveInv, SaveMember
    PROVE  ServerInv' /\ SaveInv'
  <1> DEFINE m == save.form.member
  <1>1. save \in Saves /\ save.phase = "member" /\ save.kind = "kin"
    BY DEF SaveMember, SaveInv, SaveTyped, NotSaving
  <1>2. m \in People /\ members' = members \cup {m} /\ UNCHANGED <<attached, inserted>>
    BY <1>1 DEF SaveMember, Saves, Forms
  <1>3. ServerInv'
    BY <1>2 DEF ServerInv, Registered
  <1>4. CASE save' = [save EXCEPT !.phase = "read", !.target = m]
    <2>1. /\ save' \in Saves /\ save'.phase = "read" /\ save'.target = m
          /\ save'.mode = save.mode /\ save'.kind = "kin"
          /\ save'.had = save.had /\ save'.kept = save.kept
      BY <1>1, <1>2, <1>4 DEF Saves
    <2>2. save.mode = "new" => \A r \in attached : r.member # m
      BY DEF SaveMember, Accepts, ServerInv
    <2>3. SaveTyped' /\ FormComplete' /\ HadOwn' /\ BlockOn' /\ BlocksDone'
      BY <1>2, <2>1 DEF SaveTyped, FormComplete, HadOwn, BlockOn, BlocksDone, Rowing, Registered
    <2>4. NewHasNone'
      BY <1>2, <2>1, <2>2 DEF NewHasNone, Rowing, RowsOf
    <2> QED
      BY <1>3, <2>3, <2>4 DEF SaveInv
  <1>5. CASE Stop
    BY <1>3, <1>5, Ended DEF Stop
  <1> QED
    BY <1>4, <1>5 DEF SaveMember

\* The next block, or the end of it, after calls that touched the rows of this
\* kind only.
LEMMA NextBlockSave ==
    ASSUME SaveInv, Rowing, UNCHANGED members,
           \A r : r.kind # save.kind => (r \in attached' <=> r \in attached),
           \/ save' = Failed
           \/ save' = NextBlock /\ UNCHANGED attached /\ (save.clean => HoldsReviewed(save.kind))
    PROVE  SaveInv'
  <1>1. save \in Saves /\ Registered(save.target)
    BY DEF SaveInv, SaveTyped, Rowing, NotSaving
  <1>2. /\ save' \in Saves /\ save'.mode = save.mode /\ save'.target = save.target
        /\ save'.form = save.form /\ save'.kind = "vehicle"
        /\ save'.phase = IF save.kind = "kin" THEN "read" ELSE "guarantor"
        /\ save'.clean => save.clean /\ UNCHANGED attached /\ HoldsReviewed(save.kind)
    <2>1. <<>> \in Seq(Entries) /\ {} \in SUBSET Rows /\ {} \in SUBSET Nat /\ "vehicle" \in Kinds
      BY EmptySeq DEF Kinds
    <2>2. /\ NextBlock \in Saves /\ NextBlock.mode = save.mode /\ NextBlock.target = save.target
          /\ NextBlock.form = save.form /\ NextBlock.kind = "vehicle"
          /\ NextBlock.phase = IF save.kind = "kin" THEN "read" ELSE "guarantor"
          /\ NextBlock.clean = save.clean
      BY <1>1, <2>1 DEF NextBlock, Saves
    <2>3. \/ save' = [NextBlock EXCEPT !.clean = FALSE]
          \/ save' = NextBlock /\ UNCHANGED attached /\ (save.clean => HoldsReviewed(save.kind))
      BY DEF Failed
    <2> HIDE DEF NextBlock
    <2> QED
      BY <2>2, <2>3 DEF Saves
  <1>3. SaveTyped' /\ FormComplete' /\ HadOwn' /\ BlockOn'
    BY <1>1, <1>2 DEF SaveTyped, FormComplete, HadOwn, BlockOn, Registered
  <1>4. NewHasNone'
    BY <1>2 DEF SaveInv, NewHasNone, Rowing, RowsOf
  <1>5. BlocksDone'
    <2> SUFFICES ASSUME save'.clean
                 PROVE  BlocksDone'
      BY DEF BlocksDone
    <2>1. save.clean /\ UNCHANGED attached /\ HoldsReviewed(save.kind)
      BY <1>2
    <2>2. \A k : HoldsReviewed(k)' <=> HoldsReviewed(k)
      BY <1>2, <2>1 DEF HoldsReviewed, RowsOf, Whos
    <2>3. CASE save.kind = "kin"
      BY <1>2, <2>1, <2>2, <2>3 DEF BlocksDone
    <2>4. CASE save.kind = "vehicle"
      <3>1. HoldsReviewed("kin") /\ HoldsReviewed("vehicle")
        BY <2>1, <2>4 DEF SaveInv, BlocksDone, Rowing
      <3>2. \A k \in Kinds : HoldsReviewed(k)'
        BY <2>2, <3>1 DEF Kinds
      <3> QED
        BY <1>2, <2>4, <3>2 DEF BlocksDone, Rowing
    <2> QED
      BY <1>1, <2>3, <2>4 DEF Saves, Kinds
  <1> QED
    BY <1>3, <1>4, <1>5 DEF SaveInv

\* The first of the entries, and the others.
LEMMA WhosOfFirst ==
    ASSUME NEW s \in Seq(Entries), s # <<>>
    PROVE  /\ Head(s) \in Entries /\ Tail(s) \in Seq(Entries)
           /\ Whos(s) = {Head(s).who} \cup Whos(Tail(s))
           /\ \A i \in DOMAIN Tail(s) : i + 1 \in DOMAIN s /\ Tail(s)[i] = s[i + 1]
           /\ 1 \in DOMAIN s /\ Head(s) = s[1]
           /\ Len(s) = 1 => Tail(s) = <<>>
  <1>1. /\ Head(s) \in Entries /\ Tail(s) \in Seq(Entries) /\ Head(s) = s[1]
        /\ Len(Tail(s)) = Len(s) - 1 /\ \A i \in 1..Len(Tail(s)) : Tail(s)[i] = s[i + 1]
    BY HeadTailProperties
  <1>2. DOMAIN s = 1..Len(s) /\ DOMAIN Tail(s) = 1..Len(Tail(s)) /\ Len(s) \in Nat /\ Len(s) # 0
    BY <1>1, LenProperties, EmptySeq
  <1>3. \A i \in DOMAIN s : i = 1 \/ (i - 1 \in DOMAIN Tail(s) /\ s[i] = Tail(s)[i - 1])
    BY <1>1, <1>2
  <1>4. \A i \in DOMAIN Tail(s) : i + 1 \in DOMAIN s /\ Tail(s)[i] = s[i + 1]
    BY <1>1, <1>2
  <1>5. 1 \in DOMAIN s
    BY <1>2
  <1>6. Whos(s) = {s[1].who} \cup Whos(Tail(s))
    <2>1. ASSUME NEW w \in Whos(s)
          PROVE  w \in {s[1].who} \cup Whos(Tail(s))
      <3>1. PICK i \in DOMAIN s : w = s[i].who
        BY <2>1 DEF Whos
      <3> QED
        BY <1>3, <3>1 DEF Whos
    <2>2. ASSUME NEW w \in Whos(Tail(s))
          PROVE  w \in Whos(s)
      <3>1. PICK i \in DOMAIN Tail(s) : w = Tail(s)[i].who
        BY <2>2 DEF Whos
      <3> QED
        BY <1>4, <3>1 DEF Whos
    <2>3. s[1].who \in Whos(s)
      BY <1>5 DEF Whos
    <2> QED
      BY <2>1, <2>2, <2>3
  <1>7. Len(s) = 1 => Tail(s) = <<>>
    <2>1. Tail(s) # <<>> => Len(Tail(s)) \in Nat \ {0}
      BY <1>1, EmptySeq
    <2> QED
      BY <1>1, <2>1
  <1> QED
    BY <1>1, <1>4, <1>5, <1>6, <1>7

LEMMA ReadRowsSave ==
    ASSUME ServerInv, SaveInv, ReadRows
    PROVE  SaveInv'
  <1>1. save \in Saves /\ save.phase = "read" /\ Registered(save.target)
    BY DEF SaveInv, SaveTyped, ReadRows, NotSaving
  <1> DEFINE had == RowsOf(save.target, save.kind)
             todo == save.form.list[save.kind]
  <1>2. /\ save' = [save EXCEPT !.phase = "upsert", !.todo = todo, !.had = had, !.kept = {}]
        /\ UNCHANGED <<members, attached, inserted>>
    BY DEF ReadRows, serverVars
  <1>3. had \subseteq Rows /\ had \subseteq attached
        /\ \A r \in had : r.member = save.target /\ r.kind = save.kind
    BY DEF ServerInv, RowsOf
  <1>4. todo \in Savable /\ todo \in Seq(Entries)
    BY <1>1 DEF Saves, Forms, Savable
  <1> HIDE DEF todo, had
  <1>5. /\ save' \in Saves /\ save'.phase = "upsert" /\ save'.mode = save.mode
        /\ save'.target = save.target /\ save'.form = save.form /\ save'.kind = save.kind
        /\ save'.todo = todo /\ save'.had = had /\ save'.kept = {} /\ save'.clean = save.clean
    BY <1>1, <1>2, <1>3, <1>4 DEF Saves
  <1>6. SaveTyped' /\ FormComplete'
    BY <1>1, <1>2, <1>5 DEF SaveTyped, FormComplete, Registered
  <1>7. HadOwn'
    BY <1>2, <1>3, <1>5 DEF HadOwn, ServerInv
  <1>8. NewHasNone'
    BY <1>1, <1>2, <1>5 DEF SaveInv, NewHasNone, Rowing, RowsOf, had
  <1>9. BlockOn'
    <2>1. RowsAccounted'
      BY <1>2, <1>5 DEF RowsAccounted, RowsOf, had
    <2>2. EntriesAccounted'
      BY <1>5 DEF EntriesAccounted, KeptRows, Whos, todo
    <2>3. TodoSavable'
      BY <1>4, <1>5 DEF TodoSavable, Savable
    <2> QED
      BY <1>2, <1>3, <1>5, <2>1, <2>2, <2>3 DEF BlockOn
  <1>10. BlocksDone'
    <2>1. \A k : HoldsReviewed(k)' <=> HoldsReviewed(k)
      BY <1>2, <1>5 DEF HoldsReviewed, RowsOf, Whos
    <2> QED
      BY <1>1, <1>5, <2>1 DEF SaveInv, BlocksDone, Rowing
  <1> QED
    BY <1>6, <1>7, <1>8, <1>9, <1>10 DEF SaveInv

LEMMA UpdateRowSave ==
    ASSUME ServerInv, SaveInv, UpdateRow
    PROVE  ServerInv' /\ SaveInv'
  <1> DEFINE item == Head(save.todo)
  <1>1. /\ save \in Saves /\ save.phase = "upsert" /\ Registered(save.target)
        /\ save.todo \in Seq(Entries) /\ save.todo # <<>>
    BY DEF SaveInv, SaveTyped, UpdateRow, NotSaving, Saves
  <1>2. item \in Entries /\ Tail(save.todo) \in Seq(Entries)
    BY <1>1, WhosOfFirst
  <1>3. PICK r \in Matches(item) :
          /\ \E now \in attached :
               /\ now.id = r.id
               /\ attached' = (attached \ {now})
                         \cup {[now EXCEPT !.who = item.who, !.member = save.target]}
          /\ \/ save' = [save EXCEPT !.todo = Tail(save.todo), !.kept = save.kept \cup {r.id}]
             \/ save' = Failed
    BY DEF UpdateRow
  <1>4. PICK now \in attached :
          /\ now.id = r.id
          /\ attached' = (attached \ {now}) \cup {[now EXCEPT !.who = item.who, !.member = save.target]}
    BY <1>3
  <1>5. UNCHANGED <<members, inserted>>
    BY DEF UpdateRow
  <1>6. r \in save.had /\ (item.id = 0 => r.who = item.who)
    BY <1>3 DEF Matches
  <1> HIDE DEF item
  <1>7. now \in Rows /\ now.member = save.target /\ now.kind = save.kind /\ r.id <= inserted
    BY <1>1, <1>4, <1>6 DEF ServerInv, SaveInv, HadOwn
  <1> DEFINE new == [now EXCEPT !.who = item.who, !.member = save.target]
  <1>8. /\ new \in Rows /\ new.id = r.id /\ new.member = save.target
        /\ new.kind = save.kind /\ new.who = item.who
    BY <1>1, <1>2, <1>4, <1>7 DEF Rows, Entries, ServerInv, Registered
  <1>9. attached' = (attached \ {now}) \cup {new}
    BY <1>4
  <1> HIDE DEF new
  <1>10. ServerInv'
    BY <1>1, <1>4, <1>5, <1>7, <1>8, <1>9 DEF ServerInv, Registered
  <1>11. \A s : s.kind # save.kind => (s \in attached' <=> s \in attached)
    BY <1>7, <1>8, <1>9
  <1>12. CASE save' = Failed
    BY <1>1, <1>5, <1>10, <1>11, <1>12, NextBlockSave DEF Rowing
  <1>13. CASE save' = [save EXCEPT !.todo = Tail(save.todo), !.kept = save.kept \cup {r.id}]
    <2>1. r.id \in Nat
      BY <1>7, <1>4 DEF Rows
    <2>2. /\ save' \in Saves /\ save'.phase = save.phase /\ save'.mode = save.mode
          /\ save'.target = save.target /\ save'.form = save.form /\ save'.kind = save.kind
          /\ save'.todo = Tail(save.todo) /\ save'.had = save.had
          /\ save'.kept = save.kept \cup {r.id} /\ save'.clean = save.clean
      BY <1>1, <1>2, <1>13, <2>1 DEF Saves
    <2>3. SaveTyped' /\ FormComplete'
      BY <1>1, <1>5, <2>2 DEF SaveTyped, FormComplete, Registered
    <2>4. HadOwn'
      BY <1>1, <1>5, <1>7, <1>8, <1>9, <2>2 DEF SaveInv, HadOwn
    <2>5. NewHasNone'
      BY <1>1, <1>6, <2>2 DEF SaveInv, NewHasNone, Rowing
    <2>6. BlocksDone'
      <3> SUFFICES ASSUME save.clean, save.kind = "vehicle"
                   PROVE  HoldsReviewed("kin")'
        BY <1>1, <2>2 DEF BlocksDone, Rowing
      <3>0. "kin" # save.kind
        OBVIOUS
      <3>1. HoldsReviewed("kin")
        BY <1>1 DEF SaveInv, BlocksDone, Rowing
      <3>2. RowsOf(save.target, "kin")' = RowsOf(save.target, "kin")
        BY <1>11, <2>2, <3>0 DEF RowsOf
      <3>3. Whos(save.form.list["kin"])' = Whos(save.form.list["kin"])
        BY <2>2 DEF Whos
      <3> QED
        BY <3>1, <3>2, <3>3 DEF HoldsReviewed
    <2>7. BlockOn'
      <3> SUFFICES ASSUME save.clean
                   PROVE  BlockOn'
        BY <2>2 DEF BlockOn
      <3>1. RowsAccounted /\ EntriesAccounted /\ TodoSavable /\ save.had \subseteq attached
        BY <1>1 DEF SaveInv, BlockOn
      <3>2. /\ Whos(save.todo) = {item.who} \cup Whos(save'.todo)
            /\ \A i \in DOMAIN save'.todo : i + 1 \in DOMAIN save.todo /\ save'.todo[i] = save.todo[i + 1]
            /\ 1 \in DOMAIN save.todo /\ item = save.todo[1]
            /\ Len(save.todo) = 1 => save'.todo = <<>>
        BY <1>1, <2>2, WhosOfFirst DEF item
      <3>7. /\ Whos(save.todo)' = Whos(save'.todo)
            /\ Whos(save.form.list[save.kind])' = Whos(save.form.list[save.kind])
        BY <2>2 DEF Whos
      <3>3. RowsAccounted'
        BY <1>8, <1>9, <2>2, <3>1 DEF RowsAccounted, RowsOf
      <3>4. TodoSavable'
        <4>1. CASE \A i \in DOMAIN save.todo : save.todo[i].id = 0
          BY <3>2, <4>1 DEF TodoSavable
        <4>2. CASE Len(save.todo) = 1
          BY <3>2, <4>2 DEF TodoSavable
        <4> QED
          BY <3>1, <4>1, <4>2 DEF TodoSavable
      \* An entry without a key finds its row as it is; one with a key is alone.
      <3>5. CASE item.id = 0
        <4>1. r \in attached /\ now = r
          BY <1>4, <1>6, <3>1 DEF ServerInv
        <4>2. new = now
          BY <1>6, <1>7, <3>5, <4>1 DEF new, Rows
        <4>3. attached' = attached
          BY <1>9, <4>2
        <4>4. KeptRows' = KeptRows \cup {r}
          BY <1>4, <1>7, <2>2, <4>1, <4>3 DEF KeptRows, RowsOf, ServerInv
        <4>5. {q.who : q \in KeptRows'} = {q.who : q \in KeptRows} \cup {item.who}
          BY <1>6, <3>5, <4>4
        <4>6. EntriesAccounted'
          BY <3>1, <3>2, <3>7, <4>5 DEF EntriesAccounted
        <4> QED
          BY <2>2, <3>1, <3>3, <3>4, <4>3, <4>6 DEF BlockOn
      <3>6. CASE item.id # 0
        <4>1. Len(save.todo) = 1 /\ save.kept = {}
          BY <3>1, <3>2, <3>6 DEF TodoSavable
        <4>2. save'.todo = <<>>
          BY <3>2, <4>1
        <4>3. KeptRows = {}
          BY <4>1 DEF KeptRows
        <4>4. KeptRows' = {new}
          BY <1>4, <1>8, <1>9, <2>2, <4>1 DEF KeptRows, RowsOf, ServerInv
        <4>5. EntriesAccounted'
          <5>1. {q.who : q \in KeptRows'} = {item.who} /\ {q.who : q \in KeptRows} = {}
            BY <1>8, <4>3, <4>4
          <5>2. Whos(save'.todo) = {}
            BY <4>2 DEF Whos
          <5> QED
            BY <3>1, <3>2, <3>7, <5>1, <5>2 DEF EntriesAccounted
        <4> QED
          BY <3>3, <3>4, <4>2, <4>5 DEF BlockOn
      <3> QED
        BY <3>5, <3>6
    <2> QED
      BY <1>10, <2>3, <2>4, <2>5, <2>6, <2>7 DEF SaveInv
  <1> QED
    BY <1>3, <1>12, <1>13

LEMMA CreateRowSave ==
    ASSUME ServerInv, SaveInv, CreateRow
    PROVE  ServerInv' /\ SaveInv'
  <1> DEFINE item == Head(save.todo)
             id == inserted + 1
  <1>1. /\ save \in Saves /\ save.phase = "upsert" /\ Registered(save.target)
        /\ save.todo \in Seq(Entries) /\ save.todo # <<>>
    BY DEF SaveInv, SaveTyped, CreateRow, NotSaving, Saves
  <1>2. item \in Entries /\ Tail(save.todo) \in Seq(Entries)
    BY <1>1, WhosOfFirst
  <1> DEFINE new == [id |-> id, member |-> save.target, kind |-> save.kind, who |-> item.who]
  <1>3. /\ inserted < MaxRow /\ inserted' = id /\ attached' = attached \cup {new}
        /\ UNCHANGED members
        /\ \/ save' = [save EXCEPT !.todo = Tail(save.todo), !.kept = save.kept \cup {id}]
           \/ save' = Failed
    BY DEF CreateRow
  <1>4. id \in 1..MaxRow /\ inserted < id /\ inserted <= id /\ inserted \in Nat
    BY <1>3, RegistrationAssumption DEF ServerInv
  <1> HIDE DEF item, id
  <1>5. /\ new \in Rows /\ new.id = id /\ new.member = save.target
        /\ new.kind = save.kind /\ new.who = item.who
    BY <1>1, <1>2, <1>4 DEF Rows, Entries, ServerInv, Registered, Saves
  <1> HIDE DEF new
  <1>6. \A r \in attached : r.id \in Nat /\ r.id < id
    BY <1>4 DEF ServerInv, Rows, id
  <1>7. ServerInv'
    BY <1>1, <1>3, <1>4, <1>5, <1>6 DEF ServerInv, Registered
  <1>8. \A s : s.kind # save.kind => (s \in attached' <=> s \in attached)
    BY <1>3, <1>5
  <1>9. CASE save' = Failed
    BY <1>1, <1>3, <1>7, <1>8, <1>9, NextBlockSave DEF Rowing
  <1>10. CASE save' = [save EXCEPT !.todo = Tail(save.todo), !.kept = save.kept \cup {id}]
    <2>1. id \in Nat
      BY <1>4
    <2>2. /\ save' \in Saves /\ save'.phase = save.phase /\ save'.mode = save.mode
          /\ save'.target = save.target /\ save'.form = save.form /\ save'.kind = save.kind
          /\ save'.todo = Tail(save.todo) /\ save'.had = save.had
          /\ save'.kept = save.kept \cup {id} /\ save'.clean = save.clean
      BY <1>1, <1>2, <1>10, <2>1 DEF Saves
    <2>3. SaveTyped' /\ FormComplete'
      BY <1>1, <1>3, <2>2 DEF SaveTyped, FormComplete, Registered
    <2>4. HadOwn'
      <3>1. /\ \A r \in save.had : r.id \in Nat /\ r.id <= inserted
            /\ \A i \in save.kept : i \in Nat /\ i <= inserted
        BY <1>1 DEF SaveInv, HadOwn, Saves, Rows
      <3>2. \A r \in save.had : r.id # id
        BY <1>4, <3>1 DEF id
      <3>3. \A r \in save.had : r.id <= id
        BY <1>4, <3>1 DEF id
      <3>4. \A i \in save.kept \cup {id} : i <= id
        BY <1>4, <2>1, <3>1 DEF id
      <3> QED
        BY <1>1, <1>3, <1>5, <2>2, <3>2, <3>3, <3>4 DEF SaveInv, HadOwn
    <2>5. NewHasNone'
      BY <1>1, <1>8, <2>2 DEF SaveInv, NewHasNone, Rowing, RowsOf
    <2>6. BlocksDone'
      <3> SUFFICES ASSUME save.clean, save.kind = "vehicle"
                   PROVE  HoldsReviewed("kin")'
        BY <1>1, <2>2 DEF BlocksDone, Rowing
      <3>1. HoldsReviewed("kin") /\ "kin" # save.kind
        BY <1>1 DEF SaveInv, BlocksDone, Rowing
      <3>2. RowsOf(save.target, "kin")' = RowsOf(save.target, "kin")
        BY <1>8, <2>2, <3>1 DEF RowsOf
      <3>3. Whos(save.form.list["kin"])' = Whos(save.form.list["kin"])
        BY <2>2 DEF Whos
      <3> QED
        BY <3>1, <3>2, <3>3 DEF HoldsReviewed
    <2>7. BlockOn'
      <3> SUFFICES ASSUME save.clean
                   PROVE  BlockOn'
        BY <2>2 DEF BlockOn
      <3>1. RowsAccounted /\ EntriesAccounted /\ TodoSavable /\ save.had \subseteq attached
        BY <1>1 DEF SaveInv, BlockOn
      <3>2. /\ Whos(save.todo) = {item.who} \cup Whos(save'.todo)
            /\ \A i \in DOMAIN save'.todo : i + 1 \in DOMAIN save.todo /\ save'.todo[i] = save.todo[i + 1]
            /\ Len(save.todo) = 1 => save'.todo = <<>>
        BY <1>1, <2>2, WhosOfFirst DEF item
      <3>3. /\ Whos(save.todo)' = Whos(save'.todo)
            /\ Whos(save.form.list[save.kind])' = Whos(save.form.list[save.kind])
        BY <2>2 DEF Whos
      <3>4. RowsAccounted'
        BY <1>3, <1>5, <2>2, <3>1 DEF RowsAccounted, RowsOf
      <3>5. TodoSavable'
        <4>1. CASE \A i \in DOMAIN save.todo : save.todo[i].id = 0
          BY <3>2, <4>1 DEF TodoSavable
        <4>2. CASE Len(save.todo) = 1
          BY <3>2, <4>2 DEF TodoSavable
        <4> QED
          BY <3>1, <4>1, <4>2 DEF TodoSavable
      <3>6. KeptRows' = KeptRows \cup {new}
        BY <1>3, <1>5, <1>6, <2>2 DEF KeptRows, RowsOf
      <3>7. {q.who : q \in KeptRows'} = {q.who : q \in KeptRows} \cup {item.who}
        BY <1>5, <3>6
      <3>8. EntriesAccounted'
        BY <3>1, <3>2, <3>3, <3>7 DEF EntriesAccounted
      <3> QED
        BY <1>3, <2>2, <3>1, <3>4, <3>5, <3>8 DEF BlockOn
    <2> QED
      BY <1>7, <2>3, <2>4, <2>5, <2>6, <2>7 DEF SaveInv
  <1> QED
    BY <1>3, <1>9, <1>10

LEMMA DeleteRowSave ==
    ASSUME ServerInv, SaveInv, DeleteRow
    PROVE  ServerInv' /\ SaveInv'
  <1>1. /\ save \in Saves /\ save.phase = "upsert" /\ Registered(save.target)
        /\ save.todo = <<>> /\ save.mode = "edit"
    BY DEF SaveInv, SaveTyped, DeleteRow, NotSaving
  <1>2. PICK r \in Doomed :
          \/ /\ attached' = {s \in attached : s.id # r.id}
             /\ save' = [save EXCEPT !.had = save.had \ {r}]
          \/ /\ save' = [save EXCEPT !.had = save.had \ {r}, !.clean = FALSE]
             /\ UNCHANGED attached
    BY DEF DeleteRow
  <1>3. r \in save.had /\ r.id \notin save.kept /\ UNCHANGED <<members, inserted>>
    BY DEF Doomed, DeleteRow
  <1>4. /\ save' \in Saves /\ save'.phase = save.phase /\ save'.mode = save.mode
        /\ save'.target = save.target /\ save'.form = save.form /\ save'.kind = save.kind
        /\ save'.todo = save.todo /\ save'.had = save.had \ {r} /\ save'.kept = save.kept
        /\ save'.clean => save.clean /\ attached' = {s \in attached : s.id # r.id}
        /\ attached' \subseteq attached
    <2>1. save.had \ {r} \in SUBSET Rows
      BY <1>1 DEF Saves
    <2> QED
      BY <1>1, <1>2, <2>1 DEF Saves
  <1>5. ServerInv'
    BY <1>3, <1>4 DEF ServerInv, Registered
  <1>6. SaveTyped' /\ FormComplete'
    BY <1>1, <1>3, <1>4 DEF SaveTyped, FormComplete, Registered
  <1>7. HadOwn'
    BY <1>1, <1>3, <1>4 DEF SaveInv, HadOwn
  <1>8. NewHasNone'
    BY <1>1, <1>4 DEF NewHasNone
  <1> SUFFICES ASSUME save'.clean
               PROVE  BlocksDone' /\ BlockOn'
    BY <1>5, <1>6, <1>7, <1>8 DEF SaveInv, BlocksDone, BlockOn
  <1>9. BlocksDone'
    <2> SUFFICES ASSUME save.kind = "vehicle"
                 PROVE  HoldsReviewed("kin")'
      BY <1>1, <1>4 DEF BlocksDone, Rowing
    <2>1. HoldsReviewed("kin") /\ "kin" # save.kind
      BY <1>1, <1>4 DEF SaveInv, BlocksDone, Rowing
    <2>2. \A s \in attached : s.kind = "kin" => s.id # r.id
      BY <1>1, <1>3, <2>1 DEF SaveInv, HadOwn
    <2>3. RowsOf(save.target, "kin")' = RowsOf(save.target, "kin")
      BY <1>4, <2>2 DEF RowsOf
    <2>4. Whos(save.form.list["kin"])' = Whos(save.form.list["kin"])
      BY <1>4 DEF Whos
    <2> QED
      BY <2>1, <2>3, <2>4 DEF HoldsReviewed
  <1>10. BlockOn'
    <2>1. RowsAccounted /\ EntriesAccounted /\ TodoSavable
      BY <1>1, <1>4 DEF SaveInv, BlockOn
    <2>2. RowsAccounted'
      BY <1>3, <1>4, <2>1 DEF RowsAccounted, RowsOf
    <2>3. KeptRows' = KeptRows
      BY <1>3, <1>4 DEF KeptRows, RowsOf
    <2>4. /\ Whos(save.todo)' = Whos(save.todo)
          /\ Whos(save.form.list[save.kind])' = Whos(save.form.list[save.kind])
      BY <1>4 DEF Whos
    <2>5. EntriesAccounted'
      BY <2>1, <2>3, <2>4 DEF EntriesAccounted
    <2>6. TodoSavable'
      BY <1>4, <2>1 DEF TodoSavable
    <2> QED
      BY <1>1, <1>4, <2>2, <2>5, <2>6 DEF BlockOn
  <1> QED
    BY <1>9, <1>10

\* The end of a block: what was read and not kept is gone, or there was nothing.
LEMMA RowsDoneSave ==
    ASSUME ServerInv, SaveInv, RowsDone
    PROVE  SaveInv'
  <1>1. /\ save \in Saves /\ save.phase = "upsert" /\ save.todo = <<>>
        /\ save.mode = "edit" => Doomed = {}
        /\ save' = NextBlock /\ UNCHANGED <<members, attached>>
    BY DEF SaveInv, SaveTyped, RowsDone, NotSaving, serverVars
  <1>2. ASSUME save.clean
        PROVE  HoldsReviewed(save.kind)
    <2>1. RowsAccounted /\ EntriesAccounted
      BY <1>1, <1>2 DEF SaveInv, BlockOn
    <2>2. \A h \in save.had : h.id \in save.kept
      <3>1. CASE save.mode = "edit"
        BY <1>1, <3>1 DEF Doomed
      <3>2. CASE save.mode = "new"
        BY <1>1, <3>2 DEF SaveInv, NewHasNone, Rowing
      <3> QED
        BY <1>1, <3>1, <3>2 DEF Saves
    <2>3. KeptRows = RowsOf(save.target, save.kind)
      BY <2>1, <2>2 DEF RowsAccounted, KeptRows
    <2>4. Whos(save.todo) = {}
      BY <1>1 DEF Whos
    <2> QED
      BY <2>1, <2>3, <2>4 DEF EntriesAccounted, HoldsReviewed
  <1> QED
    BY <1>1, <1>2, NextBlockSave DEF Rowing

-----------------------------------------------------------------------------
\* The invariant of the wizard

WizardInv == StoreInv /\ PageInv /\ ServerInv /\ SaveInv

\* A member with rows under the keys given out.
LEMMA InitServer ==
    ASSUME WizardInit
    PROVE  ServerInv
  <1>1. PICK m \in People, had \in SUBSET Things :
          /\ members = {m} /\ inserted = Cardinality(had)
          /\ \E id \in Bijection(had, 1..Cardinality(had)) :
               attached = {[id |-> id[t], member |-> m, kind |-> filled, who |-> t] : t \in had}
    BY DEF WizardInit
  <1>2. PICK id \in Bijection(had, 1..Cardinality(had)) :
          attached = {[id |-> id[t], member |-> m, kind |-> filled, who |-> t] : t \in had}
    BY <1>1
  <1>3. /\ IsFiniteSet(had) /\ Cardinality(had) \in Nat /\ Cardinality(Things) \in Nat
        /\ Cardinality(had) <= Cardinality(Things)
    BY RegistrationAssumption, FS_Subset, FS_CardinalityType
  <1>4. inserted \in 0..MaxRow
    BY <1>1, <1>3, RegistrationAssumption
  <1>5. /\ \A t \in had : id[t] \in 1..inserted
        /\ \A t, u \in had : id[t] = id[u] => t = u
    BY <1>1, <1>2 DEF Bijection, Injection, Surjection, IsInjective
  <1>6. \A t \in had : id[t] \in 1..MaxRow /\ id[t] <= inserted
    BY <1>4, <1>5, RegistrationAssumption
  <1>7. filled \in Kinds
    BY DEF WizardInit
  <1>8. attached \subseteq Rows
    BY <1>2, <1>6, <1>7 DEF Rows
  <1>9. \A r \in attached : r.id <= inserted /\ Registered(r.member)
    BY <1>1, <1>2, <1>6 DEF Registered
  <1>10. \A r, s \in attached : r.id = s.id => r = s
    BY <1>2, <1>5
  <1> QED
    BY <1>1, <1>4, <1>8, <1>9, <1>10 DEF ServerInv

LEMMA InitWizard == WizardInit => WizardInv
  <1> SUFFICES ASSUME WizardInit
               PROVE  WizardInv
    OBVIOUS
  <1>1. StoreInv
    <2>1. NoItem \in Singles
      BY DEF NoItem, Singles
    <2>2. [k \in Kinds |-> <<>>] \in [Kinds -> Seq(Plain)]
      BY EmptySeq
    <2>3. EmptyStore \in Stores
      BY <2>1, <2>2 DEF EmptyStore, Stores
    <2> QED
      BY <2>3 DEF WizardInit, StoreInv, StoreComplete, EmptyStore
  <1>2. PageInv
    BY DEF WizardInit, PageInv, Pages, Away
  <1>3. SaveInv
    <2>1. save = NotSaving /\ save.phase = "idle"
      BY DEF WizardInit, NotSaving
    <2> QED
      BY <2>1 DEF SaveInv, SaveTyped, FormComplete, HadOwn, NewHasNone, BlockOn, BlocksDone, Rowing
  <1> QED
    BY <1>1, <1>2, <1>3, InitServer DEF WizardInv

\* Steps that change the store leave the members alone, and only one other
\* step adds a member.
LEMMA StoreKept ==
    ASSUME StoreInv, UNCHANGED store, members \subseteq members'
    PROVE  StoreInv'
  <1>1. Active("kin")' = Active("kin")
    BY DEF Active
  <1> QED
    BY <1>1 DEF StoreInv, StoreComplete, Registered

LEMMA NextStore ==
    ASSUME WizardInv, [WizardNext]_wizardVars
    PROVE  StoreInv'
  <1>1. StoreInv /\ PageInv /\ ServerInv
    BY DEF WizardInv
  <1>2. CASE UNCHANGED store /\ members \subseteq members'
    BY <1>1, <1>2, StoreKept
  <1>3. ASSUME NEW m \in People, LoadAnswered(m)
        PROVE  StoreInv'
    BY <1>1, <1>3, LoadAnsweredStore
  <1>4. ASSUME NEW m \in People, NEW c \in Categories, ReplaceMember(m, c)
        PROVE  StoreInv'
    BY <1>1, <1>4, ReplaceMemberStore
  <1>5. CASE \/ Back \/ KinComplete \/ VehicleComplete
             \/ \E m \in People, c \in Categories : MemberComplete(m, c)
             \/ \E given \in BOOLEAN : GuarantorComplete(given)
    BY <1>1, <1>5, StepsStore
  <1>7. CASE KinDialog \/ KinDelete \/ VehicleDialog \/ VehicleDelete
    BY <1>1, <1>7, ListsStore
  <1>8. CASE TimerFires \/ LateTimerFires
    BY <1>1, <1>8, ResetStore DEF TimerFires, LateTimerFires, serverVars
  <1>9. CASE OpenNew \/ Leave \/ \E m \in People : OpenEdit(m) \/ LoadFailed(m)
    BY <1>2, <1>9 DEF OpenNew, Leave, OpenEdit, LoadFailed, serverVars
  <1>10. CASE Submit \/ SaveMember \/ SaveMemberFails \/ Finish
    BY <1>2, <1>10 DEF Submit, SaveMember, SaveMemberFails, Finish, serverVars
  <1>11. CASE ReadRows \/ UpdateRow \/ CreateRow \/ RowsFail \/ DeleteRow \/ RowsDone
    BY <1>2, <1>11 DEF ReadRows, UpdateRow, CreateRow, RowsFail, DeleteRow, RowsDone, serverVars
  <1>12. CASE UNCHANGED wizardVars
    BY <1>2, <1>12 DEF wizardVars, serverVars
  <1> QED
    BY <1>3, <1>4, <1>5, <1>7, <1>8, <1>9, <1>10, <1>11, <1>12 DEF WizardNext

LEMMA NextPage ==
    ASSUME WizardInv, [WizardNext]_wizardVars
    PROVE  PageInv'
  <1>1. page \in Pages /\ loads \subseteq members /\ members \subseteq People
    BY DEF WizardInv, PageInv, ServerInv
  <1>2. ASSUME NEW s \in {"form", "loading", "error", "saving", "done", "over"}
        PROVE  [page EXCEPT !.status = s] \in Pages
    BY <1>1 DEF Pages
  <1>3. Away \in Pages
    BY DEF Away, Pages
  <1>4. CASE OpenNew \/ \E m \in People : OpenEdit(m)
    BY <1>1, <1>4 DEF OpenNew, OpenEdit, PageInv, Pages, Registered, serverVars
  <1>5. CASE Leave
    BY <1>1, <1>3, <1>5 DEF Leave, PageInv, serverVars
  <1>6. ASSUME NEW m \in People, LoadAnswered(m) \/ LoadFailed(m)
        PROVE  PageInv'
    BY <1>1, <1>2, <1>6 DEF LoadAnswered, LoadFailed, PageInv, serverVars
  <1>7. CASE Submit \/ SaveMemberFails \/ TimerFires
    BY <1>1, <1>2, <1>7 DEF Submit, SaveMemberFails, TimerFires, Stop, PageInv, serverVars
  <1>8. CASE SaveMember
    BY <1>1, <1>2, <1>8 DEF SaveMember, Stop, PageInv
  <1>9. CASE Finish
    BY <1>1, <1>2, <1>3, <1>9 DEF Finish, PageInv, serverVars
  <1>10. CASE UNCHANGED <<page, loads, members>>
    BY <1>1, <1>10 DEF PageInv
  <1>11. CASE \/ Back \/ KinComplete \/ VehicleComplete
              \/ KinDialog \/ KinDelete \/ VehicleDialog \/ VehicleDelete
              \/ ReadRows \/ UpdateRow \/ CreateRow \/ RowsFail \/ DeleteRow \/ RowsDone
              \/ LateTimerFires
    BY <1>10, <1>11 DEF Back, KinComplete, VehicleComplete, KinDialog, KinDelete, VehicleDialog,
       VehicleDelete, AddItem, EditItem, RemoveItem, ReadRows, UpdateRow, CreateRow, RowsFail,
       DeleteRow, RowsDone, LateTimerFires, serverVars
  <1>12. CASE \/ \E m \in People, c \in Categories : ReplaceMember(m, c) \/ MemberComplete(m, c)
              \/ \E given \in BOOLEAN : GuarantorComplete(given)
    BY <1>10, <1>12 DEF ReplaceMember, MemberComplete, GuarantorComplete, serverVars
  <1>13. CASE UNCHANGED wizardVars
    BY <1>10, <1>13 DEF wizardVars, serverVars
  <1> QED
    BY <1>4, <1>5, <1>6, <1>7, <1>8, <1>9, <1>11, <1>12, <1>13 DEF WizardNext

LEMMA NextSave ==
    ASSUME WizardInv, [WizardNext]_wizardVars
    PROVE  ServerInv' /\ SaveInv'
  <1>1. ServerInv /\ SaveInv /\ StoreInv /\ PageInv
    BY DEF WizardInv
  <1>2. ASSUME UNCHANGED <<members, attached, inserted>>
        PROVE  ServerInv'
    BY <1>1, <1>2 DEF ServerInv, Registered
  <1>3. CASE UNCHANGED <<members, attached, inserted>> /\ (save' = save \/ save' = Unmounted)
    BY <1>1, <1>2, <1>3, QuietSave
  <1>4. CASE OpenNew \/ Leave \/ Back \/ TimerFires \/ LateTimerFires
             \/ KinComplete \/ VehicleComplete
    BY <1>3, <1>4 DEF OpenNew, Leave, Back, TimerFires, LateTimerFires, KinComplete,
       VehicleComplete, serverVars
  <1>5. CASE \E m \in People : OpenEdit(m) \/ LoadAnswered(m) \/ LoadFailed(m)
    BY <1>3, <1>5 DEF OpenEdit, LoadAnswered, LoadFailed, serverVars
  <1>6. CASE \/ \E m \in People, c \in Categories : ReplaceMember(m, c) \/ MemberComplete(m, c)
             \/ \E given \in BOOLEAN : GuarantorComplete(given)
    BY <1>3, <1>6 DEF ReplaceMember, MemberComplete, GuarantorComplete, serverVars
  <1>7. CASE KinDialog \/ KinDelete \/ VehicleDialog \/ VehicleDelete
    BY <1>3, <1>7 DEF KinDialog, KinDelete, VehicleDialog, VehicleDelete, AddItem, EditItem,
       RemoveItem, serverVars
  <1>8. CASE Submit
    BY <1>1, <1>2, <1>8, SubmitSave DEF Submit, serverVars
  <1>9. CASE SaveMember
    BY <1>1, <1>9, SaveMemberSave
  <1>10. CASE SaveMemberFails \/ Finish
    BY <1>2, <1>10, Ended DEF SaveMemberFails, Finish, Stop, serverVars
  <1>11. CASE ReadRows
    BY <1>1, <1>2, <1>11, ReadRowsSave DEF ReadRows, serverVars
  <1>12. CASE UpdateRow
    BY <1>1, <1>12, UpdateRowSave
  <1>13. CASE CreateRow
    BY <1>1, <1>13, CreateRowSave
  <1>14. CASE RowsFail
    <2>1. Rowing /\ save' = Failed /\ UNCHANGED <<members, attached, inserted>>
      BY <1>14 DEF RowsFail, Rowing, serverVars
    <2> QED
      BY <1>1, <1>2, <2>1, NextBlockSave
  <1>15. CASE DeleteRow
    BY <1>1, <1>15, DeleteRowSave
  <1>16. CASE RowsDone
    BY <1>1, <1>2, <1>16, RowsDoneSave DEF RowsDone, serverVars
  <1>17. CASE UNCHANGED wizardVars
    BY <1>3, <1>17 DEF wizardVars, serverVars
  <1> QED
    BY <1>4, <1>5, <1>6, <1>7, <1>8, <1>9, <1>10, <1>11, <1>12, <1>13, <1>14, <1>15, <1>16, <1>17 DEF WizardNext

LEMMA WizardInvHolds == WizardSpec => []WizardInv
  <1>1. WizardInv /\ [WizardNext]_wizardVars => WizardInv'
    BY NextStore, NextPage, NextSave DEF WizardInv
  <1> QED
    BY InitWizard, <1>1, PTL DEF WizardSpec

\* Rows carry keys of their own and belong to members.
THEOREM WizardTypes == WizardSpec => []WizardTypeOK
  <1>1. WizardInv => WizardTypeOK
    <2> SUFFICES ASSUME WizardInv
                 PROVE  WizardTypeOK
      OBVIOUS
    <2>1. ASSUME NEW k \in Kinds, NEW i \in DOMAIN store.list[k]
          PROVE  store.list[k][i] \in Items
      <3>1. store.list[k] \in Seq(Plain)
        BY DEF WizardInv, StoreInv, Stores
      <3>2. store.list[k][i] \in Plain
        BY <3>1, LenProperties, ElementOfSeq
      <3> QED
        BY <3>2, RegistrationAssumption DEF Plain, Items
    <2> QED
      BY <2>1 DEF WizardInv, StoreInv, Stores, ServerInv, WizardTypeOK
  <1> QED
    BY <1>1, WizardInvHolds, PTL

\* A member of the Normal category is registered only with a next of kin and a
\* guarantor on the form that was reviewed, for any number of visits, late loads
\* and late resets.
THEOREM NormalMembersComplete == WizardSpec => []CreatedComplete
  <1>1. WizardInv => CreatedComplete
    BY DEF WizardInv, SaveInv, FormComplete, CreatedComplete, Accepts
  <1> QED
    BY <1>1, WizardInvHolds, PTL

\* A save none of whose calls failed leaves the kin and vehicles that were
\* reviewed, and no others, for lists of any length.
THEOREM SavesAsReviewed == WizardSpec => []SavedAsReviewed
  <1>1. WizardInv => SavedAsReviewed
    BY DEF WizardInv, SaveInv, BlocksDone, HoldsReviewed, SavedAsReviewed
  <1> QED
    BY <1>1, WizardInvHolds, PTL

\* A row that goes or changes is of the member whose save runs.
THEOREM RowsOfOwnMember == WizardSpec => OwnRowsOnly
  <1>1. ASSUME WizardInv, [WizardNext]_wizardVars, NEW r \in attached, r \notin attached'
        PROVE  Running /\ save.target = r.member
    <2>1. CASE UpdateRow
      BY <1>1, <2>1 DEF UpdateRow, Matches, WizardInv, SaveInv, HadOwn, Running
    <2>2. CASE DeleteRow
      BY <1>1, <2>2 DEF DeleteRow, Doomed, WizardInv, SaveInv, HadOwn, Running
    <2>3. CASE attached \subseteq attached'
      BY <1>1, <2>3
    <2>4. CASE OpenNew \/ Leave \/ Back \/ TimerFires \/ LateTimerFires
               \/ KinComplete \/ VehicleComplete \/ Submit \/ SaveMember \/ SaveMemberFails
               \/ ReadRows \/ CreateRow \/ RowsFail \/ RowsDone \/ Finish
      BY <2>3, <2>4 DEF OpenNew, Leave, Back, TimerFires, LateTimerFires, KinComplete,
         VehicleComplete, Submit, SaveMember, SaveMemberFails, ReadRows, CreateRow, RowsFail,
         RowsDone, Finish, serverVars
    <2>5. CASE \/ \E m \in People : OpenEdit(m) \/ LoadAnswered(m) \/ LoadFailed(m)
               \/ \E m \in People, c \in Categories : ReplaceMember(m, c) \/ MemberComplete(m, c)
               \/ \E given \in BOOLEAN : GuarantorComplete(given)
               \/ KinDialog \/ KinDelete \/ VehicleDialog \/ VehicleDelete
      BY <2>3, <2>5 DEF OpenEdit, LoadAnswered, LoadFailed, ReplaceMember, MemberComplete,
         GuarantorComplete, KinDialog, KinDelete, VehicleDialog, VehicleDelete, AddItem, EditItem,
         RemoveItem, serverVars
    <2>6. CASE UNCHANGED wizardVars
      BY <2>3, <2>6 DEF wizardVars, serverVars
    <2> QED
      BY <1>1, <2>1, <2>2, <2>4, <2>5, <2>6 DEF WizardNext
  <1>2. WizardInv /\ [WizardNext]_wizardVars => [\A r \in attached : r \notin attached' => Running /\ save.target = r.member]_wizardVars
    BY <1>1
  <1> QED
    BY <1>2, WizardInvHolds, PTL DEF WizardSpec, OwnRowsOnly
=============================================================================
