--------------------------- MODULE MemberWorkflow ---------------------------
(***************************************************************************)
(* The way of a member from captured data to an active account: the list   *)
(* of members (app/(DashboardLayout)/members/page.tsx), the dossier of one *)
(* (components/members/details), their dialogs, and the service behind     *)
(* them (backend apps/members/services/member_service.py).                 *)
(*                                                                         *)
(* A request reads the rows, then writes them in one transaction; nothing  *)
(* is locked in between.  The workflow operations write the columns they   *)
(* name; saving an edit writes the whole row it has read.                  *)
(***************************************************************************)
EXTENDS Naturals, FiniteSets

CONSTANTS Members, Tabs,
          NoOne,      \* no member
          Gone,       \* no row
          Workers,    \* how many requests the server works on at a time
          May,        \* what the operator of each tab has the permission to do
          Opens       \* a bound: the pages that each tab opens

ASSUME WorkflowAssumption == NoOne \notin Members /\ Workers \in Nat \ {0}

Stages == {"pending", "approved", "active", "rejected"}

\* The registration stage, whether the status is ACTIVE, and whether the row
\* names who approved it.
Row == [stage : Stages, on : BOOLEAN, approved : BOOLEAN]

ASSUME GoneAssumption == Gone \notin Row

Single == {"approve", "reject", "activate", "deactivate", "complete", "delete", "edit"}
Bulk == {"bulk activate", "bulk deactivate"}
Ops == Single \cup Bulk

ASSUME MayAssumption ==
    /\ May \in [Tabs -> SUBSET Ops]
    /\ Opens \in [Tabs -> SUBSET {"list", "dossier"}]

VARIABLES rows,     \* Member rows
          edited,   \* members an edit has been saved of
          tab,      \* what each tab shows
          req       \* the request of each tab

dbVars == <<rows, edited>>
vars == <<rows, edited, tab, req>>

Table == [Members -> Row \cup {Gone}]
Screen == [Members -> [stage : Stages, on : BOOLEAN] \cup {Gone}]

Tab == [page : {"list", "dossier"}, member : Members \cup {NoOne}, shown : Screen,
        dialog : Ops \cup {"none"}, on : SUBSET Members,
        load : {"done", "loading", "failed"}]

\* seen is the stage the screen showed when the request was sent.
Request == [op : Ops \cup {"none"}, on : SUBSET Members,
            seen : [Members -> Stages \cup {Gone}], snap : Table,
            phase : {"none", "sent", "read", "ok", "failed"}]

Unread == [m \in Members |-> Gone]
NoRequest == [op |-> "none", on |-> {}, seen |-> Unread, snap |-> Unread, phase |-> "none"]

\* What is kept of a request that was carried out or refused.
Answered(r, phase) ==
    [r EXCEPT !.on = {}, !.seen = Unread, !.snap = Unread, !.phase = phase]

Of(table, ms) == [m \in Members |-> IF m \in ms THEN table[m] ELSE Gone]

Displayed(ms) ==
    [m \in Members |-> IF m \notin ms \/ rows[m] = Gone THEN Gone
                      ELSE [stage |-> rows[m].stage, on |-> rows[m].on]]

Page(m) == [page |-> IF m = NoOne THEN "list" ELSE "dossier", member |-> m,
            shown |-> Displayed(IF m = NoOne THEN Members ELSE {m}),
            dialog |-> "none", on |-> {}, load |-> "done"]

Init ==
    /\ rows = [m \in Members |-> [stage |-> "pending", on |-> FALSE, approved |-> FALSE]]
    /\ edited = {}
    /\ tab = [t \in Tabs |-> Page(NoOne)]
    /\ req = [t \in Tabs |-> NoRequest]

-----------------------------------------------------------------------------
\* Screens

Idle(t) == req[t].phase = "none"

\* Another page is opened.  An operator does not leave a request behind.
Visit(t, m) ==
    /\ Idle(t)
    /\ m # NoOne => rows[m] # Gone
    /\ Page(m).page \in Opens[t]
    /\ tab' = [tab EXCEPT ![t] = Page(m)]
    /\ UNCHANGED <<dbVars, req>>

\* The account buttons, the same on the list and on the dossier.
OfferedAlways(r) ==
    {"edit"} \cup
    (IF r.stage = "pending" THEN {"approve", "reject"} ELSE {}) \cup
    (IF r.stage = "approved" THEN {"complete"} ELSE {}) \cup
    (IF r.stage \notin {"approved", "active"} THEN {}
     ELSE IF r.on THEN {"deactivate"} ELSE {"activate"})

OfferedInList(r) == OfferedAlways(r) \cup {"delete"}

OfferedInDossier(r) ==
    OfferedAlways(r) \cup (IF r.stage = "active" THEN {} ELSE {"delete"})

\* A dossier keeps its buttons while it is read anew; the list shows a spinner
\* then, and no rows when it could not be read.
Open(t, op, m) ==
    /\ op \in May[t] /\ tab[t].dialog = "none" /\ tab[t].shown[m] # Gone
    /\ \/ /\ tab[t].page = "list" /\ tab[t].load = "done"
          /\ op \in OfferedInList(tab[t].shown[m])
       \/ tab[t].page = "dossier" /\ op \in OfferedInDossier(tab[t].shown[m])
    /\ tab' = [tab EXCEPT ![t].dialog = op, ![t].on = {m}]
    /\ UNCHANGED <<dbVars, req>>

\* The bar of the selected members stays while the list is read anew.
OpenBulk(t, op, ms) ==
    /\ op \in May[t] /\ tab[t].page = "list" /\ tab[t].dialog = "none"
    /\ \A m \in ms : tab[t].shown[m] # Gone
    /\ tab' = [tab EXCEPT ![t].dialog = op, ![t].on = ms]
    /\ UNCHANGED <<dbVars, req>>

\* Fault: the selected member is not reset.
NoDialog_KeepsMember(page) == [page EXCEPT !.dialog = "none"]

NoDialog(page) == [page EXCEPT !.dialog = "none", !.on = {}]

Close(t) ==
    /\ Idle(t) /\ tab[t].dialog # "none"
    /\ tab' = [tab EXCEPT ![t] = NoDialog(@)]
    /\ UNCHANGED <<dbVars, req>>

\* What the dialog was opened for is sent, as the screen showed it.
Confirm(t) ==
    /\ Idle(t) /\ tab[t].dialog # "none"
    /\ req' = [req EXCEPT ![t] = [op |-> tab[t].dialog, on |-> tab[t].on,
                                  seen |-> [m \in Members |->
                                             IF m \in tab[t].on /\ tab[t].shown[m] # Gone
                                             THEN tab[t].shown[m].stage ELSE Gone],
                                  snap |-> Unread, phase |-> "sent"]]
    /\ UNCHANGED <<dbVars, tab>>

\* The form of the edit page has been filled before (Registration).
EditForm(t) == tab[t].dialog = "edit" /\ Confirm(t)

ApproveDialog(t) == tab[t].dialog = "approve" /\ Confirm(t)
RejectDialog(t) == tab[t].dialog = "reject" /\ Confirm(t)
CompleteDialog(t) == tab[t].dialog = "complete" /\ Confirm(t)
ActivateDialog(t) == tab[t].dialog = "activate" /\ Confirm(t)
DeactivateDialog(t) == tab[t].dialog = "deactivate" /\ Confirm(t)

\* Those that are not eligible are told, and sent with the others.
BulkActivateDialog(t) == tab[t].dialog = "bulk activate" /\ Confirm(t)
BulkDeactivateDialog(t) == tab[t].dialog = "bulk deactivate" /\ Confirm(t)

\* A deletion on the list holds its dialog until the list has been read anew.
Held(t) == tab[t].page = "list" /\ tab[t].load # "done"
DeleteDialog(t) == tab[t].dialog = "delete" /\ ~Held(t) /\ Confirm(t)

Dialogs(t) ==
    \/ ApproveDialog(t) \/ RejectDialog(t) \/ CompleteDialog(t)
    \/ ActivateDialog(t) \/ DeactivateDialog(t)
    \/ BulkActivateDialog(t) \/ BulkDeactivateDialog(t)
    \/ DeleteDialog(t) \/ EditForm(t)

-----------------------------------------------------------------------------
\* Requests

Busy == {t \in Tabs : req[t].phase = "read"}

\* get_object or the filter on the identifiers; a single row that is not there
\* is answered with 404.
Read(t) ==
    /\ req[t].phase = "sent" /\ Cardinality(Busy) < Workers
    /\ req' = [req EXCEPT ![t] =
                 IF req[t].op \in Single /\ \E m \in req[t].on : rows[m] = Gone
                 THEN Answered(@, "failed")
                 ELSE [@ EXCEPT !.snap = Of(rows, req[t].on), !.phase = "read"]]
    /\ UNCHANGED <<dbVars, tab>>

Working(t, op) == req[t].phase = "read" /\ req[t].op = op

\* Fault: a bulk activation skips only the members that are active.
Touched_Pending(t) ==
    {m \in req[t].on : /\ req[t].snap[m] # Gone
                       /\ req[t].op = "bulk activate" => ~req[t].snap[m].on
                       /\ req[t].op = "bulk deactivate" => req[t].snap[m].on}

\* The members the operation writes.
Touched(t) ==
    LET snap == req[t].snap
    IN  {m \in req[t].on : /\ snap[m] # Gone
                           /\ req[t].op = "bulk activate" =>
                                snap[m].stage \in {"approved", "active"} /\ ~snap[m].on
                           /\ req[t].op = "bulk deactivate" => snap[m].on}

\* What the service checks on the rows it has read.
Permitted(t) ==
    \A m \in Touched(t) :
      /\ req[t].op = "complete" => req[t].snap[m].stage = "approved"
      /\ req[t].op = "activate" => req[t].snap[m].stage \in {"approved", "active"}

\* A save of named columns fails when the row is gone; so does the audit row
\* of a deletion.  A save of the whole row inserts it.
Writable(t) == req[t].op = "edit" \/ \A m \in Touched(t) : rows[m] # Gone

Put(t, table) ==
    /\ Permitted(t) /\ Writable(t)
    /\ rows' = table
    /\ req' = [req EXCEPT ![t] = Answered(@, "ok")]
    /\ UNCHANGED tab

\* change_registration_stage returns when the row it has read is in the stage.
Moved(t, m, stage) == IF req[t].snap[m].stage = stage THEN rows[m].stage ELSE stage

Write(t, table) == Put(t, table) /\ UNCHANGED edited

Approve(t) ==
    /\ Working(t, "approve")
    /\ Write(t, [m \in Members |->
                   IF m \in Touched(t)
                   THEN [rows[m] EXCEPT !.stage = Moved(t, m, "approved"), !.approved = TRUE]
                   ELSE rows[m]])

Reject(t) ==
    /\ Working(t, "reject")
    /\ Write(t, [m \in Members |->
                   IF m \in Touched(t)
                   THEN [rows[m] EXCEPT !.stage = Moved(t, m, "rejected")] ELSE rows[m]])

Complete(t) ==
    /\ Working(t, "complete")
    /\ Write(t, [m \in Members |->
                   IF m \in Touched(t)
                   THEN [rows[m] EXCEPT !.stage = "active", !.on = TRUE] ELSE rows[m]])

Switched(t, on) ==
    [m \in Members |->
       IF m \in Touched(t) THEN [rows[m] EXCEPT !.on = on] ELSE rows[m]]

Activate(t) == Working(t, "activate") /\ Write(t, Switched(t, TRUE))
Deactivate(t) == Working(t, "deactivate") /\ Write(t, Switched(t, FALSE))
BulkActivate(t) == Working(t, "bulk activate") /\ Write(t, Switched(t, TRUE))
BulkDeactivate(t) == Working(t, "bulk deactivate") /\ Write(t, Switched(t, FALSE))

Delete(t) ==
    /\ Working(t, "delete")
    /\ Write(t, [m \in Members |-> IF m \in Touched(t) THEN Gone ELSE rows[m]])

Edit(t) ==
    /\ Working(t, "edit")
    /\ Put(t, [m \in Members |-> IF m \in Touched(t) THEN req[t].snap[m] ELSE rows[m]])
    /\ edited' = edited \cup Touched(t)

Refuse(t) ==
    /\ req[t].phase = "read" /\ ~(Permitted(t) /\ Writable(t))
    /\ req' = [req EXCEPT ![t] = Answered(@, "failed")]
    /\ UNCHANGED <<dbVars, tab>>

-----------------------------------------------------------------------------
\* Answers

Done(t) == req' = [req EXCEPT ![t] = NoRequest] /\ UNCHANGED dbVars

\* The dialog closes and the page is read anew; after an edit, or a deletion
\* on a dossier, the list is opened.
Success(t) ==
    /\ req[t].phase = "ok" /\ Done(t)
    /\ LET op == req[t].op
       IN  tab' = [tab EXCEPT ![t] =
             IF op = "edit" \/ (op = "delete" /\ @.page = "dossier") THEN Page(NoOne)
             ELSE IF op = "delete" THEN [@ EXCEPT !.load = "loading"]
             ELSE [NoDialog(@) EXCEPT !.load = "loading"]]

\* The dialog stays, with a message; also when an answer is lost.
Failure(t) == req[t].phase \in {"ok", "failed"} /\ Done(t) /\ UNCHANGED tab

\* Fault: the dialogs that were opened meanwhile stay.
Reread_LeavesOpen(page) == page

\* When the page has been read, or could not be, every dialog is closed, those
\* opened meanwhile too, except the deletion of a dossier.
Reread(page) ==
    IF page.page = "dossier" /\ page.dialog = "delete" THEN page ELSE NoDialog(page)

Refresh(t) ==
    /\ tab[t].load = "loading"
    /\ tab[t].page = "dossier" => rows[tab[t].member] # Gone
    /\ tab' = [tab EXCEPT ![t] =
                 [Reread(@) EXCEPT !.shown = Page(tab[t].member).shown, !.load = "done"]]
    /\ UNCHANGED <<dbVars, req>>

RefreshFails(t) ==
    /\ tab[t].load = "loading"
    /\ tab' = [tab EXCEPT ![t] =
                 [Reread(@) EXCEPT !.load = IF @ = "loading" /\ tab[t].page = "list"
                                            THEN "failed" ELSE "done"]]
    /\ UNCHANGED <<dbVars, req>>

Serve(t) ==
    \/ Read(t) \/ Refuse(t) \/ Approve(t) \/ Reject(t) \/ Complete(t)
    \/ Activate(t) \/ Deactivate(t) \/ BulkActivate(t) \/ BulkDeactivate(t)
    \/ Delete(t) \/ Edit(t)

Next ==
    \E t \in Tabs :
      \/ \E m \in Members \cup {NoOne} : Visit(t, m)
      \/ \E m \in Members, op \in Single : Open(t, op, m)
      \/ \E ms \in (SUBSET Members) \ {{}}, op \in Bulk : OpenBulk(t, op, ms)
      \/ Close(t) \/ Dialogs(t) \/ Serve(t)
      \/ Success(t) \/ Failure(t) \/ Refresh(t) \/ RefreshFails(t)

Spec == Init /\ [][Next]_vars

-----------------------------------------------------------------------------
\* Properties

\* A dialog is about somebody, and in a dossier about nobody else (closeDialogs
\* and the dialogs of MemberDetails); so is a request that is worked on.
TypeOK ==
    /\ rows \in Table
    /\ edited \subseteq Members
    /\ tab \in [Tabs -> Tab]
    /\ req \in [Tabs -> Request]
    /\ \A t \in Tabs :
         /\ tab[t].dialog = "none" <=> tab[t].on = {}
         /\ tab[t].page = "dossier" => tab[t].on \subseteq {tab[t].member}
         /\ req[t].phase \in {"sent", "read"} <=> req[t].on # {}

\* "Member must be APPROVED before their account can be activated"
\* (activate_member): no account is active that nobody approved, whatever the
\* requests in progress, stale screens, bulk selections and repeated requests,
\* unless an edit of the member wrote an old row back.
ActiveWasApproved ==
    \A m \in Members \ edited :
      rows[m] # Gone /\ rows[m].on => rows[m].approved

\* A registration that was completed, or rejected, is taken out of that stage
\* only on a request from a screen that showed another stage (the buttons of
\* WorkflowToolbar and MemberDataGrid, and the dialogs that close on a refresh).
UndoneFromStale ==
    [][\A m \in Members \ edited' :
         /\ rows[m] # Gone /\ rows[m].stage \in {"active", "rejected"}
         /\ rows'[m] # Gone /\ rows'[m].stage # rows[m].stage
         => \E t \in Busy : m \in req[t].on /\ req[t].seen[m] # rows[m].stage]_vars

\* "These fields may only be changed through the dedicated RBAC-protected
\* workflow actions" (MemberSerializer): saving an edit leaves the stage and
\* the status of the member as they are.
EditKeepsWorkflow ==
    [][\A t \in Tabs : Edit(t) => rows' = rows]_vars
=============================================================================
