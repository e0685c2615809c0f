---------------------------- MODULE Registration ----------------------------
(***************************************************************************)
(* The member registration wizard of the web front end: the Redux store it *)
(* fills (store/registration/registrationSlice.ts), the two pages that     *)
(* show it (members/new and members/[id]/edit), their five steps, and the  *)
(* save of ReviewStep.tsx, a sequence of separate API calls each of which  *)
(* may fail while the earlier ones stay.                                   *)
(*                                                                         *)
(* A member is named by the national id.  A next of kin or a vehicle is    *)
(* named by what the save matches it on: the national id or the name and   *)
(* relationship, and the registration number.  The store outlives the      *)
(* pages: it is one per browser tab and is reset only by the timer the     *)
(* save starts when it succeeds.                                           *)
(***************************************************************************)
EXTENDS Naturals, FiniteSets, Sequences, SequencesExt, TLC

CONSTANTS People,    \* national ids a member may have
          Things,    \* identities of next of kin, registration numbers
          Nobody,    \* no member in the store
          MaxRow     \* the last key given to a row, past those of the start

ASSUME RegistrationAssumption ==
    /\ Nobody \notin People
    /\ IsFiniteSet(Things) /\ Nobody \notin Things
    /\ MaxRow \in Nat /\ Cardinality(Things) <= MaxRow

VARIABLES store,      \* the registration slice of the Redux store
          page,       \* the wizard page on display
          loads,      \* edit loads not answered yet
          save,       \* the progress of the save that runs in the tab
          lateTimer,  \* a reset timer is set that no unmount can cancel
          members,    \* the members registered
          attached,   \* kin and vehicle rows on the server
          inserted,   \* the greatest key given to a row
          filled      \* a bound: which of the two lists the operator fills in

serverVars == <<members, attached, inserted, filled>>
wizardVars == <<store, page, loads, save, lateTimer, serverVars>>

-----------------------------------------------------------------------------
\* Data

Kinds == {"kin", "vehicle"}
Categories == {"normal", "special"}

NoItem == [id |-> 0, who |-> Nobody]
Items == [id : 0..MaxRow, who : Things]
Rows == [id : 1..MaxRow, member : People, kind : Kinds, who : Things]

EmptyStore == [member |-> Nobody, category |-> "none", step |-> 0,
               current |-> [k \in Kinds |-> NoItem],
               list |-> [k \in Kinds |-> <<>>],
               guarantor |-> FALSE]

Away == [mode |-> "away", target |-> Nobody, status |-> "form"]

\* The entries a step shows and a save sends: the list, else the single one,
\* which nothing reads while there is a list and which is cleared when the last
\* entry of a list is removed: it is kept here only while the list is empty.
Active(kind) ==
    IF store.list[kind] # <<>> THEN store.list[kind]
    ELSE IF store.current[kind].who # Nobody THEN <<store.current[kind]>>
    ELSE <<>>

Whos(list) == {list[i].who : i \in DOMAIN list}

Registered(m) == m \in members
RowsOf(m, kind) == {r \in attached : r.member = m /\ r.kind = kind}

-----------------------------------------------------------------------------
\* The pages and their steps

\* A bound: the form is left alone while a save of the tab runs, which sends
\* what was under review when it began; pages are opened and left.
Running == save.phase # "idle"
OnForm == page.mode # "away" /\ page.status = "form" /\ ~Running
At(step) == OnForm /\ store.step = step

OpenNew ==
    /\ page.mode = "away"
    /\ page' = [mode |-> "new", target |-> Nobody, status |-> "form"]
    /\ UNCHANGED <<store, loads, save, lateTimer, serverVars>>

OpenEdit(m) ==
    /\ page.mode = "away" /\ Registered(m)
    /\ loads = {}                                                   \* a bound
    /\ page' = [mode |-> "edit", target |-> m, status |-> "loading"]
    /\ loads' = loads \cup {m}
    /\ UNCHANGED <<store, save, lateTimer, serverVars>>

\* An unmounted page takes the timer it started with it; its calls go on.
Unmounted == [save EXCEPT !.shown = FALSE]

Leave ==
    /\ page.mode # "away"
    /\ page' = Away /\ save' = Unmounted
    /\ UNCHANGED <<store, loads, lateTimer, serverVars>>

\* A sub-read that failed or found nothing leaves the store as it is.  The
\* category and the guarantor the server has of a member are left open.
FirstRow(m, kind) ==
    {store.current[kind]}
        \cup {[id |-> r.id, who |-> r.who] :
               r \in {s \in RowsOf(m, kind) : store.list[kind] = <<>>}}

LoadAnswered(m) ==
    /\ m \in loads
    /\ loads' = loads \ {m}
    /\ \E kin \in FirstRow(m, "kin"), vehicle \in FirstRow(m, "vehicle"),
          c \in Categories, g \in {store.guarantor, TRUE} :
         store' = [store EXCEPT !.member = m, !.category = c,
                                !.current = [k \in Kinds |-> IF k = "kin" THEN kin ELSE vehicle],
                                !.guarantor = g]
    /\ page' = IF page.mode = "edit" /\ page.target = m /\ page.status = "loading"
               THEN [page EXCEPT !.status = "form"] ELSE page
    /\ UNCHANGED <<save, lateTimer, serverVars>>

LoadFailed(m) ==
    /\ m \in loads
    /\ loads' = loads \ {m}
    /\ page' = IF page.mode = "edit" /\ page.target = m /\ page.status = "loading"
               THEN [page EXCEPT !.status = "error"] ELSE page
    /\ UNCHANGED <<store, save, lateTimer, serverVars>>

\* The dialogs of the list and the dossier (MemberWorkflow) put the member they
\* were answered with into the store: the identity and the category of a draft
\* become those of a member, the rest of the draft stays.  An answer may come when
\* the operator has gone on to the wizard.
ReplaceMember(m, category) ==
    /\ Registered(m)
    /\ store' = [store EXCEPT !.member = m, !.category = category]
    /\ UNCHANGED <<page, loads, save, lateTimer, serverVars>>

GoTo(step) == store' = [store EXCEPT !.step = step]

Back ==
    /\ OnForm /\ store.step > 0
    /\ GoTo(store.step - 1)
    /\ UNCHANGED <<page, loads, save, lateTimer, serverVars>>

\* Kin and guarantor are asked of a Normal member only, a vehicle of nobody.
Required(step) == step \in {1, 3} /\ store.category = "normal"

\* An edit keeps the identity on the form; a new registration may name anyone.
MemberComplete(m, category) ==
    /\ At(0)
    /\ page.mode = "edit" => m = IF store.member = Nobody THEN page.target
                                                         ELSE store.member
    /\ store' = [store EXCEPT !.member = m, !.category = category, !.step = 1]
    /\ UNCHANGED <<page, loads, save, lateTimer, serverVars>>

\* Fault: the list is not looked at.
KinComplete_Unchecked ==
    /\ At(1)
    /\ GoTo(2)
    /\ UNCHANGED <<page, loads, save, lateTimer, serverVars>>

KinComplete ==
    /\ At(1)
    /\ Required(1) => Active("kin") # <<>>
    /\ GoTo(2)
    /\ UNCHANGED <<page, loads, save, lateTimer, serverVars>>

VehicleComplete ==
    /\ At(2)
    /\ Required(2) => Active("vehicle") # <<>>
    /\ GoTo(3)
    /\ UNCHANGED <<page, loads, save, lateTimer, serverVars>>

GuarantorComplete(given) ==
    /\ At(3)
    /\ Required(3) => given
    /\ store' = [store EXCEPT !.guarantor = given, !.step = 4]
    /\ UNCHANGED <<page, loads, save, lateTimer, serverVars>>

-----------------------------------------------------------------------------
\* The lists of the kin and the vehicle step

AddItem(kind, who) ==
    LET item == [id |-> 0, who |-> who]
        list == Append(store.list[kind], item) IN
    /\ Len(store.list[kind]) < Cardinality(Things)            \* a bound
    /\ store' = [store EXCEPT
                   !.list[kind] = list,
                   !.current[kind] = NoItem]
    /\ UNCHANGED <<page, loads, save, lateTimer, serverVars>>

\* The single entry an edit has loaded is shown with the same two buttons, but
\* the reducers look at the list only.
EditItem(kind, i, who) ==
    LET item == [Active(kind)[i] EXCEPT !.who = who] IN
    /\ store' = IF i \in DOMAIN store.list[kind]
                THEN [store EXCEPT !.list[kind][i] = item]
                ELSE store
    /\ UNCHANGED <<page, loads, save, lateTimer, serverVars>>

RemoveItem(kind, i) ==
    LET list == RemoveAt(store.list[kind], i) IN
    /\ store' = IF i \in DOMAIN store.list[kind]
                THEN [store EXCEPT !.list[kind] = list]
                ELSE store
    /\ UNCHANGED <<page, loads, save, lateTimer, serverVars>>

KinDialog ==
    /\ At(1) /\ filled = "kin"
    /\ \E who \in Things :
         \/ AddItem("kin", who)
         \/ \E i \in DOMAIN Active("kin") : EditItem("kin", i, who)

KinDelete == At(1) /\ \E i \in DOMAIN Active("kin") : RemoveItem("kin", i)

VehicleDialog ==
    /\ At(2) /\ filled = "vehicle"
    /\ \E who \in Things :
         \/ AddItem("vehicle", who)
         \/ \E i \in DOMAIN Active("vehicle") : EditItem("vehicle", i, who)

VehicleDelete ==
    At(2) /\ \E i \in DOMAIN Active("vehicle") : RemoveItem("vehicle", i)

-----------------------------------------------------------------------------
\* The save of the review step

NotSaving == [phase |-> "idle", shown |-> FALSE]

\* What the button closes over: the form under review, and what the server is
\* asked to hold once the calls are over.
Reviewed == [member |-> store.member, category |-> store.category,
             guarantor |-> store.guarantor,
             list |-> [k \in Kinds |-> Active(k)]]

Submit ==
    /\ At(4) /\ store.member # Nobody
    /\ ~lateTimer                                                    \* a bound
    /\ save' = [phase |-> "member", shown |-> TRUE, mode |-> page.mode,
                target |-> page.target, form |-> Reviewed,
                kind |-> "kin", todo |-> <<>>, had |-> {}, kept |-> {},
                clean |-> TRUE]
    /\ page' = [page EXCEPT !.status = "saving"]
    /\ UNCHANGED <<store, loads, lateTimer, serverVars>>

\* An error of the first call shows on the form, and the button works again.
Stop ==
    /\ save' = NotSaving
    /\ page' = IF save.shown THEN [page EXCEPT !.status = "form"] ELSE page

\* The national id is unique: a new member must not have it, an edit must not
\* take that of another.
Accepts == IF save.mode = "new" THEN ~Registered(save.form.member)
                 ELSE save.form.member = save.target

SaveMember ==
    LET m == save.form.member IN
    /\ save.phase = "member" /\ Accepts
    /\ members' = members \cup {m}
    /\ \/ /\ save' = [save EXCEPT !.phase = "read", !.target = m]
          /\ UNCHANGED page
       \/ Stop                                     \* the answer is lost
    /\ UNCHANGED <<store, loads, lateTimer, attached, inserted, filled>>

\* Fault: the error is shown and the next of kin are saved all the same.
SaveMemberFails_GoesOn ==
    /\ save.phase = "member"
    /\ save' = [save EXCEPT !.phase = "read", !.target = save.form.member]
    /\ UNCHANGED <<store, page, loads, lateTimer, serverVars>>

SaveMemberFails ==
    /\ save.phase = "member"
    /\ Stop
    /\ UNCHANGED <<store, loads, lateTimer, serverVars>>

\* The kin come first, then the vehicles, then the guarantor; the failure of a
\* call ends its block, is logged, and is not shown.
NextBlock ==
    [save EXCEPT !.phase = IF save.kind = "kin" THEN "read" ELSE "guarantor",
                 !.kind = "vehicle", !.todo = <<>>, !.had = {}, !.kept = {}]
Failed == [NextBlock EXCEPT !.clean = FALSE]

ReadRows ==
    /\ save.phase = "read"
    /\ save' = [save EXCEPT !.phase = "upsert",
                              !.todo = save.form.list[save.kind],
                              !.had = RowsOf(save.target, save.kind),
                              !.kept = {}]
    /\ UNCHANGED <<store, page, loads, lateTimer, serverVars>>

\* Fault: an entry that has a key stands for any row of that key.
Matches_AnyMember(item) ==
    IF item.id # 0 THEN {r \in attached : r.id = item.id}
    ELSE {r \in save.had : r.who = item.who}

\* The row an entry stands for, looked for among those just read.
Matches(item) ==
    {r \in save.had : IF item.id # 0 THEN r.id = item.id ELSE r.who = item.who}

\* A registration number is unique among all vehicles.
Free(kind, who, id) == kind = "vehicle" => \A r \in attached : r.who = who => r.id = id

\* Fault: the row that was updated is not noted, and an edit deletes it.
UpdateRow_NotKept ==
    LET item == Head(save.todo) IN
    /\ save.phase = "upsert" /\ save.todo # <<>>
    /\ \E r \in Matches(item) :
         /\ \E now \in attached :
              /\ now.id = r.id /\ Free(save.kind, item.who, r.id)
              /\ attached' = (attached \ {now})
                        \cup {[now EXCEPT !.who = item.who, !.member = save.target]}
         /\ save' = [save EXCEPT !.todo = Tail(@)]
    /\ UNCHANGED <<store, page, loads, lateTimer, members, inserted, filled>>

UpdateRow ==
    LET item == Head(save.todo) IN
    /\ save.phase = "upsert" /\ save.todo # <<>>
    /\ \E r \in Matches(item) :
         /\ \E now \in attached :
              /\ now.id = r.id /\ Free(save.kind, item.who, r.id)
              /\ attached' = (attached \ {now})
                        \cup {[now EXCEPT !.who = item.who, !.member = save.target]}
         /\ \/ save' = [save EXCEPT !.todo = Tail(@), !.kept = @ \cup {r.id}]
            \/ save' = Failed               \* the answer is lost
    /\ UNCHANGED <<store, page, loads, lateTimer, members, inserted, filled>>

CreateRow ==
    LET item == Head(save.todo)
        id == inserted + 1 IN
    /\ save.phase = "upsert" /\ save.todo # <<>>
    /\ Matches(item) = {}
    /\ inserted < MaxRow /\ Free(save.kind, item.who, id)
    /\ inserted' = id
    /\ attached' = attached
         \cup {[id |-> id, member |-> save.target, kind |-> save.kind, who |-> item.who]}
    /\ \/ save' = [save EXCEPT !.todo = Tail(@), !.kept = @ \cup {id}]
       \/ save' = Failed                    \* the answer is lost
    /\ UNCHANGED <<store, page, loads, lateTimer, members, filled>>

RowsFail ==
    /\ save.phase \in {"read", "upsert"}
    /\ save.phase = "upsert" => save.todo # <<>>
    /\ save' = Failed
    /\ UNCHANGED <<store, page, loads, lateTimer, serverVars>>

\* An edit then deletes what it read and did not keep, one call after another;
\* a delete that fails is passed over.
Doomed == {r \in save.had : r.id \notin save.kept}

DeleteRow ==
    /\ save.phase = "upsert" /\ save.todo = <<>> /\ save.mode = "edit"
    /\ \E r \in Doomed :
         \/ /\ attached' = {s \in attached : s.id # r.id}
            /\ save' = [save EXCEPT !.had = @ \ {r}]
         \/ /\ save' = [save EXCEPT !.had = @ \ {r}, !.clean = FALSE]
            /\ UNCHANGED attached
    /\ UNCHANGED <<store, page, loads, lateTimer, members, inserted, filled>>

RowsDone ==
    /\ save.phase = "upsert" /\ save.todo = <<>>
    /\ save.mode = "edit" => Doomed = {}
    /\ save' = NextBlock
    /\ UNCHANGED <<store, page, loads, lateTimer, serverVars>>

\* The last block, and with it success: the page goes back to the list and a
\* timer will reset the store, the page's own or, of a page long left, one that
\* nothing cancels.
Finish ==
    /\ save.phase = "guarantor"
    /\ save' = NotSaving
    /\ IF save.shown THEN page' = [page EXCEPT !.status = "done"]
                     ELSE page' = Away
    /\ lateTimer' = ~save.shown
    /\ UNCHANGED <<store, loads, serverVars>>

\* A mounted wizard puts its own step back into the store.
Reset == store' = [EmptyStore EXCEPT !.step = IF page.mode = "away" THEN 0
                                             ELSE store.step]

TimerFires ==
    /\ page.status = "done"
    /\ Reset
    /\ page' = [page EXCEPT !.status = "over"]
    /\ UNCHANGED <<loads, save, lateTimer, serverVars>>

LateTimerFires ==
    /\ lateTimer
    /\ lateTimer' = FALSE
    /\ Reset
    /\ UNCHANGED <<page, loads, save, serverVars>>

-----------------------------------------------------------------------------
\* A member registered before, with rows made by other means.
WizardInit ==
    /\ store = EmptyStore /\ page = Away /\ loads = {}
    /\ save = NotSaving /\ lateTimer = FALSE
    /\ filled \in Kinds
    /\ \E m \in People, had \in SUBSET Things :
         /\ members = {m}
         /\ inserted = Cardinality(had)
         /\ \E id \in Bijection(had, 1..Cardinality(had)) :
              attached = {[id |-> id[t], member |-> m, kind |-> filled, who |-> t] :
                            t \in had}

WizardNext ==
    \/ OpenNew \/ Leave \/ Back
    \/ \E m \in People : OpenEdit(m) \/ LoadAnswered(m) \/ LoadFailed(m)
    \/ \E m \in People, c \in Categories : ReplaceMember(m, c) \/ MemberComplete(m, c)
    \/ KinDialog \/ KinDelete \/ KinComplete
    \/ VehicleDialog \/ VehicleDelete \/ VehicleComplete
    \/ \E given \in BOOLEAN : GuarantorComplete(given)
    \/ Submit \/ SaveMember \/ SaveMemberFails
    \/ ReadRows \/ UpdateRow \/ CreateRow \/ RowsFail
    \/ DeleteRow \/ RowsDone \/ Finish
    \/ TimerFires \/ LateTimerFires

WizardSpec == WizardInit /\ [][WizardNext]_wizardVars

-----------------------------------------------------------------------------
\* Properties

\* Kin and vehicle rows belong to registered members, under keys given out.
WizardTypeOK ==
    /\ store.member \in People \cup {Nobody} /\ store.step \in 0..4
    /\ \A k \in Kinds : \A i \in DOMAIN store.list[k] : store.list[k][i] \in Items
    /\ attached \subseteq Rows
    /\ \A r \in attached : r.id <= inserted /\ Registered(r.member)
    /\ \A r, s \in attached : r.id = s.id => r = s

\* A member of the Normal category is never registered without a next of kin
\* and a guarantor under review, whatever the store was left with by an earlier
\* visit, a late load or a late reset (members/new and RegistrationWizard open
\* at the step the store remembers).
CreatedComplete ==
    /\ save.phase = "member" /\ save.mode = "new" /\ Accepts
    /\ save.form.category = "normal"
    => save.form.list["kin"] # <<>> /\ save.form.guarantor

\* A save whose calls all succeed leaves the member with exactly the kin and
\* the vehicles that were under review (ReviewStep.saveRegistration).
SavedAsReviewed ==
    save.phase = "guarantor" /\ save.clean =>
      \A k \in Kinds : {r.who : r \in RowsOf(save.target, k)}
                       = Whos(save.form.list[k])

\* Rows change only in a save of the member they belong to: an entry left in
\* the store by an edit of another member never reaches that member's row.
OwnRowsOnly ==
    [][\A r \in attached : r \notin attached' => Running /\ save.target = r.member]_wizardVars
=============================================================================
