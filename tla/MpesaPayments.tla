--------------------------- MODULE MpesaPayments ---------------------------
(***************************************************************************)
(* M-Pesa receipts from callback to loan: MpesaC2BConfirmationView and     *)
(* MpesaC2BValidationView, the administrators' report with its manual      *)
(* allocation and reset (loans/views/mpesa_views.py), and MpesaC2BService  *)
(* (loans/services/mpesa_service.py).                                      *)
(*                                                                         *)
(* A callback is logged, verified over the network, processed in one       *)
(* database transaction, and its log row is updated: four steps, between   *)
(* which other requests run and the worker may die.  The payment service   *)
(* delivers a callback as often as it likes.                               *)
(***************************************************************************)
EXTENDS Naturals, Sequences

CONSTANTS
    Receipts,   \* M-Pesa transaction identifiers
    Matched,    \* receipts whose reference is the number of a loan
    Workers,    \* request handlers running at the same time
    Window,     \* newest log rows that the report looks at
    MaxRows,    \* bound: log rows ever written
    MaxCredits, \* bound: repayments of a receipt, where they are deleted
    Ops,        \* the operations clients and administrators issue
    NoReceipt   \* a worker that handles no receipt

AllOps == {"validate", "confirm", "report", "allocate", "reset", "teller", "delete"}

Statuses == {"none", "UNALLOCATED", "COMPLETED", "FAILED", "VERIFICATION_FAILED"}

(* "validated" is the row of a validation callback, written as processed.  *)
LogRow == [receipt : Receipts, status : {"received", "processed", "failed", "validated"}]

Stages == {"idle", "logged", "verified", "refused", "accepting", "failing",
           "reporting", "finding", "allocating", "linking",
           "locating", "resetting"}

ASSUME ReceiptsOK ==
    /\ Matched \subseteq Receipts
    /\ Window \in Nat
    /\ MaxRows \in Nat
    /\ MaxCredits \in Nat
    /\ Ops \subseteq AllOps
    /\ NoReceipt \notin Receipts

VARIABLES
    log,        \* the MpesaReceivedPayment rows, oldest first
    tx,         \* status of the MpesaTransaction of each receipt
    linked,     \* receipts whose transaction points to a Repayment
    repayments, \* receipts that are the reference of a Repayment
    credits,    \* how often each receipt was credited to a loan
    accepted,   \* receipts that a verified callback was processed for
    rejected,   \* receipts that a refused callback was processed for
    byHand,     \* receipts that an administrator or a teller credited
    undone,     \* receipts of which a repayment was deleted
    stage,      \* what each worker will do next
    receipt,    \* the receipt its request is about
    row,        \* the log row of its request, 0 where it could not be written
    todo        \* receipts its request has yet to add to the report

payVars == <<tx, linked, repayments, credits>>
reqVars == <<stage, receipt, row, todo>>
history == <<byHand, undone>>
vars    == <<log, payVars, accepted, rejected, history, reqVars>>

TypeOK ==
    /\ log \in Seq(LogRow) /\ Len(log) <= MaxRows
    /\ tx \in [Receipts -> Statuses]
    /\ linked \subseteq Receipts
    /\ repayments \subseteq Receipts
    /\ credits \in [Receipts -> Nat]
    /\ accepted \subseteq Receipts
    /\ rejected \subseteq Receipts
    /\ byHand \subseteq Receipts /\ undone \subseteq Receipts
    /\ stage \in [Workers -> Stages]
    /\ receipt \in [Workers -> Receipts \cup {NoReceipt}]
    /\ row \in [Workers -> 0..MaxRows]
    /\ todo \in [Workers -> SUBSET Receipts]

Init ==
    /\ log = <<>>
    /\ tx = [r \in Receipts |-> "none"]
    /\ linked = {} /\ repayments = {}
    /\ credits = [r \in Receipts |-> 0]
    /\ accepted = {} /\ rejected = {} /\ byHand = {} /\ undone = {}
    /\ stage = [w \in Workers |-> "idle"]
    /\ receipt = [w \in Workers |-> NoReceipt]
    /\ row = [w \in Workers |-> 0]
    /\ todo = [w \in Workers |-> {}]

-----------------------------------------------------------------------------
Goto(w, s) ==
    /\ stage' = [stage EXCEPT ![w] = s]
    /\ UNCHANGED <<receipt, row, todo>>

Respond(w) ==
    /\ stage'   = [stage EXCEPT ![w] = "idle"]
    /\ receipt' = [receipt EXCEPT ![w] = NoReceipt]
    /\ row'     = [row EXCEPT ![w] = 0]
    /\ todo'    = [todo EXCEPT ![w] = {}]

Begin(w, op, s, r, n) ==
    /\ op \in Ops
    /\ stage[w] = "idle"
    /\ stage'   = [stage EXCEPT ![w] = s]
    /\ receipt' = [receipt EXCEPT ![w] = r]
    /\ row'     = [row EXCEPT ![w] = n]
    /\ UNCHANGED todo

(* Fault: the reference of a repayment need not be unique.                 *)
RecordRepayment_Again(r) ==
    /\ repayments' = repayments \cup {r}
    /\ credits' = [credits EXCEPT ![r] = @ + 1]

(* RepaymentSerializer.create for a receipt: its reference is unique.      *)
RecordRepayment(r) ==
    /\ r \notin repayments
    /\ repayments' = repayments \cup {r}
    /\ credits' = [credits EXCEPT ![r] = @ + 1]

Complete(r) ==
    /\ tx' = [tx EXCEPT ![r] = "COMPLETED"]
    /\ linked' = linked \cup {r}

-----------------------------------------------------------------------------
(* Callbacks.                                                              *)

(* Before it completes a payment Safaricom asks for its validation, which  *)
(* is logged and always given.                                             *)
Validate(r) ==
    /\ "validate" \in Ops
    /\ Len(log) < MaxRows
    /\ log' = Append(log, [receipt |-> r, status |-> "validated"])
    /\ UNCHANGED <<payVars, accepted, rejected, reqVars, history>>

(* The confirmation is logged; it goes on where that fails.                *)
Deliver(w, r) ==
    /\ \/ /\ Len(log) < MaxRows
          /\ log' = Append(log, [receipt |-> r, status |-> "received"])
          /\ Begin(w, "confirm", "logged", r, Len(log) + 1)
       \/ /\ Begin(w, "confirm", "logged", r, 0)
          /\ UNCHANGED log
    /\ UNCHANGED <<payVars, accepted, rejected, history>>

(* The key is checked, then the relay is asked; a callback that comes from *)
(* Safaricom directly counts as verified.                                  *)
Verify(w) ==
    /\ stage[w] = "logged"
    /\ \E s \in {"verified", "refused", "failing"} : Goto(w, s)
    /\ UNCHANGED <<log, payVars, accepted, rejected, history>>

(* process_confirmation of a receipt that is not in the table yet.         *)
ProcessNew(r) ==
    /\ tx[r] = "none"
    /\ \/ /\ r \in repayments
          /\ Complete(r)
          /\ UNCHANGED <<repayments, credits>>
       \/ /\ RecordRepayment(r)
          /\ Complete(r)
       \/ /\ r \notin repayments
          /\ tx' = [tx EXCEPT ![r] = "FAILED"]
          /\ UNCHANGED <<linked, repayments, credits>>
       \/ /\ r \notin Matched
          /\ tx' = [tx EXCEPT ![r] = "UNALLOCATED"]
          /\ UNCHANGED <<linked, repayments, credits>>

(* Fault: what the relay answered is not looked at.                        *)
Confirm_IgnoresRelay(w) ==
    LET r == receipt[w] IN
    /\ stage[w] \in {"verified", "refused"}
    /\ \/ ProcessNew(r)
       \/ tx[r] # "none" /\ UNCHANGED payVars
    /\ accepted' = IF stage[w] = "verified" THEN accepted \cup {r} ELSE accepted
    /\ Goto(w, "accepting")
    /\ UNCHANGED <<log, rejected, history>>

Confirm(w) ==
    LET r == receipt[w] IN
    /\ stage[w] = "verified"
    /\ \/ ProcessNew(r)
       \/ tx[r] # "none" /\ UNCHANGED payVars
    /\ accepted' = accepted \cup {r}
    /\ Goto(w, "accepting")
    /\ UNCHANGED <<log, rejected, history>>

(* Fault: a refused confirmation is not recorded.                          *)
Refuse_NoRecord(w) ==
    /\ stage[w] = "refused"
    /\ rejected' = rejected \cup {receipt[w]}
    /\ Goto(w, "failing")
    /\ UNCHANGED <<log, payVars, accepted, history>>

(* Fault: a refusal overwrites the transaction of an earlier confirmation. *)
Refuse_Overwrites(w) ==
    LET r == receipt[w] IN
    /\ stage[w] = "refused"
    /\ tx' = [tx EXCEPT ![r] = "VERIFICATION_FAILED"]
    /\ rejected' = rejected \cup {r}
    /\ Goto(w, "failing")
    /\ UNCHANGED <<log, linked, repayments, credits, accepted, history>>

(* A refused confirmation is recorded and credits nothing.                 *)
Refuse(w) ==
    LET r == receipt[w] IN
    /\ stage[w] = "refused"
    /\ tx' = IF tx[r] = "none" THEN [tx EXCEPT ![r] = "VERIFICATION_FAILED"] ELSE tx
    /\ rejected' = rejected \cup {r}
    /\ Goto(w, "failing")
    /\ UNCHANGED <<log, linked, repayments, credits, accepted, history>>

(* An exception in the transaction undoes it.                              *)
Fail(w) ==
    /\ stage[w] \in {"verified", "refused"}
    /\ Goto(w, "failing")
    /\ UNCHANGED <<log, payVars, accepted, rejected, history>>

(* The outcome is written to the log row, where there is one.              *)
CloseLog(w) ==
    /\ \/ /\ stage[w] \in {"accepting", "failing"}
          /\ row[w] # 0
          /\ log' = [log EXCEPT ![row[w]].status =
                        IF stage[w] = "accepting" THEN "processed" ELSE "failed"]
       \/ stage[w] \in {"accepting", "failing"} /\ row[w] = 0 /\ UNCHANGED log
    /\ Respond(w)
    /\ UNCHANGED <<payVars, accepted, rejected, history>>

-----------------------------------------------------------------------------
(* The report: ingest_received_payments adds the logged receipts that are  *)
(* not in the table, each in a transaction of its own.                     *)

(* Fault: only rows that are still marked as received are looked at.       *)
Recent_ReceivedOnly ==
    {log[i].receipt : i \in {j \in 1..Len(log) :
        j + Window > Len(log) /\ log[j].status = "received"}}

Recent == {log[i].receipt : i \in {j \in 1..Len(log) : j + Window > Len(log)}}

Missing == {r \in Recent : tx[r] = "none"}

Open(w, op, s, r) ==
    /\ op \in Ops
    /\ stage[w] = "idle"
    /\ stage'   = [stage EXCEPT ![w] = s]
    /\ receipt' = [receipt EXCEPT ![w] = r]
    /\ todo'    = [todo EXCEPT ![w] = Missing]
    /\ UNCHANGED <<log, payVars, accepted, rejected, row, history>>

(* Opening the report where it has nothing to add changes nothing.         *)
Report(w) ==
    /\ Missing # {}
    /\ Open(w, "report", "reporting", NoReceipt)

(* A report is answered when its last receipt is added.                    *)
Ingested(w, left) ==
    /\ todo' = [todo EXCEPT ![w] = left]
    /\ stage' = IF stage[w] = "reporting" /\ left = {}
                THEN [stage EXCEPT ![w] = "idle"]
                ELSE stage
    /\ UNCHANGED <<log, linked, repayments, credits, accepted, rejected, receipt, row, history>>

(* Fault: the transaction gets the status of the log row.                  *)
Ingest_LogStatus(w, r) ==
    /\ r \in todo[w]
    /\ tx[r] = "none"
    /\ tx' = [tx EXCEPT ![r] = "received"]
    /\ Ingested(w, todo[w] \ {r})

Ingest(w, r) ==
    /\ r \in todo[w]
    /\ tx[r] = "none"
    /\ tx' = [tx EXCEPT ![r] = "UNALLOCATED"]
    /\ Ingested(w, todo[w] \ {r})

(* A receipt that was added meanwhile violates its unique identifier, and  *)
(* the rest of the rows is left for the next report.                       *)
IngestCollides(w) ==
    /\ \E r \in todo[w] : tx[r] # "none"
    /\ Ingested(w, {})
    /\ UNCHANGED tx

-----------------------------------------------------------------------------
(* Administrators.                                                         *)

Unlinked(r) == tx[r] # "none" /\ r \notin linked

(* get_object() prepares the report and then takes the row out of it; a row *)
(* that is missing or points to a repayment ends the request.              *)
Find(w, s, next) ==
    /\ stage[w] = s
    /\ todo[w] = {}
    /\ IF Unlinked(receipt[w]) THEN Goto(w, next) ELSE Respond(w)
    /\ UNCHANGED <<log, payVars, accepted, rejected, history>>

(* allocate: the repayment and the link are two transactions.              *)
AllocateReceipt(w, r) == Open(w, "allocate", "finding", r)
AllocateFind(w) == Find(w, "finding", "allocating")

AllocateCredit(w) ==
    /\ stage[w] = "allocating"
    /\ RecordRepayment(receipt[w])
    /\ byHand' = byHand \cup {receipt[w]}
    /\ Goto(w, "linking")
    /\ UNCHANGED <<log, tx, linked, accepted, rejected, undone>>

AllocateLink(w) ==
    /\ stage[w] = "linking"
    /\ Complete(receipt[w])
    /\ Respond(w)
    /\ UNCHANGED <<log, repayments, credits, accepted, rejected, history>>

(* reset_loan_from_bill_ref: both in one transaction.                      *)
Reset(w, r)  == Open(w, "reset", "locating", r)
ResetFind(w) == Find(w, "locating", "resetting")

ResetCommit(w) ==
    /\ stage[w] = "resetting"
    /\ RecordRepayment(receipt[w])
    /\ byHand' = byHand \cup {receipt[w]}
    /\ Complete(receipt[w])
    /\ Respond(w)
    /\ UNCHANGED <<log, accepted, rejected, undone>>

(* A teller posts a repayment under the receipt's identifier.              *)
Teller(r) ==
    /\ "teller" \in Ops
    /\ RecordRepayment(r)
    /\ byHand' = byHand \cup {r}
    /\ UNCHANGED <<log, tx, linked, accepted, rejected, undone, reqVars>>

(* RepaymentViewSet.destroy: the loan keeps what it was credited with, the *)
(* transaction of the receipt loses its link, and a request that was about *)
(* to link it will fail on the foreign key.                                *)
DeleteRepayment(r) ==
    /\ "delete" \in Ops
    /\ r \in repayments
    /\ credits[r] < MaxCredits
    /\ repayments' = repayments \ {r}
    /\ linked' = linked \ {r}
    /\ undone' = undone \cup {r}
    /\ stage' = [w \in Workers |-> IF stage[w] = "linking" /\ receipt[w] = r
                                   THEN "failing" ELSE stage[w]]
    /\ UNCHANGED <<log, tx, credits, accepted, rejected, receipt, row, todo, byHand>>

(* A worker dies, or its request fails before the next write.              *)
Die(w) ==
    /\ stage[w] # "idle"
    /\ Respond(w)
    /\ UNCHANGED <<log, payVars, accepted, rejected, history>>

-----------------------------------------------------------------------------
Progress(w) ==
    \/ Verify(w) \/ Confirm(w) \/ Refuse(w) \/ Fail(w) \/ CloseLog(w)
    \/ \E r \in Receipts : Ingest(w, r)
    \/ IngestCollides(w)
    \/ AllocateFind(w) \/ AllocateCredit(w) \/ AllocateLink(w)
    \/ ResetFind(w) \/ ResetCommit(w)
    \/ Die(w)

Next ==
    \/ \E r \in Receipts : Validate(r) \/ Teller(r) \/ DeleteRepayment(r)
    \/ \E w \in Workers :
          \/ Progress(w)
          \/ Report(w)
          \/ \E r \in Receipts : Deliver(w, r) \/ AllocateReceipt(w, r) \/ Reset(w, r)

(* A request is answered or killed; administrators open the report again   *)
(* and again, and not every time does it die on the same receipt.          *)
Fairness ==
    /\ \A w \in Workers : WF_vars(Progress(w))
    /\ SF_vars(\E w \in Workers : Report(w))
    /\ \A r \in Receipts : SF_vars(\E w \in Workers : Ingest(w, r))

Spec     == Init /\ [][Next]_vars
FairSpec == Spec /\ Fairness

-----------------------------------------------------------------------------
(* Properties.                                                             *)

Logged == {log[i].receipt : i \in 1..Len(log)}

(* A receipt is shown as completed only when it was credited, once, and    *)
(* its transaction points to the repayment, whoever recorded that, unless  *)
(* a repayment of it was deleted; and a link always has its repayment.     *)
CompletedIsCredited ==
    /\ linked \subseteq repayments
    /\ \A r \in Receipts \ undone :
        /\ tx[r] = "COMPLETED" => r \in linked
        /\ r \in linked => credits[r] = 1

(* A processed callback, confirmed or refused, has its receipt in the      *)
(* report, whatever other requests added or changed meanwhile.             *)
AcceptedIsListed ==
    \A r \in accepted \cup rejected : tx[r] # "none"

(* A completed receipt stays completed: no refusal, confirmation or report *)
(* that comes late takes it back.                                          *)
CompletedIsFinal ==
    [][\A r \in Receipts : tx[r] = "COMPLETED" => tx'[r] = "COMPLETED"]_vars

(* A receipt that the relay never confirmed, and that nobody credited by   *)
(* hand, is credited to no loan, whatever happens between the relay's      *)
(* answer and the transaction that acts on it.                             *)
RefusedNotCredited ==
    \A r \in Receipts \ (accepted \cup byHand) : credits[r] = 0

Book == INSTANCE ReceiptBook WITH
    stored <- Logged,
    posted <- repayments,
    listed <- {r \in Receipts : tx[r] # "none"}

(* Whatever requests do to a receipt, the book of receipts allows it.      *)
ImplementsReceiptBook == Book!BookSpec

=============================================================================
