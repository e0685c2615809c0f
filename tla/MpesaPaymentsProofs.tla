------------------------ MODULE MpesaPaymentsProofs ------------------------
(***************************************************************************)
(* M-Pesa receipts, for any number of receipts, workers and callbacks:     *)
(* completed receipts are credited once and linked, processed ones are     *)
(* listed, refused ones are credited by hand only, and every step on a     *)
(* receipt is one that ReceiptBook allows.  What a request found is old    *)
(* when it writes, so the invariant says what of it stays true: a receipt  *)
(* that was listed stays listed, and a repayment about to be linked is     *)
(* there, or its deletion failed the request.                              *)
(*                                                                         *)
(* Savings and shares, for any members, tabs and amounts: rows keep keys   *)
(* of their own whatever is served at a time; until two requests overlap,  *)
(* no account is overdrawn and the money of a withdrawal that stands is    *)
(* out, but for the two ways in which a withdrawal loses its payment.  A   *)
(* request between two of its saves holds the rest of each invariant.      *)
(***************************************************************************)
EXTENDS MpesaPayments, AccountTurns, OperatorProofs, SequenceTheorems, TLAPS

-----------------------------------------------------------------------------
\* The invariant

\* A request about a receipt has one.
Handled ==
    \A w \in Workers : stage[w] \notin {"idle", "reporting"} => receipt[w] \in Receipts

\* An administrator's request found its receipt in the table.
Found ==
    \A w \in Workers :
        stage[w] \in {"allocating", "linking", "resetting"} => tx[receipt[w]] # "none"

\* The repayment that allocate is about to link is there.
Linking == \A w \in Workers : stage[w] = "linking" => receipt[w] \in repayments

\* Without deletions a receipt is credited as often as it has a repayment.
CreditedOnce ==
    \A r \in Receipts \ undone : credits[r] = IF r \in repayments THEN 1 ELSE 0

\* The row of a request is in the log.
Rows == \A w \in Workers : row[w] \in 0..Len(log)

TypeInv == TypeOK /\ Handled /\ Rows

-----------------------------------------------------------------------------
\* The log

\* A row that is appended is logged, and the rows before it stay.
LEMMA LogAppends ==
    ASSUME log \in Seq(LogRow), NEW e \in LogRow, log' = Append(log, e)
    PROVE  /\ log' \in Seq(LogRow) /\ Len(log') = Len(log) + 1
           /\ Logged' = Logged \cup {e.receipt}
  <1>1. /\ log' \in Seq(LogRow) /\ Len(log') = Len(log) + 1
        /\ \A i \in 1..Len(log) : log'[i] = log[i]
        /\ log'[Len(log) + 1] = e
    BY AppendProperties
  <1>2. Len(log) \in Nat
    BY LenProperties
  <1>3. 1..Len(log') = 1..Len(log) \cup {Len(log) + 1}
    BY <1>1, <1>2
  <1>4. Logged' = {log'[i].receipt : i \in 1..Len(log')}
    BY DEF Logged
  <1>5. QED
    BY <1>1, <1>3, <1>4 DEF Logged

\* Closing a row of the log changes its status and nothing else.
LEMMA LogCloses ==
    ASSUME log \in Seq(LogRow), NEW n \in 1..Len(log), NEW s \in {"processed", "failed"},
           log' = [log EXCEPT ![n].status = s]
    PROVE  /\ log' \in Seq(LogRow) /\ Len(log') = Len(log)
           /\ Logged' = Logged
  <1> DEFINE e == [log[n] EXCEPT !.status = s]
  <1>1. \A i \in 1..Len(log) : log[i] \in LogRow
    BY ElementOfSeq
  <1>2. e \in LogRow /\ e.receipt = log[n].receipt
    BY <1>1 DEF LogRow
  <1>3. log' = [log EXCEPT ![n] = e]
    OBVIOUS
  <1> HIDE DEF e
  <1>4. /\ log' \in Seq(LogRow) /\ Len(log') = Len(log)
        /\ \A j \in 1..Len(log) : log'[j] = IF j = n THEN e ELSE log[j]
    BY <1>2, <1>3, ExceptSeq
  <1>5. \A i \in 1..Len(log) : log'[i].receipt = log[i].receipt
    BY <1>2, <1>4
  <1>6. QED
    BY <1>4, <1>5 DEF Logged

\* What a report would fetch is named by the log.
LEMMA MissingAreReceipts ==
    ASSUME TypeOK
    PROVE  Missing \subseteq Receipts
  <1>1. \A i \in 1..Len(log) : log[i] \in LogRow
    BY ElementOfSeq DEF TypeOK
  <1>2. \A i \in 1..Len(log) : log[i].receipt \in Receipts
    BY <1>1 DEF LogRow
  <1>3. QED
    BY <1>2 DEF Missing, Recent

-----------------------------------------------------------------------------
\* Types

\* The types hold at the start.
LEMMA TypeInit == Init => TypeInv
  BY ReceiptsOK, EmptySeq
     DEF Init, TypeInv, TypeOK, Handled, Rows, Statuses, Stages

\* What a step does to requests keeps their types where it goes on from a
\* stage that had a receipt.
LEMMA GotoTypes ==
    ASSUME TypeInv, NEW w \in Workers, NEW s \in Stages, Goto(w, s),
           stage[w] \notin {"idle", "reporting"}, UNCHANGED log
    PROVE  /\ stage' \in [Workers -> Stages] /\ receipt' \in [Workers -> Receipts \cup {NoReceipt}]
           /\ row' \in [Workers -> 0..MaxRows] /\ todo' \in [Workers -> SUBSET Receipts]
           /\ Handled' /\ Rows'
  BY DEF TypeInv, TypeOK, Handled, Rows, Goto

\* What ends a request keeps the types of requests.
LEMMA RespondTypes ==
    ASSUME TypeInv, NEW w \in Workers, Respond(w), Len(log') = Len(log)
    PROVE  /\ stage' \in [Workers -> Stages] /\ receipt' \in [Workers -> Receipts \cup {NoReceipt}]
           /\ row' \in [Workers -> 0..MaxRows] /\ todo' \in [Workers -> SUBSET Receipts]
           /\ Handled' /\ Rows'
  <1>1. Len(log) \in Nat /\ MaxRows \in Nat
    BY LenProperties, ReceiptsOK DEF TypeInv, TypeOK
  <1>2. "idle" \in Stages
    BY DEF Stages
  <1>3. QED
    BY <1>1, <1>2 DEF TypeInv, TypeOK, Handled, Rows, Respond

\* A request that is opened is about a receipt, and owns its row.
LEMMA OpenTypes ==
    ASSUME TypeInv, NEW w \in Workers, NEW op, NEW s \in Stages, NEW r \in Receipts \cup {NoReceipt},
           Open(w, op, s, r), r \in Receipts \/ s = "reporting"
    PROVE  /\ stage' \in [Workers -> Stages] /\ receipt' \in [Workers -> Receipts \cup {NoReceipt}]
           /\ row' \in [Workers -> 0..MaxRows] /\ todo' \in [Workers -> SUBSET Receipts]
           /\ Handled' /\ Rows'
  <1>1. Missing \in SUBSET Receipts
    BY MissingAreReceipts DEF TypeInv
  <1>2. QED
    BY <1>1 DEF TypeInv, TypeOK, Handled, Rows, Open

\* The four variables of payments.
PayTypes ==
    /\ tx \in [Receipts -> Statuses]
    /\ linked \subseteq Receipts
    /\ repayments \subseteq Receipts
    /\ credits \in [Receipts -> Nat]

\* A repayment that is recorded is of a receipt.
LEMMA RecordTypes ==
    ASSUME TypeInv, NEW r \in Receipts, RecordRepayment(r)
    PROVE  repayments' \subseteq Receipts /\ credits' \in [Receipts -> Nat]
  BY DEF TypeInv, TypeOK, RecordRepayment

\* A receipt that is completed has a status.
LEMMA CompleteTypes ==
    ASSUME TypeInv, NEW r \in Receipts, Complete(r)
    PROVE  tx' \in [Receipts -> Statuses] /\ linked' \subseteq Receipts
  BY DEF TypeInv, TypeOK, Complete, Statuses

\* The transaction of a callback keeps all that it writes in its type.
LEMMA ProcessTypes ==
    ASSUME TypeInv, NEW r \in Receipts, ProcessNew(r)
    PROVE  PayTypes'
  <1> USE DEF PayTypes
  <1>1. CASE Complete(r) /\ UNCHANGED <<repayments, credits>>
    BY <1>1, CompleteTypes DEF TypeInv, TypeOK
  <1>2. CASE RecordRepayment(r) /\ Complete(r)
    BY <1>2, CompleteTypes, RecordTypes
  <1>3. CASE tx' = [tx EXCEPT ![r] = "FAILED"] /\ UNCHANGED <<linked, repayments, credits>>
    BY <1>3 DEF TypeInv, TypeOK, Statuses
  <1>4. CASE tx' = [tx EXCEPT ![r] = "UNALLOCATED"] /\ UNCHANGED <<linked, repayments, credits>>
    BY <1>4 DEF TypeInv, TypeOK, Statuses
  <1>5. QED
    BY <1>1, <1>2, <1>3, <1>4 DEF ProcessNew

\* Every step keeps the types.
LEMMA TypeStep ==
    ASSUME TypeInv, [Next]_vars
    PROVE  TypeInv'
  <1> USE DEF history, payVars, reqVars
  <1>types. /\ log \in Seq(LogRow) /\ Len(log) \in Nat /\ Len(log) <= MaxRows
            /\ PayTypes /\ MaxRows \in Nat
            /\ accepted \subseteq Receipts /\ rejected \subseteq Receipts
            /\ byHand \subseteq Receipts /\ undone \subseteq Receipts
    BY LenProperties, ReceiptsOK DEF TypeInv, TypeOK, PayTypes
  <1>reqs. /\ stage \in [Workers -> Stages] /\ receipt \in [Workers -> Receipts \cup {NoReceipt}]
           /\ row \in [Workers -> 0..MaxRows] /\ todo \in [Workers -> SUBSET Receipts]
           /\ Handled /\ Rows
    BY DEF TypeInv, TypeOK
  <1> DEFINE ReqInv == /\ stage \in [Workers -> Stages]
                       /\ receipt \in [Workers -> Receipts \cup {NoReceipt}]
                       /\ row \in [Workers -> 0..MaxRows] /\ todo \in [Workers -> SUBSET Receipts]
                       /\ Handled /\ Rows
             LogInv == log \in Seq(LogRow) /\ Len(log) <= MaxRows
             Sets == /\ accepted \subseteq Receipts /\ rejected \subseteq Receipts
                     /\ byHand \subseteq Receipts /\ undone \subseteq Receipts
  <1>all. ASSUME LogInv', PayTypes', Sets', ReqInv' PROVE TypeInv'
    BY <1>all DEF TypeInv, TypeOK, PayTypes
  <1>now. LogInv /\ Sets /\ ReqInv
    BY <1>types, <1>reqs
  <1>log. ASSUME UNCHANGED log PROVE LogInv'
    BY <1>log, <1>now
  <1>pay. ASSUME UNCHANGED payVars PROVE PayTypes'
    BY <1>pay, <1>types DEF PayTypes
  <1>reqv. ASSUME UNCHANGED reqVars, Len(log') \in Nat, Len(log) <= Len(log') PROVE ReqInv'
    BY <1>reqv, <1>now, <1>types DEF Handled, Rows
  <1>stages. /\ {"logged", "verified", "refused", "failing", "accepting", "linking", "reporting",
                 "finding", "allocating", "locating", "resetting", "idle"} \subseteq Stages
    BY DEF Stages
  <1>1. ASSUME NEW r \in Receipts, Validate(r) PROVE TypeInv'
    <2> DEFINE e == [receipt |-> r, status |-> "validated"]
    <2>1. e \in LogRow /\ log' = Append(log, e) /\ Len(log) < MaxRows
      BY <1>1 DEF Validate, LogRow
    <2>2. log' \in Seq(LogRow) /\ Len(log') = Len(log) + 1
      BY <2>1, <1>types, LogAppends
    <2>3. LogInv' /\ Len(log') \in Nat /\ Len(log) <= Len(log')
      BY <2>1, <2>2, <1>types
    <2>4. PayTypes' /\ Sets' /\ ReqInv'
      BY <2>3, <1>1, <1>pay, <1>reqv, <1>now DEF Validate
    <2>5. QED
      BY <2>3, <2>4, <1>all
  <1>2. ASSUME NEW w \in Workers, NEW r \in Receipts, Deliver(w, r) PROVE TypeInv'
    <2>1. PayTypes' /\ Sets'
      BY <1>2, <1>pay, <1>now DEF Deliver
    <2>2. CASE /\ Len(log) < MaxRows
               /\ log' = Append(log, [receipt |-> r, status |-> "received"])
               /\ Begin(w, "confirm", "logged", r, Len(log) + 1)
      <3> DEFINE e == [receipt |-> r, status |-> "received"]
      <3>1. e \in LogRow /\ log' = Append(log, e)
        BY <2>2 DEF LogRow
      <3>2. log' \in Seq(LogRow) /\ Len(log') = Len(log) + 1
        BY <3>1, <1>types, LogAppends
      <3>3. LogInv' /\ Len(log') \in Nat /\ Len(log) <= Len(log') /\ Len(log) + 1 \in 0..MaxRows
        BY <3>2, <2>2, <1>types
      <3>4. ReqInv'
        BY <3>2, <3>3, <2>2, <1>stages, <1>types, <1>now DEF Begin, Handled, Rows
      <3>5. QED
        BY <3>3, <3>4, <2>1, <1>all
    <2>3. CASE Begin(w, "confirm", "logged", r, 0) /\ UNCHANGED log
      <3>1. ReqInv'
        BY <2>3, <1>stages, <1>types, <1>now DEF Begin, Handled, Rows
      <3>2. QED
        BY <3>1, <2>3, <2>1, <1>log, <1>all
    <2>4. QED
      BY <1>2, <2>2, <2>3 DEF Deliver
  <1>3. ASSUME NEW w \in Workers, Verify(w) PROVE TypeInv'
    <2>1. PICK s \in {"verified", "refused", "failing"} : Goto(w, s)
      BY <1>3 DEF Verify
    <2>2. stage[w] \notin {"idle", "reporting"} /\ UNCHANGED <<log, payVars, accepted, rejected, history>>
      BY <1>3 DEF Verify
    <2>3. ReqInv'
      BY <2>1, <2>2, <1>stages, GotoTypes
    <2>4. QED
      BY <2>2, <2>3, <1>log, <1>pay, <1>now, <1>all
  <1>4. ASSUME NEW w \in Workers, Confirm(w) PROVE TypeInv'
    <2>1. stage[w] \notin {"idle", "reporting"} /\ Goto(w, "accepting") /\ UNCHANGED log
      BY <1>4 DEF Confirm
    <2>2. receipt[w] \in Receipts
      BY <2>1, <1>now DEF Handled
    <2>3. ReqInv'
      BY <2>1, <1>stages, GotoTypes
    <2>4. PayTypes'
      BY <1>4, <2>2, <1>pay, ProcessTypes DEF Confirm
    <2>5. Sets'
      BY <1>4, <2>2, <1>now DEF Confirm
    <2>6. QED
      BY <2>1, <2>3, <2>4, <2>5, <1>log, <1>all
  <1>5. ASSUME NEW w \in Workers, Refuse(w) PROVE TypeInv'
    <2>1. stage[w] \notin {"idle", "reporting"} /\ Goto(w, "failing") /\ UNCHANGED log
      BY <1>5 DEF Refuse
    <2>2. receipt[w] \in Receipts
      BY <2>1, <1>now DEF Handled
    <2>3. ReqInv'
      BY <2>1, <1>stages, GotoTypes
    <2>4. PayTypes' /\ Sets'
      BY <1>5, <2>2, <1>types, <1>now DEF Refuse, PayTypes, Statuses
    <2>5. QED
      BY <2>1, <2>3, <2>4, <1>log, <1>all
  <1>6. ASSUME NEW w \in Workers, Fail(w) PROVE TypeInv'
    <2>1. /\ stage[w] \notin {"idle", "reporting"} /\ Goto(w, "failing")
          /\ UNCHANGED <<log, payVars, accepted, rejected, history>>
      BY <1>6 DEF Fail
    <2>2. ReqInv'
      BY <2>1, <1>stages, GotoTypes
    <2>3. QED
      BY <2>1, <2>2, <1>log, <1>pay, <1>now, <1>all
  <1>7. ASSUME NEW w \in Workers, CloseLog(w) PROVE TypeInv'
    <2>1. PayTypes' /\ Sets' /\ Respond(w)
      BY <1>7, <1>pay, <1>now DEF CloseLog
    <2>2. LogInv' /\ Len(log') = Len(log)
      <3>1. CASE UNCHANGED log
        BY <3>1, <1>log
      <3>2. CASE row[w] # 0 /\ \E s \in {"processed", "failed"} : log' = [log EXCEPT ![row[w]].status = s]
        <4>1. row[w] \in 1..Len(log)
          BY <3>2, <1>now, <1>types DEF Rows
        <4>2. QED
          BY <4>1, <3>2, <1>types, LogCloses
      <3>3. QED
        BY <1>7, <3>1, <3>2 DEF CloseLog
    <2>3. ReqInv'
      BY <2>1, <2>2, RespondTypes
    <2>4. QED
      BY <2>1, <2>2, <2>3, <1>all
  <1>8. ASSUME NEW w \in Workers, NEW left \in SUBSET todo[w], Ingested(w, left),
               tx' \in [Receipts -> Statuses]
        PROVE  TypeInv'
    <2>1. ReqInv'
      BY <1>8, <1>now, <1>stages DEF Ingested, Handled, Rows
    <2>2. QED
      BY <2>1, <1>8, <1>types, <1>now, <1>all DEF Ingested, PayTypes
  <1>9. ASSUME NEW w \in Workers, NEW r \in Receipts, Ingest(w, r) PROVE TypeInv'
    <2>1. tx' \in [Receipts -> Statuses]
      BY <1>9, <1>types DEF Ingest, PayTypes, Statuses
    <2>2. QED
      BY <2>1, <1>9, <1>8 DEF Ingest
  <1>10. ASSUME NEW w \in Workers, IngestCollides(w) PROVE TypeInv'
    BY <1>10, <1>8, <1>types DEF IngestCollides, PayTypes
  <1>11. ASSUME NEW w \in Workers, NEW s \in {"finding", "locating"},
                NEW next \in {"allocating", "resetting"}, Find(w, s, next)
         PROVE  TypeInv'
    <2>1. /\ stage[w] \notin {"idle", "reporting"} /\ (Goto(w, next) \/ Respond(w))
          /\ UNCHANGED <<log, payVars, accepted, rejected, history>>
      BY <1>11 DEF Find
    <2>2. ReqInv'
      BY <2>1, <1>stages, <1>types, GotoTypes, RespondTypes
    <2>3. QED
      BY <2>1, <2>2, <1>log, <1>pay, <1>now, <1>all
  <1>12. ASSUME NEW w \in Workers, AllocateCredit(w) PROVE TypeInv'
    <2>1. /\ stage[w] \notin {"idle", "reporting"} /\ Goto(w, "linking")
          /\ UNCHANGED <<log, tx, linked, accepted, rejected, undone>>
      BY <1>12 DEF AllocateCredit
    <2>2. receipt[w] \in Receipts
      BY <2>1, <1>now DEF Handled
    <2>3. ReqInv'
      BY <2>1, <1>stages, GotoTypes
    <2>4. PayTypes' /\ Sets'
      BY <1>12, <2>2, <1>types, <1>now, RecordTypes DEF AllocateCredit, PayTypes
    <2>5. QED
      BY <2>1, <2>3, <2>4, <1>log, <1>all
  <1>13. ASSUME NEW w \in Workers, AllocateLink(w) PROVE TypeInv'
    <2>1. /\ stage[w] \notin {"idle", "reporting"} /\ Respond(w)
          /\ UNCHANGED <<log, repayments, credits, accepted, rejected, history>>
      BY <1>13 DEF AllocateLink
    <2>2. receipt[w] \in Receipts
      BY <2>1, <1>now DEF Handled
    <2>3. ReqInv'
      BY <2>1, <1>types, RespondTypes
    <2>4. PayTypes' /\ Sets'
      BY <1>13, <2>2, <1>types, <1>now, CompleteTypes DEF AllocateLink, PayTypes
    <2>5. QED
      BY <2>1, <2>3, <2>4, <1>log, <1>all
  <1>14. ASSUME NEW w \in Workers, ResetCommit(w) PROVE TypeInv'
    <2>1. /\ stage[w] \notin {"idle", "reporting"} /\ Respond(w)
          /\ UNCHANGED <<log, accepted, rejected, undone>>
      BY <1>14 DEF ResetCommit
    <2>2. receipt[w] \in Receipts
      BY <2>1, <1>now DEF Handled
    <2>3. ReqInv'
      BY <2>1, <1>types, RespondTypes
    <2>4. PayTypes' /\ Sets'
      BY <1>14, <2>2, <1>types, <1>now, CompleteTypes, RecordTypes DEF ResetCommit, PayTypes
    <2>5. QED
      BY <2>1, <2>3, <2>4, <1>log, <1>all
  <1>15. ASSUME NEW r \in Receipts, Teller(r) PROVE TypeInv'
    <2>1. PayTypes' /\ Sets'
      BY <1>15, <1>types, <1>now, RecordTypes DEF Teller, PayTypes
    <2>2. LogInv' /\ ReqInv'
      BY <1>15, <1>log, <1>reqv, <1>types DEF Teller
    <2>3. QED
      BY <2>1, <2>2, <1>all
  <1>16. ASSUME NEW r \in Receipts, DeleteRepayment(r) PROVE TypeInv'
    <2>1. PayTypes' /\ Sets'
      BY <1>16, <1>types, <1>now DEF DeleteRepayment, PayTypes
    <2>2. LogInv' /\ ReqInv'
      BY <1>16, <1>log, <1>now, <1>stages DEF DeleteRepayment, Handled, Rows
    <2>3. QED
      BY <2>1, <2>2, <1>all
  <1>17. ASSUME NEW w \in Workers, Die(w) PROVE TypeInv'
    <2>1. ReqInv'
      BY <1>17, <1>types, RespondTypes DEF Die
    <2>2. QED
      BY <1>17, <2>1, <1>log, <1>pay, <1>now, <1>all DEF Die
  <1>18. ASSUME NEW w \in Workers, NEW op, NEW s \in {"reporting", "finding", "locating"},
                NEW r \in Receipts \cup {NoReceipt}, Open(w, op, s, r), r \in Receipts \/ s = "reporting"
         PROVE  TypeInv'
    <2>1. ReqInv'
      BY <1>18, <1>stages, OpenTypes
    <2>2. QED
      BY <1>18, <2>1, <1>log, <1>pay, <1>now, <1>all DEF Open
  <1>19. CASE UNCHANGED vars
    BY <1>19, <1>log, <1>pay, <1>reqv, <1>now, <1>types, <1>all DEF vars
  <1>20. CASE Next
    <2>1. ASSUME NEW w \in Workers, Progress(w) PROVE TypeInv'
      BY <2>1, <1>3, <1>4, <1>5, <1>6, <1>7, <1>9, <1>10, <1>11, <1>12, <1>13, <1>14, <1>17
         DEF Progress, AllocateFind, ResetFind
    <2>2. ASSUME NEW w \in Workers, NEW r \in Receipts, Deliver(w, r) \/ AllocateReceipt(w, r) \/ Reset(w, r)
          PROVE  TypeInv'
      BY <2>2, <1>2, <1>18 DEF AllocateReceipt, Reset
    <2>3. ASSUME NEW w \in Workers, Report(w) PROVE TypeInv'
      BY <2>3, <1>18 DEF Report
    <2>4. QED
      BY <1>20, <1>1, <1>15, <1>16, <2>1, <2>2, <2>3 DEF Next
  <1>21. QED
    BY <1>19, <1>20

\* Every variable keeps its type, each worker has the receipt it handles, and
\* the row of the log that it owns is there.
THEOREM TypesKept == Spec => []TypeInv
  <1>1. Init => TypeInv
    BY TypeInit
  <1>2. TypeInv /\ [Next]_vars => TypeInv'
    BY TypeStep
  <1>3. QED
    BY <1>1, <1>2, PTL DEF Spec

-----------------------------------------------------------------------------
\* Receipts in the table

\* Only ProcessNew, Refuse and Ingest put a receipt into the table, each one
\* that is not there, and whatever else writes a status completes it.
LEMMA TxKept ==
    ASSUME TypeInv, [Next]_vars, NEW r \in Receipts
    PROVE  /\ tx[r] # "none" => tx'[r] # "none"
           /\ tx[r] = "COMPLETED" => tx'[r] = "COMPLETED"
  <1> USE DEF history, payVars, reqVars
  <1> DEFINE Kept == /\ tx[r] # "none" => tx'[r] # "none"
                     /\ tx[r] = "COMPLETED" => tx'[r] = "COMPLETED"
  <1>1. tx \in [Receipts -> Statuses] /\ Handled
    BY DEF TypeInv, TypeOK
  <1>2. ASSUME NEW q, Complete(q) PROVE Kept
    BY <1>1, <1>2 DEF Complete
  <1>3. ASSUME UNCHANGED tx PROVE Kept
    BY <1>3
  <1>4. ASSUME NEW q, NEW s \in Statuses \ {"none"}, tx[q] = "none", tx' = [tx EXCEPT ![q] = s]
        PROVE  Kept
    BY <1>1, <1>4
  <1>5. ASSUME NEW w \in Workers, Confirm(w) PROVE Kept
    <2>1. CASE UNCHANGED payVars
      BY <2>1, <1>3
    <2>2. CASE ProcessNew(receipt[w])
      BY <2>2, <1>2, <1>4 DEF ProcessNew, Statuses
    <2>3. QED
      BY <1>5, <2>1, <2>2 DEF Confirm
  <1>6. ASSUME NEW w \in Workers, Refuse(w) PROVE Kept
    BY <1>6, <1>3, <1>4 DEF Refuse, Statuses
  <1>7. ASSUME NEW w \in Workers, NEW q \in Receipts, Ingest(w, q) PROVE Kept
    BY <1>7, <1>4 DEF Ingest, Statuses
  <1>8. ASSUME NEW w \in Workers, Progress(w) PROVE Kept
    <2>1. CASE \/ Verify(w) \/ Fail(w) \/ CloseLog(w) \/ IngestCollides(w) \/ AllocateFind(w)
               \/ ResetFind(w) \/ AllocateCredit(w) \/ Die(w)
      BY <2>1, <1>3 DEF Verify, Fail, CloseLog, IngestCollides, AllocateFind, ResetFind, Find,
                        AllocateCredit, Die
    <2>2. CASE AllocateLink(w) \/ ResetCommit(w)
      BY <2>2, <1>2 DEF AllocateLink, ResetCommit
    <2>3. QED
      BY <1>8, <1>5, <1>6, <1>7, <2>1, <2>2 DEF Progress
  <1>9. CASE UNCHANGED vars
    BY <1>9, <1>3 DEF vars
  <1>10. ASSUME NEW q \in Receipts, Validate(q) \/ Teller(q) \/ DeleteRepayment(q) PROVE Kept
    BY <1>10, <1>3 DEF Validate, Teller, DeleteRepayment
  <1>11. ASSUME NEW w \in Workers, NEW q \in Receipts,
                Report(w) \/ Deliver(w, q) \/ AllocateReceipt(w, q) \/ Reset(w, q)
         PROVE  Kept
    BY <1>11, <1>3 DEF Report, Deliver, AllocateReceipt, Reset, Open
  <1>12. ASSUME NEW w \in Workers, Report(w) PROVE Kept
    BY <1>12, <1>3 DEF Report, Open
  <1>13. QED
    BY <1>8, <1>9, <1>10, <1>11, <1>12 DEF Next

\* A completed receipt stays completed, for any number of receipts, workers
\* and late callbacks.
THEOREM CompletedStays == Spec => CompletedIsFinal
  <1>1. TypeInv /\ [Next]_vars => [\A r \in Receipts : tx[r] = "COMPLETED" => tx'[r] = "COMPLETED"]_vars
    BY TxKept
  <1>2. QED
    BY <1>1, TypesKept, PTL DEF Spec, CompletedIsFinal

\* Every processed callback, confirmed or refused, has its receipt in the
\* report, however many callbacks, reports and manual operations interleave.
LEMMA ListedStep ==
    ASSUME TypeInv, AcceptedIsListed, [Next]_vars
    PROVE  AcceptedIsListed'
  <1> USE DEF history, payVars, reqVars
  <1>0. accepted \subseteq Receipts /\ rejected \subseteq Receipts /\ tx \in [Receipts -> Statuses]
    BY DEF TypeInv, TypeOK
  <1>1. ASSUME UNCHANGED <<accepted, rejected>> PROVE AcceptedIsListed'
    BY <1>0, <1>1, TxKept DEF AcceptedIsListed
  <1>2. ASSUME NEW r \in Receipts, tx'[r] # "none",
               accepted' \cup rejected' = accepted \cup rejected \cup {r}
        PROVE  AcceptedIsListed'
    BY <1>0, <1>2, TxKept DEF AcceptedIsListed
  <1>3. ASSUME NEW w \in Workers, Confirm(w) \/ Refuse(w) PROVE AcceptedIsListed'
    <2> DEFINE r == receipt[w]
    <2>1. r \in Receipts
      BY <1>3 DEF Confirm, Refuse, TypeInv, Handled
    <2>2. accepted' \cup rejected' = accepted \cup rejected \cup {r}
      BY <1>3 DEF Confirm, Refuse
    <2>3. tx'[r] # "none"
      BY <1>0, <1>3, <2>1 DEF Confirm, Refuse, ProcessNew, Complete
    <2>4. QED
      BY <2>1, <2>2, <2>3, <1>2
  <1>4. ASSUME NEW w \in Workers, Progress(w) PROVE AcceptedIsListed'
    BY <1>4, <1>1, <1>3 DEF Progress, Verify, Fail, CloseLog, Ingest, IngestCollides, Ingested,
       AllocateFind, ResetFind, Find, AllocateCredit, AllocateLink, ResetCommit, Die
  <1>5. CASE Next
    BY <1>1, <1>4, <1>5 DEF Next, Validate, Teller, DeleteRepayment, Report, Deliver, AllocateReceipt,
       Reset, Open
  <1>6. QED
    BY <1>1, <1>5 DEF vars

\* Every callback that was processed, confirmed or refused, has its receipt
\* among those that a report shows (MpesaPayments views, get_report).
THEOREM ProcessedIsListed == Spec => []AcceptedIsListed
  <1>1. Init => AcceptedIsListed
    BY DEF Init, AcceptedIsListed
  <1>2. TypeInv /\ AcceptedIsListed /\ [Next]_vars => AcceptedIsListed'
    BY ListedStep
  <1>3. QED
    BY <1>1, <1>2, TypesKept, PTL DEF Spec

-----------------------------------------------------------------------------
\* The money

\* The steps that credit or link a receipt, or take a repayment away, and the
\* others, which leave all that payments are told by.
Moves(r, w) ==
    \/ Confirm(w) /\ r = receipt[w] /\ ProcessNew(r)
    \/ AllocateCredit(w) /\ r = receipt[w]
    \/ AllocateLink(w) /\ r = receipt[w]
    \/ ResetCommit(w) /\ r = receipt[w]

Still ==
    /\ UNCHANGED <<linked, repayments, credits, byHand, undone>>
    /\ accepted \subseteq accepted'
    /\ \A r \in Receipts : tx'[r] = "COMPLETED" => tx[r] = "COMPLETED"
    /\ \A w \in Workers : stage'[w] = "linking" => stage[w] = "linking" /\ receipt'[w] = receipt[w]

\* Each step is one that moves money, or leaves every payment as it is.
LEMMA StepsOfMoney ==
    ASSUME TypeInv, [Next]_vars
    PROVE  \/ Still
           \/ \E r \in Receipts : Teller(r) \/ DeleteRepayment(r)
           \/ \E r \in Receipts, w \in Workers : Moves(r, w)
  <1> USE DEF history, payVars, reqVars
  <1>1. /\ tx \in [Receipts -> Statuses] /\ accepted \subseteq Receipts /\ Handled
        /\ stage \in [Workers -> Stages] /\ receipt \in [Workers -> Receipts \cup {NoReceipt}]
    BY DEF TypeInv, TypeOK
  <1> DEFINE Others == \A w \in Workers :
               stage'[w] = "linking" => stage[w] = "linking" /\ receipt'[w] = receipt[w]
  <1>2. ASSUME NEW w \in Workers, NEW s, s # "linking", Goto(w, s) PROVE Others
    BY <1>1, <1>2 DEF Goto
  <1>3. ASSUME NEW w \in Workers, Respond(w) PROVE Others
    BY <1>1, <1>3 DEF Respond
  <1>4. ASSUME UNCHANGED reqVars PROVE Others
    BY <1>4
  <1>5. ASSUME NEW w \in Workers, NEW op, NEW s, s # "linking", NEW r, Open(w, op, s, r) PROVE Still
    <2>1. Others
      BY <1>1, <1>5 DEF Open
    <2>2. QED
      BY <1>5, <2>1 DEF Open, Still
  <1>6. ASSUME NEW w \in Workers, NEW left, Ingested(w, left), NEW r \in Receipts,
               tx' = tx \/ tx' = [tx EXCEPT ![r] = "UNALLOCATED"]
        PROVE  Still
    <2>1. Others
      BY <1>1, <1>6 DEF Ingested
    <2>2. QED
      BY <1>1, <1>6, <2>1 DEF Ingested, Still
  <1>7. ASSUME NEW w \in Workers, Confirm(w) PROVE Still \/ \E r \in Receipts : Moves(r, w)
    <2>1. receipt[w] \in Receipts
      BY <1>1, <1>7 DEF Confirm, Handled
    <2>2. CASE ProcessNew(receipt[w])
      BY <1>7, <2>1, <2>2 DEF Moves
    <2>3. CASE UNCHANGED payVars
      BY <1>7, <2>3, <1>2 DEF Confirm, Still
    <2>4. QED
      BY <1>7, <2>2, <2>3 DEF Confirm
  <1>8. ASSUME NEW w \in Workers, Refuse(w) PROVE Still
    <2>1. Others
      BY <1>8, <1>2 DEF Refuse
    <2>2. \A r \in Receipts : tx'[r] = "COMPLETED" => tx[r] = "COMPLETED"
      BY <1>1, <1>8 DEF Refuse
    <2>3. QED
      BY <1>8, <2>1, <2>2 DEF Refuse, Still
  <1>9. ASSUME NEW w \in Workers, AllocateCredit(w) \/ AllocateLink(w) \/ ResetCommit(w)
        PROVE  \E r \in Receipts : Moves(r, w)
    BY <1>1, <1>9 DEF AllocateCredit, AllocateLink, ResetCommit, Moves, Handled
  <1>10. ASSUME NEW w \in Workers, NEW s, NEW next, next # "linking", Find(w, s, next) PROVE Still
    BY <1>10, <1>2, <1>3 DEF Find, Still
  <1>11. ASSUME NEW w \in Workers, Verify(w) \/ Fail(w) \/ CloseLog(w) \/ Die(w) PROVE Still
    BY <1>11, <1>2, <1>3 DEF Verify, Fail, CloseLog, Die, Still
  <1>12. ASSUME NEW w \in Workers, NEW r \in Receipts, Ingest(w, r) PROVE Still
    BY <1>12, <1>6 DEF Ingest
  <1>13. ASSUME NEW w \in Workers, IngestCollides(w) PROVE Still
    BY <1>1, <1>13, <1>6 DEF IngestCollides, TypeInv, TypeOK
  <1>14. ASSUME NEW w \in Workers, NEW r \in Receipts, Deliver(w, r) PROVE Still
    <2>1. Others
      BY <1>1, <1>14 DEF Deliver, Begin
    <2>2. QED
      BY <1>14, <2>1 DEF Deliver, Still
  <1>15. ASSUME NEW w \in Workers, Progress(w) PROVE Still \/ \E r \in Receipts : Moves(r, w)
    BY <1>7, <1>8, <1>9, <1>10, <1>11, <1>12, <1>13, <1>15 DEF Progress, AllocateFind, ResetFind
  <1>16. ASSUME NEW w \in Workers, NEW r \in Receipts, AllocateReceipt(w, r) \/ Reset(w, r) PROVE Still
    BY <1>5, <1>16 DEF AllocateReceipt, Reset
  <1>17. ASSUME NEW w \in Workers, Report(w) PROVE Still
    BY <1>5, <1>17 DEF Report
  <1>18. ASSUME NEW r \in Receipts, Validate(r) PROVE Still
    BY <1>4, <1>18 DEF Validate, Still
  <1>19. CASE UNCHANGED vars
    BY <1>4, <1>19 DEF vars, Still
  <1>20. QED
    BY <1>14, <1>15, <1>16, <1>17, <1>18, <1>19 DEF Next

MoneyInv == Linking /\ CreditedOnce /\ CompletedIsCredited

\* Every step keeps completed receipts, repayments and credits together.
LEMMA MoneyStep ==
    ASSUME TypeInv, MoneyInv, [Next]_vars
    PROVE  MoneyInv'
  <1> USE DEF history, payVars, reqVars
  <1>1. /\ tx \in [Receipts -> Statuses] /\ credits \in [Receipts -> Nat]
        /\ linked \subseteq repayments /\ repayments \subseteq Receipts
        /\ stage \in [Workers -> Stages] /\ receipt \in [Workers -> Receipts \cup {NoReceipt}]
        /\ Handled
    BY DEF TypeInv, TypeOK, MoneyInv, CompletedIsCredited
  <1>2. CASE Still
    BY <1>2, <1>1 DEF Still, MoneyInv, Linking, CreditedOnce, CompletedIsCredited
  \* A receipt is credited: it had no repayment, so it was credited never
  \* or a repayment of it was deleted.
  <1>3. ASSUME NEW r \in Receipts, RecordRepayment(r), UNCHANGED undone PROVE CreditedOnce'
    BY <1>1, <1>3 DEF RecordRepayment, MoneyInv, CreditedOnce
  <1>4. ASSUME NEW r \in Receipts, RecordRepayment(r), UNCHANGED <<tx, linked, undone>>
        PROVE  CompletedIsCredited'
    BY <1>1, <1>4 DEF RecordRepayment, MoneyInv, CompletedIsCredited
  <1>5. ASSUME NEW r \in Receipts, Complete(r), CreditedOnce', r \in repayments',
               repayments \subseteq repayments', UNCHANGED undone
        PROVE  CompletedIsCredited'
    BY <1>1, <1>5 DEF Complete, MoneyInv, CompletedIsCredited, CreditedOnce
  <1>6. ASSUME NEW r \in Receipts, Teller(r) PROVE MoneyInv'
    <2>1. Linking'
      BY <1>6 DEF Teller, RecordRepayment, MoneyInv, Linking
    <2>2. QED
      BY <1>3, <1>4, <1>6, <2>1 DEF Teller, MoneyInv
  <1>7. ASSUME NEW r \in Receipts, DeleteRepayment(r) PROVE MoneyInv'
    <2>1. Linking'
      BY <1>7 DEF DeleteRepayment, MoneyInv, Linking
    <2>2. CreditedOnce'
      BY <1>1, <1>7 DEF DeleteRepayment, MoneyInv, CreditedOnce
    <2>3. CompletedIsCredited'
      BY <1>1, <1>7 DEF DeleteRepayment, MoneyInv, CompletedIsCredited
    <2>4. QED
      BY <2>1, <2>2, <2>3 DEF MoneyInv
  <1>8. ASSUME NEW w \in Workers, NEW r \in Receipts, Confirm(w), r = receipt[w], ProcessNew(r)
        PROVE  MoneyInv'
    <2>1. repayments \subseteq repayments' /\ UNCHANGED undone
      BY <1>8 DEF Confirm, ProcessNew, RecordRepayment
    <2>2. Linking'
      BY <1>1, <1>8, <2>1 DEF Confirm, Goto, MoneyInv, Linking
    <2>3. CreditedOnce'
      <3>1. CASE UNCHANGED <<repayments, credits>>
        BY <2>1, <3>1 DEF MoneyInv, CreditedOnce
      <3>2. QED
        BY <1>3, <1>8, <2>1, <3>1 DEF ProcessNew
    <2>4. CompletedIsCredited'
      <3>1. CASE Complete(r)
        <4>1. r \in repayments'
          BY <1>1, <1>8, <3>1 DEF ProcessNew, Complete, RecordRepayment
        <4>2. QED
          BY <1>5, <2>1, <2>3, <3>1, <4>1
      <3>2. CASE \E s \in {"FAILED", "UNALLOCATED"} :
                   tx' = [tx EXCEPT ![r] = s] /\ UNCHANGED <<linked, repayments, credits>>
        BY <1>1, <2>1, <3>2 DEF MoneyInv, CompletedIsCredited
      <3>3. QED
        BY <1>8, <3>1, <3>2 DEF ProcessNew
    <2>5. QED
      BY <2>2, <2>3, <2>4 DEF MoneyInv
  <1>9. ASSUME NEW w \in Workers, NEW r \in Receipts, AllocateCredit(w), r = receipt[w]
        PROVE  MoneyInv'
    <2>1. Linking'
      BY <1>1, <1>9 DEF AllocateCredit, RecordRepayment, Goto, MoneyInv, Linking
    <2>2. QED
      BY <1>3, <1>4, <1>9, <2>1 DEF AllocateCredit, MoneyInv
  <1>10. ASSUME NEW w \in Workers, NEW r \in Receipts, AllocateLink(w), r = receipt[w]
         PROVE  MoneyInv'
    <2>1. r \in repayments'
      BY <1>10 DEF AllocateLink, MoneyInv, Linking
    <2>2. Linking' /\ CreditedOnce'
      BY <1>1, <1>10 DEF AllocateLink, Respond, MoneyInv, Linking, CreditedOnce
    <2>3. CompletedIsCredited'
      BY <1>5, <1>10, <2>1, <2>2 DEF AllocateLink
    <2>4. QED
      BY <2>2, <2>3 DEF MoneyInv
  <1>11. ASSUME NEW w \in Workers, NEW r \in Receipts, ResetCommit(w), r = receipt[w]
         PROVE  MoneyInv'
    <2>1. RecordRepayment(r) /\ Complete(r) /\ Respond(w) /\ UNCHANGED undone
      BY <1>11 DEF ResetCommit
    <2>2. Linking'
      BY <1>1, <2>1 DEF RecordRepayment, Respond, MoneyInv, Linking
    <2>3. CreditedOnce' /\ r \in repayments' /\ repayments \subseteq repayments'
      BY <1>3, <2>1 DEF RecordRepayment
    <2>4. QED
      BY <1>5, <2>1, <2>2, <2>3 DEF MoneyInv
  <1>12. QED
    BY <1>2, <1>6, <1>7, <1>8, <1>9, <1>10, <1>11, StepsOfMoney DEF Moves

\* A receipt shown as completed was credited once and is linked, for any number
\* of receipts and workers, unless a repayment of it was deleted.
THEOREM CompletedWasCredited == Spec => []CompletedIsCredited
  <1>1. Init => MoneyInv
    BY DEF Init, MoneyInv, Linking, CreditedOnce, CompletedIsCredited
  <1>2. TypeInv /\ MoneyInv /\ [Next]_vars => MoneyInv'
    BY MoneyStep
  <1>3. MoneyInv => CompletedIsCredited
    BY DEF MoneyInv
  <1>4. QED
    BY <1>1, <1>2, <1>3, TypesKept, PTL DEF Spec

\* A receipt the relay never confirmed and nobody credited by hand is credited
\* to no loan, whatever runs between the relay's answer and its transaction.
LEMMA RefusedStep ==
    ASSUME TypeInv, RefusedNotCredited, [Next]_vars
    PROVE  RefusedNotCredited'
  <1> USE DEF history, payVars, reqVars
  <1>1. credits \in [Receipts -> Nat]
    BY DEF TypeInv, TypeOK
  <1>2. ASSUME UNCHANGED credits, accepted \subseteq accepted', byHand \subseteq byHand'
        PROVE  RefusedNotCredited'
    BY <1>2 DEF RefusedNotCredited
  <1>3. ASSUME NEW r \in Receipts, RecordRepayment(r), r \in accepted' \cup byHand',
               accepted \subseteq accepted', byHand \subseteq byHand'
        PROVE  RefusedNotCredited'
    BY <1>1, <1>3 DEF RefusedNotCredited, RecordRepayment
  <1>4. ASSUME NEW r \in Receipts, NEW w \in Workers, Moves(r, w) PROVE RefusedNotCredited'
    <2>1. CASE Confirm(w) /\ r = receipt[w] /\ ProcessNew(r)
      BY <1>2, <1>3, <2>1 DEF Confirm, ProcessNew
    <2>2. CASE AllocateCredit(w) /\ r = receipt[w]
      BY <1>3, <2>2 DEF AllocateCredit
    <2>3. CASE AllocateLink(w)
      BY <1>2, <2>3 DEF AllocateLink
    <2>4. CASE ResetCommit(w) /\ r = receipt[w]
      BY <1>3, <2>4 DEF ResetCommit
    <2>5. QED
      BY <1>4, <2>1, <2>2, <2>3, <2>4 DEF Moves
  <1>5. ASSUME NEW r \in Receipts, Teller(r) \/ DeleteRepayment(r) PROVE RefusedNotCredited'
    BY <1>2, <1>3, <1>5 DEF Teller, DeleteRepayment
  <1>6. QED
    BY <1>2, <1>4, <1>5, StepsOfMoney DEF Still

\* Nothing but the relay's confirmation or an operator credits a receipt,
\* however callbacks, reports and manual operations interleave.
THEOREM RefusedStaysUncredited == Spec => []RefusedNotCredited
  <1>1. Init => RefusedNotCredited
    BY DEF Init, RefusedNotCredited
  <1>2. TypeInv /\ RefusedNotCredited /\ [Next]_vars => RefusedNotCredited'
    BY RefusedStep
  <1>3. QED
    BY <1>1, <1>2, TypesKept, PTL DEF Spec

-----------------------------------------------------------------------------
\* The book of receipts

\* A worker that acts on a receipt by hand has found it in the database.
LEMMA FoundStep ==
    ASSUME TypeInv, Found, [Next]_vars
    PROVE  Found'
  <1> USE DEF history, payVars, reqVars
  <1>1. /\ tx \in [Receipts -> Statuses] /\ Handled
        /\ stage \in [Workers -> Stages] /\ receipt \in [Workers -> Receipts \cup {NoReceipt}]
    BY DEF TypeInv, TypeOK
  <1> DEFINE Finding == {"allocating", "linking", "resetting"}
  \* No other worker comes to a stage where it has found its receipt, and
  \* this one comes to it with a receipt that is in the table.
  <1>2. ASSUME NEW w \in Workers, receipt'[w] = receipt[w],
               \A v \in Workers \ {w} : stage'[v] = stage[v] /\ receipt'[v] = receipt[v],
               stage'[w] \in Finding =>
                   stage[w] \in Finding \/ (Unlinked(receipt[w]) /\ receipt[w] \in Receipts)
        PROVE  Found'
    BY <1>1, <1>2, TxKept DEF Found, Handled, Unlinked
  <1>3. ASSUME NEW w \in Workers, stage'[w] \notin Finding,
               \A v \in Workers \ {w} : stage'[v] = stage[v] /\ receipt'[v] = receipt[v]
        PROVE  Found'
    BY <1>1, <1>3, TxKept DEF Found, Handled
  <1>4. ASSUME NEW w \in Workers, NEW s, s \notin Finding, Goto(w, s) PROVE Found'
    BY <1>1, <1>3, <1>4 DEF Goto
  <1>5. ASSUME NEW w \in Workers, Respond(w) PROVE Found'
    BY <1>1, <1>3, <1>5 DEF Respond
  <1>6. ASSUME UNCHANGED <<stage, receipt>> PROVE Found'
    BY <1>1, <1>6, TxKept DEF Found, Handled
  <1>7. ASSUME NEW w \in Workers, NEW s \in {"finding", "locating"},
               NEW next \in {"allocating", "resetting"}, Find(w, s, next)
        PROVE  Found'
    <2>1. CASE Unlinked(receipt[w]) /\ Goto(w, next)
      BY <1>1, <1>2, <1>7, <2>1 DEF Find, Goto, Handled
    <2>2. QED
      BY <1>5, <1>7, <2>1 DEF Find
  <1>8. ASSUME NEW w \in Workers, AllocateCredit(w) PROVE Found'
    BY <1>1, <1>2, <1>8 DEF AllocateCredit, Goto
  <1>9. ASSUME NEW w \in Workers, NEW left, Ingested(w, left) PROVE Found'
    BY <1>1, <1>3, <1>6, <1>9 DEF Ingested
  <1>10. ASSUME NEW w \in Workers, NEW op, NEW s, s \notin Finding, NEW r, Open(w, op, s, r) PROVE Found'
    BY <1>1, <1>3, <1>10 DEF Open
  <1>11. ASSUME NEW w \in Workers, NEW r \in Receipts, Deliver(w, r) PROVE Found'
    BY <1>1, <1>3, <1>11 DEF Deliver, Begin
  <1>12. ASSUME NEW r \in Receipts, DeleteRepayment(r) PROVE Found'
    BY <1>1, <1>12, TxKept DEF DeleteRepayment, Found, Handled
  <1>13. ASSUME NEW w \in Workers,
                Verify(w) \/ Confirm(w) \/ Refuse(w) \/ Fail(w)
         PROVE  Found'
    BY <1>4, <1>13 DEF Verify, Confirm, Refuse, Fail
  <1>14. ASSUME NEW w \in Workers, CloseLog(w) \/ AllocateLink(w) \/ ResetCommit(w) \/ Die(w)
         PROVE  Found'
    BY <1>5, <1>14 DEF CloseLog, AllocateLink, ResetCommit, Die
  <1>15. ASSUME NEW w \in Workers, Progress(w) PROVE Found'
    BY <1>7, <1>8, <1>9, <1>13, <1>14, <1>15
       DEF Progress, AllocateFind, ResetFind, Ingest, IngestCollides
  <1>16. ASSUME NEW w \in Workers, NEW r \in Receipts, AllocateReceipt(w, r) \/ Reset(w, r) PROVE Found'
    BY <1>10, <1>16 DEF AllocateReceipt, Reset
  <1>17. ASSUME NEW w \in Workers, Report(w) PROVE Found'
    BY <1>10, <1>17 DEF Report
  <1>18. ASSUME NEW r \in Receipts, Validate(r) \/ Teller(r) PROVE Found'
    BY <1>6, <1>18 DEF Validate, Teller
  <1>19. QED
    BY <1>6, <1>11, <1>12, <1>15, <1>16, <1>17, <1>18 DEF Next, vars

\* What the book sees of a step: a callback is stored, a receipt is listed, is
\* credited or loses its repayment, or nothing happens.
Listed == {r \in Receipts : tx[r] # "none"}

\* Each step is one of the book of receipts, or none of its business.
LEMMA BookStep ==
    ASSUME TypeInv, Found, [Next]_vars
    PROVE  [Book!BookNext]_(Book!bookVars)
  <1> USE DEF history, payVars, reqVars
  <1>1. /\ log \in Seq(LogRow) /\ Len(log) \in Nat
        /\ tx \in [Receipts -> Statuses] /\ Handled /\ Rows
    BY LenProperties DEF TypeInv, TypeOK
  <1> DEFINE Same == UNCHANGED <<Logged, Listed, repayments, credits>>
  <1>2. ASSUME UNCHANGED log PROVE UNCHANGED Logged
    BY <1>2 DEF Logged
  <1>3. ASSUME UNCHANGED tx PROVE UNCHANGED Listed
    BY <1>3 DEF Listed
  <1>4. ASSUME NEW r \in Receipts, tx[r] = "none", NEW s \in Statuses \ {"none"},
               tx' = [tx EXCEPT ![r] = s]
        PROVE  r \notin Listed /\ Listed' = Listed \cup {r}
    BY <1>1, <1>4 DEF Listed
  <1>5. ASSUME NEW r \in Receipts, tx[r] # "none", Complete(r) PROVE UNCHANGED Listed
    BY <1>1, <1>5 DEF Listed, Complete
  <1>same. ASSUME Same PROVE UNCHANGED Book!bookVars
    BY <1>same DEF Book!bookVars, Listed
  <1>store. ASSUME NEW r \in Receipts, Logged' = Logged \cup {r}, UNCHANGED <<Listed, repayments, credits>>
            PROVE  Book!BookNext
    BY <1>store DEF Book!BookNext, Book!Store, Listed
  <1>post. ASSUME NEW r \in Receipts, RecordRepayment(r), UNCHANGED <<Logged, Listed>>
           PROVE  Book!BookNext
    BY <1>post DEF Book!BookNext, Book!Credit, Book!Post, RecordRepayment, Listed
  <1>list. ASSUME NEW r \in Receipts, r \notin Listed, Listed' = Listed \cup {r},
                  RecordRepayment(r) \/ UNCHANGED <<repayments, credits>>, UNCHANGED Logged
           PROVE  Book!BookNext
    BY <1>list DEF Book!BookNext, Book!List, Book!Post, RecordRepayment, Listed
  <1>6. ASSUME NEW r \in Receipts, Validate(r) \/ \E w \in Workers : Deliver(w, r)
        PROVE  Book!BookNext \/ Same
    <2>1. UNCHANGED <<Listed, repayments, credits>>
      BY <1>3, <1>6 DEF Validate, Deliver
    <2>2. CASE UNCHANGED log
      BY <1>2, <2>1, <2>2
    <2>3. CASE \E s \in {"validated", "received"} : log' = Append(log, [receipt |-> r, status |-> s])
      <3>1. PICK e \in LogRow : e.receipt = r /\ log' = Append(log, e)
        BY <2>3 DEF LogRow
      <3>2. Logged' = Logged \cup {r}
        BY <1>1, <3>1, LogAppends
      <3>3. QED
        BY <1>store, <2>1, <3>2
    <2>4. QED
      BY <1>6, <2>2, <2>3 DEF Validate, Deliver
  <1>7. ASSUME NEW w \in Workers, Confirm(w) PROVE Book!BookNext \/ Same
    <2> DEFINE r == receipt[w]
    <2>1. r \in Receipts /\ UNCHANGED Logged
      BY <1>1, <1>2, <1>7 DEF Confirm, Handled
    <2>2. CASE UNCHANGED payVars
      BY <1>3, <2>1, <2>2
    <2>3. CASE ProcessNew(r)
      <3>1. RecordRepayment(r) \/ UNCHANGED <<repayments, credits>>
        BY <2>3 DEF ProcessNew
      <3>2. \E s \in Statuses \ {"none"} : tx' = [tx EXCEPT ![r] = s]
        BY <2>3 DEF ProcessNew, Complete, Statuses
      <3>3. QED
        BY <1>4, <1>list, <2>1, <2>3, <3>1, <3>2 DEF ProcessNew
    <2>4. QED
      BY <1>7, <2>2, <2>3 DEF Confirm
  <1>8. ASSUME NEW w \in Workers, Refuse(w) PROVE Book!BookNext \/ Same
    <2> DEFINE r == receipt[w]
    <2>1. r \in Receipts /\ UNCHANGED <<Logged, repayments, credits>>
      BY <1>1, <1>2, <1>8 DEF Refuse, Handled
    <2>2. CASE tx[r] = "none"
      <3>1. r \notin Listed /\ Listed' = Listed \cup {r}
        BY <1>4, <1>8, <2>1, <2>2 DEF Refuse, Statuses
      <3>2. QED
        BY <1>list, <2>1, <3>1
    <2>3. CASE tx[r] # "none"
      BY <1>3, <1>8, <2>1, <2>3 DEF Refuse
    <2>4. QED
      BY <2>2, <2>3
  <1>9. ASSUME NEW w \in Workers, NEW r \in Receipts, Ingest(w, r) PROVE Book!BookNext
    <2>1. UNCHANGED <<Logged, repayments, credits>>
      BY <1>2, <1>9 DEF Ingest, Ingested
    <2>2. r \notin Listed /\ Listed' = Listed \cup {r}
      BY <1>4, <1>9 DEF Ingest, Statuses
    <2>3. QED
      BY <1>list, <2>1, <2>2
  <1>10. ASSUME NEW w \in Workers, CloseLog(w) PROVE Same
    <2>1. UNCHANGED <<Listed, repayments, credits>>
      BY <1>3, <1>10 DEF CloseLog
    <2>2. CASE UNCHANGED log
      BY <1>2, <2>1, <2>2
    <2>3. CASE row[w] # 0 /\ \E s \in {"processed", "failed"} : log' = [log EXCEPT ![row[w]].status = s]
      <3>1. row[w] \in 1..Len(log)
        BY <1>1, <2>3 DEF Rows
      <3>2. QED
        BY <1>1, <2>1, <2>3, <3>1, LogCloses
    <2>4. QED
      BY <1>10, <2>2, <2>3 DEF CloseLog
  <1>11. ASSUME NEW w \in Workers, AllocateCredit(w) PROVE Book!BookNext
    <2>1. receipt[w] \in Receipts /\ RecordRepayment(receipt[w]) /\ UNCHANGED <<log, tx>>
      BY <1>1, <1>11 DEF AllocateCredit, Handled
    <2>2. QED
      BY <1>2, <1>3, <1>post, <2>1
  <1>12. ASSUME NEW w \in Workers, AllocateLink(w) PROVE Same
    <2>1. /\ receipt[w] \in Receipts /\ tx[receipt[w]] # "none" /\ Complete(receipt[w])
          /\ UNCHANGED <<log, repayments, credits>>
      BY <1>1, <1>12 DEF AllocateLink, Handled, Found
    <2>2. QED
      BY <1>2, <1>5, <2>1
  <1>13. ASSUME NEW w \in Workers, ResetCommit(w) PROVE Book!BookNext
    <2>1. /\ receipt[w] \in Receipts /\ tx[receipt[w]] # "none" /\ Complete(receipt[w])
          /\ RecordRepayment(receipt[w]) /\ UNCHANGED log
      BY <1>1, <1>13 DEF ResetCommit, Handled, Found
    <2>2. QED
      BY <1>2, <1>5, <1>post, <2>1
  <1>14. ASSUME NEW r \in Receipts, Teller(r) PROVE Book!BookNext
    BY <1>2, <1>3, <1>post, <1>14 DEF Teller
  <1>15. ASSUME NEW r \in Receipts, DeleteRepayment(r) PROVE Book!BookNext
    <2>1. UNCHANGED <<Logged, Listed, credits>> /\ repayments' = repayments \ {r}
      BY <1>2, <1>3, <1>15 DEF DeleteRepayment
    <2>2. QED
      BY <2>1 DEF Book!BookNext, Book!Delete, Listed
  <1>16. ASSUME UNCHANGED <<log, payVars>> PROVE Same
    BY <1>2, <1>3, <1>16
  <1>17. ASSUME NEW w \in Workers, Progress(w) PROVE Book!BookNext \/ Same
    <2>1. CASE Verify(w) \/ Fail(w) \/ Die(w)
      BY <1>16, <2>1 DEF Verify, Fail, Die
    <2>2. CASE IngestCollides(w)
      BY <1>16, <2>2 DEF IngestCollides, Ingested
    <2>3. CASE AllocateFind(w) \/ ResetFind(w)
      BY <1>16, <2>3 DEF AllocateFind, ResetFind, Find
    <2>4. CASE \E r \in Receipts : Ingest(w, r)
      BY <1>9, <2>4
    <2>5. CASE Confirm(w) \/ Refuse(w)
      BY <1>7, <1>8, <2>5
    <2>6. CASE CloseLog(w) \/ AllocateLink(w)
      <3>1. Same
        BY <1>10, <1>12, <2>6
      <3>2. QED
        BY <3>1
    <2>7. CASE AllocateCredit(w) \/ ResetCommit(w)
      BY <1>11, <1>13, <2>7
    <2>8. QED
      BY <1>17, <2>1, <2>2, <2>3, <2>4, <2>5, <2>6, <2>7 DEF Progress
  <1>18. Book!BookNext \/ Same
    <2>1. ASSUME NEW w \in Workers, Report(w) PROVE Same
      BY <1>16, <2>1 DEF Report, Open
    <2>2. ASSUME NEW w \in Workers, NEW r \in Receipts, AllocateReceipt(w, r) \/ Reset(w, r) PROVE Same
      BY <1>16, <2>2 DEF AllocateReceipt, Reset, Open
    <2>3. CASE UNCHANGED vars
      BY <1>16, <2>3 DEF vars
    <2>4. CASE \E w \in Workers : Progress(w) \/ Report(w)
      BY <1>17, <2>1, <2>4
    <2>5. CASE \E r \in Receipts : Teller(r) \/ DeleteRepayment(r)
      BY <1>14, <1>15, <2>5
    <2>6. CASE \E w \in Workers, r \in Receipts : AllocateReceipt(w, r) \/ Reset(w, r)
      BY <2>2, <2>6
    <2>7. CASE \E r \in Receipts : Validate(r) \/ \E w \in Workers : Deliver(w, r)
      BY <1>6, <2>7
    <2>8. QED
      BY <2>3, <2>4, <2>5, <2>6, <2>7 DEF Next
  <1>19. QED
    BY <1>18, <1>same

\* Every step of the integration is one the book of receipts allows: a receipt
\* is listed once, and credited only while it has no repayment.
THEOREM BookIsKept == Spec => Book!BookInit /\ [][Book!BookNext]_(Book!bookVars)
  <1>1. Init => Book!BookInit
    BY DEF Init, Book!BookInit, Logged
  <1>2. Init => Found
    BY DEF Init, Found
  <1>3. TypeInv /\ Found /\ [Next]_vars => Found'
    BY FoundStep
  <1>4. TypeInv /\ Found /\ [Next]_vars => [Book!BookNext]_(Book!bookVars)
    BY BookStep
  <1>5. QED
    BY <1>1, <1>2, <1>3, <1>4, TypesKept, PTL DEF Spec

-----------------------------------------------------------------------------
\* Savings and shares: the invariants

\* What a tab shows and what its request asks.
Screen == [screen : {"register", "new", "moves"},
           dialog : {"none", "reverse", "delete", "upload"}, target : Nat, list : SUBSET Nat]

Operations == {"deposit", "withdraw", "transfer", "upload", "reverse", "delete", "cancel"}

Deposits == [op : {"deposit"}, stage : {"sent", "numbered", "inserted"}, member : Members,
             amount : 1..MaxAmount, doc : Nat, row : Ids]
Withdrawals == [op : {"withdraw"}, stage : {"sent", "checked", "moved", "numbered", "inserted"},
                member : Members, to : {Pool}, amount : 1..MaxAmount, doc : Nat,
                move : Nat, row : Ids]
Transfers == [op : {"transfer"}, stage : {"sent", "checked"}, member : Members,
              to : Members \cup {Pool}, amount : 1..MaxAmount]
Uploads == [op : {"upload"}, stage : {"sent"}, file : SUBSET Members]
Reversals == [op : {"reverse"}, stage : {"sent", "read"}, id : Nat, copy : SUBSET Payment]
Deletions == [op : {"delete"}, stage : {"sent", "unposted"}, id : Nat]
Cancellations == [op : {"cancel"}, stage : {"sent", "read", "saved"}, id : Nat,
                  copy : SUBSET Move]
Answers == [op : Operations, stage : {"ok", "failed"}]

Requests ==
    {NoReq} \cup Deposits \cup Withdrawals \cup Transfers \cup Uploads \cup Reversals
    \cup Deletions \cup Cancellations \cup Answers

\* Rows are finitely many; moves are numbered in order and name payments given out.
RowsKept ==
    /\ IsFiniteSet(payments) /\ IsFiniteSet(moves)
    /\ \A w \in moves : w.id <= Cardinality(moves) /\ w.paid <= inserted

\* Each book has its requests; a reversal's copy is of the one row it asked for.
Fits(r) ==
    /\ r.op = "withdraw" => book = "savings"
    /\ r.op = "transfer" => book = "shares"
    /\ r.op \in {"deposit", "withdraw"} /\ r.stage = "inserted" => r.row \in 1..inserted
    /\ r.op = "reverse" /\ r.stage \in {"sent", "read"} =>
         /\ \A p \in r.copy : p.id = r.id /\ p.id <= inserted
         /\ \A p, q \in r.copy : p = q
    /\ r.op = "cancel" /\ r.stage \in {"sent", "read", "saved"} =>
         \A w \in r.copy : w.paid <= inserted

\* The types, for any number of requests served at a time.
RowsInv ==
    /\ book \in {"savings", "shares"}
    /\ tab \in [Tabs -> Screen]
    /\ req \in [Tabs -> Requests]
    /\ AccountsTypeOK
    /\ RowsKept
    /\ \A t \in Tabs : Fits(req[t])

OneServed == \A s, t \in Served : s = t

\* The payment a move is joined to is there, of its amount, and not reversed.
LinkedIsOut == \A w \in moves : w.active /\ w.paid # 0 => PaidOut(w)

\* A payment is joined to one move at most.
PaidOnce == \A v, w \in moves : v.paid = w.paid /\ v.paid # 0 => v = w

\* A withdrawal under way has its move, its payment is there, not reversed and
\* joined to none; what a cancellation has read is current, and what it has
\* saved stands no more.
Holds(t) ==
    LET r == req[t] IN
    /\ r.op = "withdraw" /\ r.stage \in {"moved", "numbered", "inserted"} =>
         \A w \in moves : w.id = r.move => w.amount = r.amount
    /\ r.op = "withdraw" /\ r.stage = "inserted" =>
         /\ \A w \in moves : w.paid # r.row
         /\ \E p \in payments : p.id = r.row /\ ~p.reversed /\ p.amount = r.amount
    /\ r.op = "cancel" /\ r.stage = "read" =>
         r.copy \subseteq moves /\ \A v, w \in r.copy : v = w
    /\ r.op = "cancel" /\ r.stage = "saved" =>
         \A v \in r.copy, w \in moves : w.paid = v.paid => ~w.active

MovesInv == RowsInv /\ OneServed /\ PaidOnce /\ LinkedIsOut /\ \A t \in Tabs : Holds(t)

\* What a withdrawal or transfer was checked for is still in the account.
Covered(t) ==
    LET r == req[t] IN
    /\ r.op = "withdraw" /\ r.stage \in {"checked", "moved", "numbered"} =>
         r.amount <= SavingsBalance(r.member)
    /\ r.op = "transfer" /\ r.stage = "checked" =>
         r.member # r.to /\ r.amount <= ShareBalance(r.member)

CoverInv == RowsInv /\ OneServed /\ \A t \in Tabs : Covered(t)

\* A withdrawal that stands without the key of a payment is on its way to it or
\* has lost it in one of the two ways.
Drift ==
    book = "savings" => \A w \in moves : w.active /\ w.paid = 0 =>
      (\E t \in Tabs : Carries(t, w)) \/ w.id \in adrift

TurnInv == RowsInv /\ Drift /\ (overlapped \/ (MovesInv /\ CoverInv))

-----------------------------------------------------------------------------
\* Savings and shares: sets, greatest keys and sums

(* A finite set mapped one to one keeps its size.                          *)
LEMMA CardinalityOfImage ==
    ASSUME NEW S, NEW T, IsFiniteSet(S), NEW f \in [S -> T],
           \A x \in T : \E w \in S : f[w] = x,
           \A v, w \in S : f[v] = f[w] => v = w
    PROVE  IsFiniteSet(T) /\ Cardinality(T) = Cardinality(S)
<1>1. f \in Surjection(S, T)
  BY DEF Surjection
<1>2. f \in Injection(S, T)
  BY DEF Injection, IsInjective
<1> QED BY <1>1, <1>2, FS_Surjection

(* A finite set of numbers has a greatest one.                             *)
LEMMA MaxOfNumbers ==
    ASSUME NEW S \in SUBSET Nat, IsFiniteSet(S), S # {}
    PROVE  Max(S) \in S /\ \A y \in S : Max(S) >= y
<1> DEFINE Top(X, x) == x \in X /\ \A y \in X : x >= y
           T == {X \in SUBSET S : X # {} => \E x \in X : Top(X, x)}
<1>1. ASSUME NEW X \in SUBSET S, \A Y \in SUBSET X : Y # X => Y \in T
      PROVE  X \in T
  <2>1. CASE X = {}
    BY <2>1
  <2>2. CASE X # {}
    <3>1. PICK a \in X : TRUE
      BY <2>2
    <3> DEFINE Y == X \ {a}
    <3>2. Y \in T
      <4>1. Y \in SUBSET X /\ Y # X
        BY <3>1
      <4> QED BY ONLY <4>1, <1>1
    <3>3. CASE Y = {}
      <4>1. Top(X, a)
        BY <3>1, <3>3
      <4> QED BY <3>1, <4>1
    <3>4. CASE Y # {}
      <4>1. PICK b \in Y : Top(Y, b)
        BY <3>2, <3>4
      <4>2. Top(X, a) \/ Top(X, b)
        BY <3>1, <4>1
      <4> QED BY <3>1, <4>1, <4>2
    <3> QED BY <3>3, <3>4
  <2> QED BY <2>1, <2>2
<1>2. SUBSET S \subseteq T
  <2> HIDE DEF T
  <2> QED BY <1>1, SubsetInduction
<1>3. \E x \in S : \A y \in S : x >= y
  <2>1. S \in T
    BY <1>2
  <2> QED BY <2>1
<1> QED BY <1>3 DEF Max

(* Total is the sum of OperatorProofs: one row more or less, and a set more.*)
LEMMA TotalIsSum ==
    ASSUME NEW rows, NEW f, IsFiniteSet(rows), \A r \in rows : f[r] = r.amount
    PROVE  Total(rows) = SumFunctionOnSet(f, rows)
<1> DEFINE g == [r \in rows |-> r.amount]
<1>1. Total(rows) = SumFunctionOnSet(g, rows)
  BY DEF Total, SumFunction
<1>2. \A r \in rows : g[r] = f[r]
  OBVIOUS
<1> HIDE DEF g
<1> QED BY <1>1, <1>2, SumExtensional

LEMMA TotalType ==
    ASSUME NEW rows, IsFiniteSet(rows), \A r \in rows : r.amount \in Nat
    PROVE  Total(rows) \in Nat
<1> DEFINE g == [r \in rows |-> r.amount]
<1>1. \A r \in rows : g[r] = r.amount
  OBVIOUS
<1> HIDE DEF g
<1> QED BY <1>1, TotalIsSum, SumOfNaturals

LEMMA TotalAdds ==
    ASSUME NEW rows, IsFiniteSet(rows), NEW p, p \notin rows,
           \A r \in rows \cup {p} : r.amount \in Nat
    PROVE  Total(rows \cup {p}) = Total(rows) + p.amount
<1> DEFINE g == [r \in rows \cup {p} |-> r.amount]
<1>1. \A r \in rows \cup {p} : g[r] = r.amount
  OBVIOUS
<1>2. IsFiniteSet(rows \cup {p})
  BY FS_AddElement
<1> HIDE DEF g
<1>3. \A r \in rows \cup {p} : g[r] \in Int
  BY <1>1
<1>4. Total(rows \cup {p}) = SumFunctionOnSet(g, rows \cup {p})
  BY <1>1, <1>2, TotalIsSum
<1>5. Total(rows) = SumFunctionOnSet(g, rows)
  BY <1>1, TotalIsSum
<1>6. SumFunctionOnSet(g, rows \cup {p}) = SumFunctionOnSet(g, rows) + g[p]
  BY <1>3, SumAdds
<1> QED BY <1>1, <1>4, <1>5, <1>6

(* More rows have no smaller a total.                                      *)
LEMMA TotalGrows ==
    ASSUME NEW rows, NEW more, IsFiniteSet(rows), IsFiniteSet(more),
           \A r \in rows \cup more : r.amount \in Nat
    PROVE  Total(rows) <= Total(rows \cup more)
<1> DEFINE T == {X \in SUBSET more : Total(rows) <= Total(rows \cup X)}
<1>1. ASSUME NEW X \in SUBSET more, \A Y \in SUBSET X : Y # X => Y \in T
      PROVE  X \in T
  <2>1. Total(rows) \in Nat
    BY TotalType
  <2>2. CASE X \subseteq rows
    <3>1. rows \cup X = rows
      BY <2>2
    <3> QED BY <2>1, <3>1
  <2>3. CASE ~(X \subseteq rows)
    <3>1. PICK a \in X : a \notin rows
      BY <2>3
    <3> DEFINE Y == X \ {a}
               U == rows \cup Y
    <3>2. Y \in T
      <4>1. Y \in SUBSET X /\ Y # X
        BY <3>1
      <4> QED BY ONLY <4>1, <1>1
    <3>3. a \notin U /\ rows \cup X = U \cup {a}
      BY <3>1
    <3>4. IsFiniteSet(U)
      <4>1. IsFiniteSet(Y)
        BY FS_Subset
      <4> QED BY <4>1, FS_Union
    <3>5. \A r \in U \cup {a} : r.amount \in Nat
      OBVIOUS
    <3>6. Total(rows) <= Total(U)
      BY <3>2
    <3> HIDE DEF U
    <3>7. Total(U \cup {a}) = Total(U) + a.amount /\ Total(U) \in Nat
      BY <3>3, <3>4, <3>5, TotalAdds, TotalType
    <3>8. a.amount \in Nat
      BY <3>5
    <3>9. Total(rows) <= Total(rows \cup X)
      <4>1. Total(rows \cup X) = Total(U \cup {a})
        BY <3>3
      <4> DEFINE x == Total(U \cup {a})
                 y == Total(rows)
                 z == Total(U)
      <4>2. y \in Nat /\ z \in Nat /\ y <= z /\ x = z + a.amount
        BY <2>1, <3>6, <3>7
      <4> HIDE DEF x, y, z
      <4>3. y <= x
        BY <3>8, <4>2
      <4> QED BY <4>1, <4>3 DEF x, y
    <3> QED BY <3>9
  <2> QED BY <2>2, <2>3
<1>2. SUBSET more \subseteq T
  <2> HIDE DEF T
  <2> QED BY <1>1, SubsetInduction
<1> QED BY <1>2

-----------------------------------------------------------------------------
\* Savings and shares: what requests hold

Under(r) == r.stage \notin {"idle", "ok", "failed"}

(* The record of a request by its operation.                               *)
LEMMA RequestOf ==
    ASSUME NEW r \in Requests
    PROVE  /\ r.stage # "idle" => r.op \in Operations
           /\ Under(r) =>
                /\ r.op = "deposit" => r \in Deposits
                /\ r.op = "withdraw" => r \in Withdrawals
                /\ r.op = "transfer" => r \in Transfers
                /\ r.op = "upload" => r \in Uploads
                /\ r.op = "reverse" => r \in Reversals
                /\ r.op = "delete" => r \in Deletions
                /\ r.op = "cancel" => r \in Cancellations
<1>1. CASE r \in {NoReq} \cup Answers
  BY <1>1 DEF NoReq, Answers, Under
<1>2. CASE r \in Deposits \cup Withdrawals \cup Transfers \cup Uploads
  BY <1>2 DEF Deposits, Withdrawals, Transfers, Uploads, Operations
<1>3. CASE r \in Reversals \cup Deletions \cup Cancellations
  BY <1>3 DEF Reversals, Deletions, Cancellations, Operations
<1> QED BY <1>1, <1>2, <1>3 DEF Requests

(* A request that a screen sends, or the request of a tab answered.        *)
Asked(r) ==
    /\ r \in Requests /\ r.stage \in {"idle", "sent"} /\ Fits(r)
    /\ r.op = "deposit" => r.doc \in Typed

Screened(t) ==
    /\ UNCHANGED <<book, dbVars>>
    /\ \E s \in Screen : tab' = [tab EXCEPT ![t] = s]
    /\ \E r : req' = [req EXCEPT ![t] = r] /\ (r = req[t] \/ Asked(r))

(* A step of a screen changes no row and at most sends a request of its tab.*)
LEMMA ShowScreened ==
    ASSUME RowsInv, NEW t \in Tabs, NEW s \in Screen, Show(t, s), UNCHANGED <<book, req, dbVars>>
    PROVE  Screened(t)
<1>1. req' = [req EXCEPT ![t] = req[t]]
  BY DEF RowsInv
<1> QED BY <1>1 DEF Screened, Show

LEMMA SendScreened ==
    ASSUME RowsInv, NEW t \in Tabs, NEW r, Asked(r), Send(t, r)
    PROVE  Screened(t)
<1>1. tab' = [tab EXCEPT ![t] = tab[t]] /\ tab[t] \in Screen
  BY DEF RowsInv, Send
<1> QED BY <1>1 DEF Screened, Send

LEMMA ScreenSteps ==
    ASSUME RowsInv, NEW t \in Tabs, Screens(t)
    PROVE  Screened(t)
<1> USE DEF Screen
<1>1. tab[t] \in Screen /\ req[t] \in Requests /\ Fits(req[t])
  BY DEF RowsInv
<1>2. \A s \in {"register", "new", "moves"} : Blank(s) \in Screen
  BY DEF Blank
<1>4. ASSUME NEW s \in {"register", "new", "moves"}, GotoScreen(t, s) PROVE Screened(t)
  BY <1>2, <1>4, ShowScreened DEF GotoScreen
<1>5. CASE LoadRegister(t)
  <2> DEFINE s == [tab[t] EXCEPT !.list = {p.id : p \in {q \in payments : ~q.reversed}}]
  <2>1. \A p \in payments : p.id \in Nat
    BY AccountsAssumption DEF RowsInv, AccountsTypeOK, Payment
  <2>2. s \in Screen
    BY <1>1, <2>1
  <2> QED BY <1>5, <2>2, ShowScreened DEF LoadRegister
<1>6. CASE ListMoves(t)
  <2> DEFINE s == [tab[t] EXCEPT !.list = {w.id : w \in {v \in moves : v.active}}]
  <2>1. \A w \in moves : w.id \in Nat
    BY AccountsAssumption DEF RowsInv, AccountsTypeOK, Move
  <2>2. s \in Screen
    BY <1>1, <2>1
  <2> QED BY <1>6, <2>2, ShowScreened DEF ListMoves
<1>7. ASSUME NEW d \in {"reverse", "delete", "upload"}, NEW id \in Nat, Dialog(t, d, id)
      PROVE  Screened(t)
  <2> DEFINE s == [tab[t] EXCEPT !.dialog = d, !.target = id]
  <2>1. s \in Screen
    BY <1>1
  <2> QED BY <1>7, <2>1, ShowScreened DEF Dialog
<1>8. CASE CloseDialog(t)
  <2> DEFINE s == [tab[t] EXCEPT !.dialog = "none", !.target = 0]
  <2>1. s \in Screen
    BY <1>1
  <2> QED BY <1>8, <2>1, ShowScreened DEF CloseDialog
<1>9. CASE ConfirmReverse(t)
  <2> DEFINE r == [op |-> "reverse", stage |-> "sent", id |-> tab[t].target, copy |-> {}]
  <2>1. r \in Reversals
    BY <1>1 DEF Reversals
  <2>2. Asked(r)
    BY <2>1 DEF Asked, Requests, Fits
  <2> QED BY <1>9, <2>2, SendScreened DEF ConfirmReverse
<1>10. CASE ConfirmDelete(t)
  <2> DEFINE r == [op |-> "delete", stage |-> "sent", id |-> tab[t].target]
  <2>1. r \in Deletions
    BY <1>1 DEF Deletions
  <2>2. Asked(r)
    BY <2>1 DEF Asked, Requests, Fits
  <2> QED BY <1>10, <2>2, SendScreened DEF ConfirmDelete
<1>11. CASE UploadFile(t)
  <2>1. PICK file \in SUBSET Members :
          Send(t, [op |-> "upload", stage |-> "sent", file |-> file])
    BY <1>11 DEF UploadFile
  <2> DEFINE r == [op |-> "upload", stage |-> "sent", file |-> file]
  <2>2. r \in Uploads
    BY DEF Uploads
  <2>3. Asked(r)
    BY <2>2 DEF Asked, Requests, Fits
  <2> QED BY <2>1, <2>3, SendScreened
<1>12. CASE EnterPayment(t)
  <2>1. PICK m \in Members, n \in 1..MaxAmount, d \in Typed :
          Send(t, [op |-> "deposit", stage |-> "sent", member |-> m,
                   amount |-> n, doc |-> d, row |-> 0])
    BY <1>12 DEF EnterPayment
  <2> DEFINE r == [op |-> "deposit", stage |-> "sent", member |-> m,
                   amount |-> n, doc |-> d, row |-> 0]
  <2>2. r \in Deposits
    BY AccountsAssumption DEF Deposits, Ids
  <2>3. Asked(r)
    BY <2>2 DEF Asked, Requests, Fits
  <2> QED BY <2>1, <2>3, SendScreened
<1>13. CASE EnterWithdrawal(t)
  <2>1. PICK m \in Members, n \in 1..MaxAmount :
          Send(t, [op |-> "withdraw", stage |-> "sent", member |-> m, to |-> Pool,
                   amount |-> n, doc |-> 0, move |-> 0, row |-> 0])
    BY <1>13 DEF EnterWithdrawal
  <2> DEFINE r == [op |-> "withdraw", stage |-> "sent", member |-> m, to |-> Pool,
                   amount |-> n, doc |-> 0, move |-> 0, row |-> 0]
  <2>2. r \in Withdrawals
    BY AccountsAssumption DEF Withdrawals, Ids
  <2>3. Asked(r)
    BY <1>13, <2>2 DEF Asked, Requests, Fits, EnterWithdrawal
  <2> QED BY <2>1, <2>3, SendScreened
<1>14. CASE EnterTransfer(t)
  <2>1. PICK m \in Members, n \in 1..MaxAmount, to \in Members \cup {Pool} :
          Send(t, [op |-> "transfer", stage |-> "sent", member |-> m, to |-> to,
                   amount |-> n])
    BY <1>14 DEF EnterTransfer
  <2> DEFINE r == [op |-> "transfer", stage |-> "sent", member |-> m, to |-> to, amount |-> n]
  <2>2. r \in Transfers
    BY DEF Transfers
  <2>3. Asked(r)
    BY <1>14, <2>2 DEF Asked, Requests, Fits, EnterTransfer
  <2> QED BY <2>1, <2>3, SendScreened
<1>15. CASE CancelMove(t)
  <2>1. PICK id \in tab[t].list :
          Send(t, [op |-> "cancel", stage |-> "sent", id |-> id, copy |-> {}])
    BY <1>15 DEF CancelMove
  <2> DEFINE r == [op |-> "cancel", stage |-> "sent", id |-> id, copy |-> {}]
  <2>2. r \in Cancellations
    BY <1>1 DEF Cancellations
  <2>3. Asked(r)
    BY <2>2 DEF Asked, Requests, Fits
  <2> QED BY <2>1, <2>3, SendScreened
<1>16. Asked(NoReq)
  BY DEF Asked, NoReq, Requests, Fits
<1>17. CASE Answer(t)
  <2>1. Success(t) \in Screen
    BY <1>1 DEF Success
  <2> QED BY <1>16, <1>17, <2>1 DEF Answer, Screened, Show, dbVars
<1>18. CASE Failure(t)
  <2>1. Send(t, NoReq)
    BY <1>18 DEF Failure, Send
  <2> QED BY <1>16, <2>1, SendScreened
<1>19. \A id \in tab[t].list : id \in Nat
  BY <1>1
<1>20. CASE OpenReverse(t) \/ OpenDelete(t) \/ OpenUpload(t)
  BY <1>7, <1>19, <1>20 DEF OpenReverse, OpenDelete, OpenUpload
<1> QED
  BY <1>4, <1>5, <1>6, <1>8, <1>9, <1>10, <1>11, <1>12, <1>13, <1>14, <1>15, <1>17, <1>18, <1>20
  DEF Screens, LoadWithdrawals, LoadTransfers, EnterSavings, EnterShare, CancelWithdrawal,
      CancelTransfer

-----------------------------------------------------------------------------
\* Savings and shares: types

Replies(t, r) == req' = [req EXCEPT ![t] = r] /\ UNCHANGED <<book, tab>>

(* The greatest key in the table is a key that was given out.              *)
LEMMA GreatestIs ==
    ASSUME RowsInv
    PROVE  /\ Greatest \in Nat /\ Greatest <= inserted
           /\ \A p \in payments : p.id <= Greatest
<1> DEFINE S == {p.id : p \in payments} \cup {0}
<1>1. inserted \in Nat /\ \A p \in payments : p.id \in Nat /\ p.id <= inserted
  BY AccountsAssumption DEF RowsInv, AccountsTypeOK, Payment, Ids
<1>2. S \in SUBSET Nat /\ S # {} /\ \A i \in S : i <= inserted
  BY <1>1
<1>3. IsFiniteSet(S)
  BY <1>1, <1>2, FS_BoundedSetOfNaturals
<1>4. Max(S) \in S /\ \A i \in S : Max(S) >= i
  BY <1>2, <1>3, MaxOfNumbers
<1>5. \A p \in payments : p.id \in S
  OBVIOUS
<1>6. Greatest = Max(S)
  BY DEF Greatest
<1> HIDE DEF S
<1> QED BY <1>1, <1>2, <1>4, <1>5, <1>6

(* A request fits as long as keys only go up.                               *)
LEMMA FitsStays ==
    ASSUME NEW q \in Requests, Fits(q), UNCHANGED book,
           inserted \in Nat, inserted' \in Nat, inserted <= inserted'
    PROVE  Fits(q)'
<1>1. 1..inserted \subseteq 1..inserted'
  OBVIOUS
<1>2. q.op = "reverse" /\ q.stage \in {"sent", "read"} => \A p \in q.copy : p.id \in Nat
  <2>1. ASSUME q.op = "reverse", q.stage \in {"sent", "read"} PROVE q \in Reversals
    BY <2>1, RequestOf DEF Under
  <2> QED BY <2>1, AccountsAssumption DEF Reversals, Payment
<1>3. q.op = "cancel" /\ q.stage \in {"sent", "read", "saved"} =>
        \A w \in q.copy : w.paid \in Nat
  <2>1. ASSUME q.op = "cancel", q.stage \in {"sent", "read", "saved"} PROVE q \in Cancellations
    BY <2>1, RequestOf DEF Under
  <2> QED BY <2>1, AccountsAssumption DEF Cancellations, Move, Ids
<1> QED BY <1>1, <1>2, <1>3 DEF Fits

(* The rows that are kept have their types when the request of one tab goes *)
(* on and the others have what they had.                                   *)
LEMMA RowsStep ==
    ASSUME RowsInv, NEW t \in Tabs, NEW r \in Requests, Replies(t, r), Fits(r)',
           inserted <= inserted', AccountsTypeOK', RowsKept'
    PROVE  RowsInv'
<1>1. req' \in [Tabs -> Requests] /\ book' = book /\ tab' = tab
  BY DEF RowsInv, Replies
<1>2. \A u \in Tabs : u # t => req'[u] = req[u]
  BY DEF RowsInv, Replies
<1>3. req'[t] = r
  BY DEF RowsInv, Replies
<1>4. inserted \in Nat /\ inserted' \in Nat
  BY AccountsAssumption DEF RowsInv, AccountsTypeOK, Ids
<1>5. ASSUME NEW u \in Tabs PROVE Fits(req[u])'
  <2>1. CASE u = t
    BY <1>3, <2>1 DEF Fits
  <2>2. CASE u # t
    <3>1. PICK q \in Requests : q = req[u]
      BY DEF RowsInv
    <3>2. Fits(q) /\ req'[u] = q
      BY <1>2, <2>2, <3>1 DEF RowsInv
    <3>3. Fits(q)'
      BY <1>1, <1>4, <3>2, FitsStays
    <3> QED BY <3>2, <3>3 DEF Fits
  <2> QED BY <2>1, <2>2
<1> QED BY <1>1, <1>5 DEF RowsInv

(* A step that only walks on with its request.                             *)
LEMMA Walk ==
    ASSUME RowsInv, NEW t \in Tabs, NEW r \in Requests, Replies(t, r), Fits(r),
           UNCHANGED dbVars
    PROVE  RowsInv'
<1>1. UNCHANGED <<book, payments, inserted, moves, journals>>
  BY DEF Replies, dbVars
<1>2. AccountsTypeOK' /\ RowsKept' /\ Fits(r)'
  BY <1>1 DEF RowsInv, AccountsTypeOK, RowsKept, Fits
<1>3. inserted <= inserted'
  BY <1>1, AccountsAssumption DEF RowsInv, AccountsTypeOK, Ids
<1> QED BY <1>2, <1>3, RowsStep

LEMMA DoneReply ==
    ASSUME RowsInv, NEW t \in Tabs, req[t].stage # "idle", NEW end \in {"ok", "failed"},
           Done(t, end), UNCHANGED <<book, tab>>
    PROVE  \E r \in Answers : r.op = req[t].op /\ Replies(t, r) /\ Fits(r) /\ Fits(r)'
<1>1. req[t] \in Requests /\ Fits(req[t])
  BY DEF RowsInv
<1>2. [op |-> req[t].op, stage |-> end] \in Answers
  BY <1>1, RequestOf DEF Answers
<1>3. PICK r \in Answers : r = [op |-> req[t].op, stage |-> end]
  BY <1>2
<1>4. Replies(t, r)
  BY <1>3 DEF Done, Replies
<1>5. Fits(r) /\ Fits(r)'
  BY <1>1, <1>3 DEF Fits
<1> QED BY <1>3, <1>4, <1>5

LEMMA FailTypes ==
    ASSUME RowsInv, NEW t \in Tabs, req[t].stage # "idle", Fails(t)
    PROVE  RowsInv'
<1>1. PICK r \in Answers : Replies(t, r) /\ Fits(r)
  BY DoneReply DEF Fails
<1>2. r \in Requests
  BY DEF Requests
<1> QED BY <1>1, <1>2, Walk DEF Fails

(* A step that only moves on to a stage, or reads a row.                   *)
LEMMA StageTypes ==
    ASSUME RowsInv, NEW t \in Tabs, Number(t) \/ CheckWithdrawal(t) \/ CheckTransfer(t)
    PROVE  RowsInv'
<1>1. req[t] \in Requests /\ Fits(req[t])
  BY DEF RowsInv
<1>2. CASE Number(t)
  <2> DEFINE d == IF req[t].doc = 0 THEN Greatest + 1 ELSE req[t].doc
             r == [req[t] EXCEPT !.stage = "numbered", !.doc = d]
  <2>1. d \in Nat
    <3>1. req[t].doc \in Nat
      BY <1>1, <1>2, RequestOf DEF Number, At, Under, Deposits, Withdrawals
    <3>2. Greatest \in Nat
      BY GreatestIs
    <3> QED BY <3>1, <3>2
  <2>2. r \in Requests
    <3> HIDE DEF d
    <3> QED BY <1>1, <1>2, <2>1, RequestOf DEF Number, At, Under, Deposits, Withdrawals, Requests
  <2>3. r.op = req[t].op /\ r.stage = "numbered" /\ Fits(r)
    <3> HIDE DEF d
    <3>1. r.op = req[t].op /\ r.stage = "numbered"
      BY <1>1, <1>2, RequestOf DEF Number, At, Under, Deposits, Withdrawals
    <3>2. r.op \in {"deposit", "withdraw"}
      BY <1>2, <3>1 DEF Number, At
    <3> HIDE DEF r
    <3> QED BY <1>1, <3>1, <3>2 DEF Fits
  <2>4. Replies(t, r)
    <3>1. req' = [req EXCEPT ![t] = r]
      BY <1>2 DEF Number, RowsInv
    <3> QED BY <1>2, <3>1 DEF Number, Replies
  <2>5. UNCHANGED dbVars
    BY <1>2 DEF Number
  <2> HIDE DEF r
  <2> QED BY <2>2, <2>3, <2>4, <2>5, Walk
<1>3. CASE CheckWithdrawal(t) \/ CheckTransfer(t)
  <2> DEFINE r == [req[t] EXCEPT !.stage = "checked"]
  <2>1. r \in Requests
    BY <1>1, <1>3, RequestOf DEF CheckWithdrawal, CheckTransfer, At, Under, Withdrawals, Transfers,
       Requests
  <2>2. r.op = req[t].op /\ r.stage = "checked"
    BY <1>1, <1>3, RequestOf DEF CheckWithdrawal, CheckTransfer, At, Under, Withdrawals, Transfers
  <2>3. Replies(t, r) /\ UNCHANGED dbVars
    BY <1>3 DEF CheckWithdrawal, CheckTransfer, Stage, Replies, RowsInv
  <2>4. Fits(r)
    <3> HIDE DEF r
    <3> QED BY <1>1, <1>3, <2>2 DEF Fits, CheckWithdrawal, CheckTransfer, At
  <2> HIDE DEF r
  <2> QED BY <2>1, <2>3, <2>4, Walk
<1> QED BY <1>2, <1>3

LEMMA ReadTypes ==
    ASSUME RowsInv, NEW t \in Tabs, ReadReversed(t) \/ ReadCancelled(t)
    PROVE  RowsInv'
<1>1. req[t] \in Requests /\ Fits(req[t])
  BY DEF RowsInv
<1>2. CASE ReadReversed(t)
  <2>1. PICK p \in Row(req[t].id) : IF p.reversed THEN Fails(t)
                                    ELSE /\ req' = [req EXCEPT ![t].stage = "read", ![t].copy = {p}]
                                         /\ UNCHANGED <<book, tab, dbVars>>
    BY <1>2 DEF ReadReversed
  <2>2. CASE p.reversed
    BY <1>2, <2>1, <2>2, FailTypes DEF ReadReversed, At
  <2>3. CASE ~p.reversed
    <3>1. req[t] \in Reversals
      BY <1>1, <1>2, RequestOf DEF ReadReversed, At, Under
    <3>2. p \in Payment /\ p.id = req[t].id /\ p.id <= inserted
      BY DEF RowsInv, AccountsTypeOK, Row
    <3>3. [req[t] EXCEPT !.stage = "read", !.copy = {p}] \in Reversals
      BY <3>1, <3>2 DEF Reversals
    <3>4. PICK r \in Reversals : r = [req[t] EXCEPT !.stage = "read", !.copy = {p}]
      BY <3>3
    <3>5. r.op = "reverse" /\ r.id = req[t].id /\ r.copy = {p}
      BY <3>1, <3>4 DEF Reversals
    <3>6. Replies(t, r) /\ UNCHANGED dbVars
      BY <2>1, <2>3, <3>4 DEF Replies, RowsInv
    <3>7. r \in Requests /\ Fits(r)
      BY <3>2, <3>5 DEF Fits, Requests
    <3> QED BY <3>6, <3>7, Walk
  <2> QED BY <2>2, <2>3
<1>3. CASE ReadCancelled(t)
  <2>1. PICK w \in moves : /\ w.id = req[t].id
                           /\ req' = [req EXCEPT ![t].stage = "read", ![t].copy = {w}]
    BY <1>3 DEF ReadCancelled
  <2>2. req[t] \in Cancellations
    BY <1>1, <1>3, RequestOf DEF ReadCancelled, At, Under
  <2>3. w \in Move /\ w.paid <= inserted
    BY DEF RowsInv, AccountsTypeOK, RowsKept
  <2>4. [req[t] EXCEPT !.stage = "read", !.copy = {w}] \in Cancellations
    BY <2>2, <2>3 DEF Cancellations
  <2>5. PICK r \in Cancellations : r = [req[t] EXCEPT !.stage = "read", !.copy = {w}]
    BY <2>4
  <2>6. r.op = "cancel" /\ r.copy = {w}
    BY <2>2, <2>5 DEF Cancellations
  <2>7. Replies(t, r) /\ UNCHANGED dbVars
    BY <1>3, <2>1, <2>5 DEF Replies, RowsInv, ReadCancelled
  <2>8. r \in Requests /\ Fits(r)
    BY <2>3, <2>6 DEF Fits, Requests
  <2> QED BY <2>7, <2>8, Walk
<1> QED BY <1>2, <1>3

PaymentRows ==
    /\ payments \subseteq Payment /\ IsFiniteSet(payments)
    /\ \A p \in payments : p.id <= inserted
    /\ \A p, q \in payments : p.id = q.id => p = q

MoveRows ==
    /\ moves \subseteq Move /\ IsFiniteSet(moves)
    /\ \A w \in moves : w.id <= Cardinality(moves) /\ w.paid <= inserted
    /\ \A v, w \in moves : v.id = w.id => v = w

(* The rows by themselves.                                                  *)
LEMMA RowsAre ==
    RowsInv => /\ PaymentRows /\ MoveRows
               /\ journals \subseteq Journal /\ inserted \in Ids /\ inserted \in Nat
BY AccountsAssumption DEF RowsInv, AccountsTypeOK, RowsKept, PaymentRows, MoveRows, Ids

(* A step on the rows of a request that goes on to r.                      *)
LEMMA RowsChange ==
    ASSUME RowsInv, NEW t \in Tabs, NEW r \in Requests, Replies(t, r), Fits(r)',
           inserted <= inserted', inserted' \in Ids, PaymentRows', MoveRows',
           journals' \subseteq Journal
    PROVE  RowsInv'
<1>1. AccountsTypeOK' /\ RowsKept'
  BY DEF AccountsTypeOK, RowsKept, PaymentRows, MoveRows
<1> QED BY <1>1, RowsStep

LEMMA SameMoves ==
    ASSUME RowsInv, inserted' \in Nat, inserted <= inserted', UNCHANGED moves
    PROVE  MoveRows'
<1>1. \A w \in moves : w.paid \in Nat
  BY AccountsAssumption, RowsAre DEF MoveRows, Move, Ids
<1> QED BY <1>1, RowsAre DEF MoveRows

LEMMA SamePayments ==
    ASSUME RowsInv, UNCHANGED <<inserted, payments>>
    PROVE  PaymentRows'
BY RowsAre DEF PaymentRows

(* Moves rewritten in place.                                               *)
LEMMA MovesRewritten ==
    ASSUME RowsInv, NEW f \in [moves -> Move], moves' = {f[w] : w \in moves}, UNCHANGED inserted,
           \A w \in moves : f[w].id = w.id /\ f[w].paid <= inserted
    PROVE  MoveRows'
<1>1. IsFiniteSet(moves) /\ \A v, w \in moves : v.id = w.id => v = w
  BY RowsAre DEF MoveRows
<1>2. \A v, w \in moves : f[v] = f[w] => v = w
  BY <1>1
<1>3. IsFiniteSet(moves') /\ Cardinality(moves') = Cardinality(moves)
  <2>1. f \in [moves -> moves']
    OBVIOUS
  <2>2. \A x \in moves' : \E w \in moves : f[w] = x
    OBVIOUS
  <2> QED BY ONLY <1>1, <1>2, <2>1, <2>2, CardinalityOfImage
<1>4. \A w \in moves : w.id <= Cardinality(moves)
  BY RowsAre DEF MoveRows
<1>5. \A x \in moves' : \E w \in moves : x = f[w]
  OBVIOUS
<1>6. \A x \in moves' : x.id <= Cardinality(moves') /\ x.paid <= inserted'
  BY <1>3, <1>4, <1>5
<1>7. \A x, y \in moves' : x.id = y.id => x = y
  BY <1>1, <1>5
<1> QED BY <1>3, <1>5, <1>6, <1>7 DEF MoveRows

(* A payment whose copy is saved as reversed.                              *)
LEMMA PaymentsReversed ==
    ASSUME RowsInv, NEW i, NEW P \in SUBSET Payment, UNCHANGED inserted,
           \A p \in P : p.id = i /\ p.id <= inserted, \A p, q \in P : p = q,
           payments' = (payments \ Row(i)) \cup Reversed(P)
    PROVE  PaymentRows'
<1>1. \A p \in P : [p EXCEPT !.reversed = TRUE] \in Payment
                   /\ [p EXCEPT !.reversed = TRUE].id = i
  BY DEF Payment
<1>2. \A q \in Reversed(P) : q \in Payment /\ q.id = i /\ q.id <= inserted
  BY <1>1 DEF Reversed
<1>3. \A q, s \in Reversed(P) : q = s
  BY DEF Reversed
<1>4. \A q \in payments \ Row(i) : q.id # i
  BY DEF Row
<1>5. PaymentRows /\ IsFiniteSet(payments \ Row(i))
  BY RowsAre, FS_Difference DEF PaymentRows
<1>6. IsFiniteSet(payments')
  <2>1. CASE Reversed(P) = {}
    BY <1>5, <2>1
  <2>2. CASE Reversed(P) # {}
    <3>1. PICK q : Reversed(P) = {q}
      BY <1>3, <2>2
    <3> QED BY <1>5, <3>1, FS_AddElement
  <2> QED BY <2>1, <2>2
<1> QED BY <1>2, <1>3, <1>4, <1>5, <1>6 DEF PaymentRows

LEMMA InsertTypes ==
    ASSUME RowsInv, NEW t \in Tabs, Insert(t)
    PROVE  RowsInv'
<1> DEFINE new == [id |-> inserted + 1, member |-> req[t].member,
                   way |-> IF req[t].op = "withdraw" THEN "out" ELSE "in",
                   amount |-> req[t].amount, doc |-> req[t].doc, reversed |-> FALSE]
<1>1. req[t] \in Requests /\ Fits(req[t])
  BY DEF RowsInv
<1>2. req[t].stage = "numbered" /\ req[t] \in Deposits \cup Withdrawals
  BY <1>1 DEF Insert, Requests, NoReq, Transfers, Uploads, Reversals, Deletions, Cancellations, Answers
<1>3. inserted \in Nat /\ inserted + 1 \in 1..MaxRow
  <2>1. inserted + 1 <= MaxRow
    BY DEF Insert, Room
  <2> QED BY <2>1, RowsAre, AccountsAssumption
<1>4. new \in Payment
  BY <1>2, <1>3 DEF Payment, Deposits, Withdrawals
<1>5. payments' = payments \cup {new} /\ inserted' = inserted + 1
  BY DEF Insert
<1> HIDE DEF new
<1>6. new.id = inserted + 1
  BY DEF new
<1>7. PaymentRows'
  <2>1. PaymentRows /\ IsFiniteSet(payments \cup {new})
    BY RowsAre, FS_AddElement DEF PaymentRows
  <2>2. \A p \in payments : p.id \in Nat
    BY <2>1 DEF PaymentRows, Payment
  <2>3. IsFiniteSet(payments')
    BY <1>5, <2>1
  <2>4. payments' \subseteq Payment
    BY <1>4, <1>5, <2>1 DEF PaymentRows
  <2>5. \A p \in payments' : p.id <= inserted'
    BY <1>3, <1>5, <1>6, <2>1, <2>2 DEF PaymentRows
  <2>6. \A p, q \in payments' : p.id = q.id => p = q
    <3>1. \A p \in payments : p.id # new.id
      BY <1>3, <1>6, <2>1, <2>2 DEF PaymentRows
    <3> QED BY <1>5, <2>1, <3>1 DEF PaymentRows
  <2> QED BY <2>3, <2>4, <2>5, <2>6 DEF PaymentRows
<1>8. [req[t] EXCEPT !.stage = "inserted", !.row = inserted + 1] \in Deposits \cup Withdrawals
  <2>1. \A i \in Ids : [req[t] EXCEPT !.stage = "inserted", !.row = i] \in Deposits \cup Withdrawals
    BY <1>2 DEF Deposits, Withdrawals
  <2>2. inserted + 1 \in Ids
    BY <1>3 DEF Ids
  <2> QED BY <2>1, <2>2
<1>9. PICK r \in Requests : r = [req[t] EXCEPT !.stage = "inserted", !.row = inserted + 1]
  BY <1>8 DEF Requests
<1>10. r.op = req[t].op /\ r.row = inserted + 1 /\ r.stage = "inserted"
  BY <1>2, <1>9 DEF Deposits, Withdrawals
<1>11. Replies(t, r)
  BY <1>9 DEF Insert, Replies, RowsInv
<1>12. Fits(r)'
  <2>1. r.op \in {"deposit", "withdraw"}
    BY <1>2, <1>10 DEF Deposits, Withdrawals
  <2>2. book' = book
    BY DEF Insert
  <2> QED BY <1>1, <1>3, <1>5, <1>10, <2>1, <2>2 DEF Fits
<1>13. MoveRows'
  BY <1>3, <1>5, SameMoves DEF Insert
<1>14. journals' \subseteq Journal
  BY RowsAre DEF Insert
<1>15. inserted' \in Ids /\ inserted <= inserted'
  BY <1>3, <1>5 DEF Ids
<1> QED BY <1>7, <1>11, <1>12, <1>13, <1>14, <1>15, RowsChange

LEMMA PostTypes ==
    ASSUME RowsInv, NEW t \in Tabs, Post(t)
    PROVE  RowsInv'
<1>1. req[t] \in Deposits /\ req[t].stage = "inserted"
  BY RequestOf DEF Post, At, Under, RowsInv
<1>2. PICK r \in Answers : Replies(t, r) /\ Fits(r)'
  BY <1>1, DoneReply DEF Post, Ok
<1>3. \A j \in journals' : j \in journals \/ j = [of |-> req[t].row, doc |-> req[t].doc]
  BY DEF Post
<1>4. UNCHANGED <<payments, inserted, moves>>
  BY DEF Post
<1>5. PaymentRows' /\ MoveRows'
  BY <1>4, RowsAre, SamePayments DEF MoveRows
<1>6. [of |-> req[t].row, doc |-> req[t].doc] \in Journal
  <2>1. req[t].row \in 1..inserted
    BY <1>1 DEF RowsInv, Fits, Deposits
  <2>2. req[t].row \in 1..MaxRow
    BY <2>1, RowsAre, AccountsAssumption DEF Ids
  <2> QED BY <1>1, <2>2 DEF Journal, Deposits
<1>7. journals' \subseteq Journal
  BY <1>3, <1>6, RowsAre
<1>8. inserted' \in Ids /\ inserted <= inserted'
  BY <1>4, RowsAre
<1>9. r \in Requests
  BY DEF Requests
<1> QED BY <1>2, <1>5, <1>7, <1>8, <1>9, RowsChange

LEMMA MoveTypes ==
    ASSUME RowsInv, NEW t \in Tabs, InsertMove(t)
    PROVE  RowsInv'
<1> DEFINE id == Cardinality(moves) + 1
           new == [id |-> id, from |-> req[t].member, to |-> req[t].to,
                   amount |-> req[t].amount, active |-> TRUE, paid |-> 0]
<1>1. req[t] \in Requests /\ Fits(req[t])
  BY DEF RowsInv
<1>2. req[t].stage = "checked" /\ req[t] \in Withdrawals \cup Transfers
  BY <1>1 DEF InsertMove, Requests, NoReq, Deposits, Uploads, Reversals, Deletions, Cancellations,
     Answers
<1>3. MoveRows /\ Cardinality(moves) \in Nat /\ inserted \in Nat
  BY RowsAre, FS_CardinalityType DEF MoveRows
<1>4. id \in 1..MaxWrites
  <2>1. inserted + Cardinality(moves) + 0 + 1 <= MaxWrites
    BY DEF InsertMove, Room
  <2> QED BY <1>3, <2>1, AccountsAssumption
<1>5. new \in Move
  BY <1>2, <1>4, AccountsAssumption DEF Move, Withdrawals, Transfers, Ids
<1>6. moves' = moves \cup {new} /\ UNCHANGED <<book, tab, payments, inserted, journals>>
  BY DEF InsertMove
<1>7. new.id = Cardinality(moves) + 1 /\ new.paid = 0
  OBVIOUS
<1> HIDE DEF new, id
<1>8. MoveRows'
  <2>1. \A w \in moves : w.id \in Nat /\ w.id <= Cardinality(moves)
    BY <1>3, AccountsAssumption DEF MoveRows, Move
  <2>2. new \notin moves
    BY <1>3, <1>7, <2>1
  <2>3. IsFiniteSet(moves') /\ Cardinality(moves') = Cardinality(moves) + 1
    BY <1>3, <1>6, <2>2, FS_AddElement DEF MoveRows
  <2>4. \A w \in moves' : w.id <= Cardinality(moves') /\ w.paid <= inserted'
    BY <1>3, <1>6, <1>7, <2>1, <2>3 DEF MoveRows
  <2>5. \A v, w \in moves' : v.id = w.id => v = w
    <3>1. \A w \in moves : w.id # new.id
      BY <1>3, <1>7, <2>1
    <3> QED BY <1>3, <1>6, <3>1 DEF MoveRows
  <2>6. moves' \subseteq Move
    BY <1>3, <1>5, <1>6 DEF MoveRows
  <2> QED BY <2>3, <2>4, <2>5, <2>6 DEF MoveRows
<1>9. PaymentRows' /\ journals' \subseteq Journal /\ inserted' \in Ids /\ inserted <= inserted'
  BY <1>3, <1>6, RowsAre, SamePayments
<1>10. \E r \in Requests : Replies(t, r) /\ Fits(r)'
  <2>1. CASE req[t].op = "transfer"
    <3>1. Ok(t)
      BY <2>1 DEF InsertMove
    <3>2. PICK r \in Answers : Replies(t, r) /\ Fits(r)'
      BY <1>2, <1>6, <3>1, DoneReply DEF Ok
    <3> QED BY <3>2 DEF Requests
  <2>2. CASE req[t].op # "transfer"
    <3>1. req[t] \in Withdrawals
      BY <1>2, <2>2 DEF Transfers
    <3>2. [req[t] EXCEPT !.stage = "moved", !.move = id] \in Withdrawals
      <4>1. \A i \in Nat : [req[t] EXCEPT !.stage = "moved", !.move = i] \in Withdrawals
        BY <3>1 DEF Withdrawals
      <4>2. id \in Nat
        BY <1>4, AccountsAssumption
      <4> QED BY <4>1, <4>2
    <3>3. PICK r \in Withdrawals : r = [req[t] EXCEPT !.stage = "moved", !.move = id]
      BY <3>2
    <3>4. r.op = "withdraw" /\ r.stage = "moved"
      BY <3>1, <3>3 DEF Withdrawals
    <3>5. req' = [req EXCEPT ![t].stage = "moved", ![t].move = id]
      BY <2>2 DEF InsertMove, id
    <3>6. Replies(t, r)
      BY <1>6, <3>3, <3>5 DEF Replies, RowsInv
    <3>7. Fits(r)'
      <4>1. book = "savings"
        BY <1>1, <3>1 DEF Fits, Withdrawals
      <4> QED BY <1>6, <3>4, <4>1 DEF Fits
    <3> QED BY <3>6, <3>7 DEF Requests
  <2> QED BY <2>1, <2>2
<1> QED BY <1>8, <1>9, <1>10, RowsChange

LEMMA LinkTypes ==
    ASSUME RowsInv, NEW t \in Tabs, Link(t)
    PROVE  RowsInv'
<1>1. req[t] \in Withdrawals /\ req[t].stage = "inserted" /\ Fits(req[t])
  BY RequestOf DEF Link, At, Under, RowsInv
<1>2. CASE Row(req[t].row) = {}
  BY <1>1, <1>2, FailTypes DEF Link
<1>3. CASE Row(req[t].row) # {}
  <2>1. UNCHANGED <<book, tab, payments, inserted, journals>> /\ Ok(t)
    BY <1>3 DEF Link
  <2> DEFINE f == [w \in moves |-> IF w.id = req[t].move THEN [w EXCEPT !.paid = req[t].row] ELSE w]
  <2>2. moves' = {f[w] : w \in moves}
    BY <1>3 DEF Link
  <2>3. MoveRows /\ req[t].row \in Ids /\ req[t].row <= inserted
    BY <1>1, RowsAre DEF Fits, Withdrawals
  <2>4. \A w \in moves : /\ f[w] \in Move
                         /\ f[w].id = w.id /\ f[w].paid <= inserted
    BY <2>3 DEF MoveRows, Move
  <2>5. f \in [moves -> Move]
    BY <2>4
  <2> HIDE DEF f
  <2>6. MoveRows'
    BY <2>1, <2>2, <2>4, <2>5, MovesRewritten
  <2>7. PaymentRows' /\ journals' \subseteq Journal /\ inserted' \in Ids /\ inserted <= inserted'
    BY <2>1, RowsAre, SamePayments
  <2>8. PICK r \in Answers : Replies(t, r) /\ Fits(r)'
    BY <1>1, <2>1, DoneReply DEF Ok
  <2>9. r \in Requests
    BY DEF Requests
  <2> QED BY <2>6, <2>7, <2>8, <2>9, RowsChange
<1> QED BY <1>2, <1>3

LEMMA ReverseTypes ==
    ASSUME RowsInv, NEW t \in Tabs, Reverse(t)
    PROVE  RowsInv'
<1>1. req[t] \in Reversals /\ req[t].stage = "read" /\ Fits(req[t])
  BY RequestOf DEF Reverse, At, Under, RowsInv
<1>2. UNCHANGED <<book, tab, inserted, journals>> /\ Ok(t)
  BY DEF Reverse
<1> DEFINE f == [w \in moves |-> IF w.paid = req[t].id THEN [w EXCEPT !.active = FALSE] ELSE w]
<1>3. moves' = {f[w] : w \in moves}
  BY DEF Reverse
<1>4. MoveRows
  BY RowsAre
<1>5. \A w \in moves : f[w] \in Move /\ f[w].id = w.id /\ f[w].paid <= inserted
  BY <1>4 DEF MoveRows, Move
<1>6. f \in [moves -> Move]
  BY <1>5
<1> HIDE DEF f
<1>7. MoveRows'
  BY <1>2, <1>3, <1>5, <1>6, MovesRewritten
<1>8. PaymentRows'
  <2>1. payments' = (payments \ Row(req[t].id)) \cup Reversed(req[t].copy)
    BY DEF Reverse
  <2>2. req[t].copy \in SUBSET Payment
    BY <1>1 DEF Reversals
  <2>3. /\ \A p \in req[t].copy : p.id = req[t].id /\ p.id <= inserted
        /\ \A p, q \in req[t].copy : p = q
    BY <1>1 DEF Fits, Reversals
  <2> QED BY <1>2, <2>1, <2>2, <2>3, PaymentsReversed
<1>9. journals' \subseteq Journal /\ inserted' \in Ids /\ inserted <= inserted'
  BY <1>2, RowsAre
<1>10. PICK r \in Answers : Replies(t, r) /\ Fits(r)'
  BY <1>1, <1>2, DoneReply DEF Ok
<1>11. r \in Requests
  BY DEF Requests
<1> QED BY <1>7, <1>8, <1>9, <1>10, <1>11, RowsChange

(* Removing a payment clears its key from the moves.                       *)
LEMMA RemoveRows ==
    ASSUME RowsInv, NEW id, Remove(id), UNCHANGED inserted
    PROVE  PaymentRows' /\ MoveRows'
<1> DEFINE f == [w \in moves |-> IF w.paid = id THEN [w EXCEPT !.paid = 0] ELSE w]
<1>1. moves' = {f[w] : w \in moves}
  BY DEF Remove
<1>2. PaymentRows /\ MoveRows /\ inserted \in Nat
  BY RowsAre
<1>3. \A w \in moves : f[w] \in Move /\ f[w].id = w.id /\ f[w].paid <= inserted
  BY <1>2, AccountsAssumption DEF MoveRows, Move, Ids
<1>4. f \in [moves -> Move]
  BY <1>3
<1> HIDE DEF f
<1>5. MoveRows'
  BY <1>1, <1>3, <1>4, MovesRewritten
<1>6. payments' \subseteq payments /\ IsFiniteSet(payments')
  BY <1>2, FS_Subset DEF Remove, PaymentRows
<1> QED BY <1>2, <1>5, <1>6 DEF PaymentRows

LEMMA DeleteTypes ==
    ASSUME RowsInv, NEW t \in Tabs,
           DeleteSavings(t) \/ DeleteSharesJournal(t) \/ DeleteShares(t)
    PROVE  RowsInv'
<1>1. req[t] \in Deletions /\ Fits(req[t])
  BY RequestOf DEF DeleteSavings, DeleteSharesJournal, DeleteShares, At, Under, RowsInv
<1>2. req[t].stage # "idle"
  BY DEF DeleteSavings, DeleteSharesJournal, DeleteShares, At
<1>3. CASE DeleteSavings(t) \/ DeleteShares(t)
  <2>1. Remove(req[t].id) /\ Ok(t) /\ UNCHANGED <<book, tab, inserted, journals>>
    BY <1>3 DEF DeleteSavings, DeleteShares
  <2>2. PaymentRows' /\ MoveRows'
    BY <2>1, RemoveRows
  <2>3. PICK r \in Answers : Replies(t, r) /\ Fits(r)'
    BY <1>2, <2>1, DoneReply DEF Ok
  <2>4. r \in Requests
    BY DEF Requests
  <2>5. journals' \subseteq Journal /\ inserted' \in Ids /\ inserted <= inserted'
    BY <2>1, RowsAre
  <2> QED BY <2>2, <2>3, <2>4, <2>5, RowsChange
<1>4. CASE DeleteSharesJournal(t)
  <2>1. UNCHANGED <<book, tab, payments, inserted, moves>> /\ Stage(t, "unposted")
        /\ journals' \subseteq journals
    BY <1>4 DEF DeleteSharesJournal
  <2>2. [req[t] EXCEPT !.stage = "unposted"] \in Deletions
    BY <1>1 DEF Deletions
  <2>3. PICK r \in Deletions : r = [req[t] EXCEPT !.stage = "unposted"]
    BY <2>2
  <2>4. Replies(t, r) /\ r \in Requests
    BY <2>1, <2>3 DEF Stage, Replies, Requests, RowsInv
  <2>5. Fits(r)'
    BY DEF Fits, Deletions
  <2>6. PaymentRows' /\ MoveRows' /\ journals' \subseteq Journal /\ inserted' \in Ids
        /\ inserted <= inserted'
    BY <2>1, RowsAre, SamePayments, SameMoves
  <2> QED BY <2>4, <2>5, <2>6, RowsChange
<1> QED BY <1>3, <1>4

LEMMA CancelTypes ==
    ASSUME RowsInv, NEW t \in Tabs, SaveCancelled(t) \/ ReturnCancelled(t)
    PROVE  RowsInv'
<1>1. req[t] \in Cancellations /\ Fits(req[t]) /\ req[t].stage \in {"read", "saved"}
      /\ req[t].op = "cancel"
  BY RequestOf DEF SaveCancelled, ReturnCancelled, At, Under, RowsInv
<1>2. CASE SaveCancelled(t)
  <2>1. PICK w \in req[t].copy :
          IF w.paid # 0 /\ Row(w.paid) = {} THEN Fails(t)
          ELSE /\ moves' = {IF v.id = w.id THEN [w EXCEPT !.active = FALSE] ELSE v : v \in moves}
               /\ IF w.paid = 0 THEN Ok(t) ELSE Stage(t, "saved")
               /\ UNCHANGED <<book, tab, payments, inserted, journals>>
    BY <1>2 DEF SaveCancelled
  <2>2. CASE w.paid # 0 /\ Row(w.paid) = {}
    BY <1>1, <2>1, <2>2, FailTypes
  <2>3. CASE ~(w.paid # 0 /\ Row(w.paid) = {})
    <3>1. w \in Move /\ w.paid <= inserted
      BY <1>1 DEF Cancellations, Fits
    <3> DEFINE f == [v \in moves |-> IF v.id = w.id THEN [w EXCEPT !.active = FALSE] ELSE v]
    <3>2. moves' = {f[v] : v \in moves} /\ UNCHANGED <<book, tab, payments, inserted, journals>>
      BY <2>1, <2>3
    <3>3. MoveRows
      BY RowsAre
    <3>4. \A v \in moves : f[v] \in Move /\ f[v].id = v.id /\ f[v].paid <= inserted
      BY <3>1, <3>3 DEF MoveRows, Move
    <3>5. f \in [moves -> Move]
      BY <3>4
    <3> HIDE DEF f
    <3>6. MoveRows'
      BY <3>2, <3>4, <3>5, MovesRewritten
    <3>7. PaymentRows' /\ journals' \subseteq Journal /\ inserted' \in Ids /\ inserted <= inserted'
      BY <3>2, RowsAre, SamePayments
    <3>8. \E r \in Requests : Replies(t, r) /\ Fits(r)'
      <4>1. CASE w.paid = 0
        <5>1. PICK r \in Answers : Replies(t, r) /\ Fits(r)'
          BY <1>1, <2>1, <2>3, <3>2, <4>1, DoneReply DEF Ok
        <5> QED BY <5>1 DEF Requests
      <4>2. CASE w.paid # 0
        <5>1. [req[t] EXCEPT !.stage = "saved"] \in Cancellations
          BY <1>1 DEF Cancellations
        <5>2. PICK r \in Cancellations : r = [req[t] EXCEPT !.stage = "saved"]
          BY <5>1
        <5>3. Stage(t, "saved")
          BY <2>1, <2>3, <4>2
        <5>4. Replies(t, r)
          BY <3>2, <5>2, <5>3 DEF Stage, Replies, RowsInv
        <5>5. r.op = "cancel" /\ r.copy = req[t].copy
          BY <1>1, <5>2 DEF Cancellations
        <5>6. Fits(r)'
          BY <1>1, <3>2, <5>5 DEF Fits
        <5> QED BY <5>4, <5>6 DEF Requests
      <4> QED BY <4>1, <4>2
    <3> QED BY <3>6, <3>7, <3>8, RowsChange
  <2> QED BY <2>2, <2>3
<1>3. CASE ReturnCancelled(t)
  <2>1. PICK w \in req[t].copy :
          payments' = (payments \ Row(w.paid)) \cup Reversed(Row(w.paid))
    BY <1>3 DEF ReturnCancelled
  <2>2. UNCHANGED <<book, tab, inserted, moves, journals>> /\ Ok(t)
    BY <1>3 DEF ReturnCancelled
  <2>3. PaymentRows
    BY RowsAre
  <2>4. /\ Row(w.paid) \in SUBSET Payment
        /\ \A p \in Row(w.paid) : p.id = w.paid /\ p.id <= inserted
        /\ \A p, q \in Row(w.paid) : p = q
    BY <2>3 DEF Row, PaymentRows
  <2>5. PaymentRows'
    BY <2>1, <2>2, <2>4, PaymentsReversed
  <2>6. PICK r \in Answers : Replies(t, r) /\ Fits(r)'
    BY <1>1, <2>2, DoneReply DEF Ok
  <2>7. r \in Requests
    BY DEF Requests
  <2>8. MoveRows' /\ journals' \subseteq Journal /\ inserted' \in Ids /\ inserted <= inserted'
    BY <2>2, RowsAre, SameMoves
  <2> QED BY <2>5, <2>6, <2>7, <2>8, RowsChange
<1> QED BY <1>2, <1>3

(* The lines of a file become rows with the next keys.                     *)
Uploaded(t, new) ==
    /\ payments' = payments \cup new /\ IsFiniteSet(new)
    /\ inserted' \in Ids /\ inserted <= inserted'
    /\ journals' = journals \cup {[of |-> p.id, doc |-> p.doc] : p \in new}
    /\ \A p \in new :
         /\ p \in Payment /\ p.way = "in" /\ inserted < p.id /\ p.id <= inserted'
         /\ p.doc = IF p.id = inserted + 1 THEN Greatest + 1 ELSE p.id
    /\ \A p, q \in new : p.id = q.id => p = q

LEMMA UploadRows ==
    ASSUME RowsInv, NEW t \in Tabs, Upload(t)
    PROVE  \E new : Uploaded(t, new)
<1>1. req[t] \in Uploads
  BY RequestOf DEF Upload, At, Under, RowsInv
<1> DEFINE lines == Cardinality(req[t].file)
           ids == inserted + 1 .. inserted + lines
<1>2. lines \in Nat /\ inserted \in Nat
  <2>1. IsFiniteSet(req[t].file)
    BY <1>1, FS_Subset, AccountsAssumption DEF Uploads
  <2> QED BY <2>1, FS_CardinalityType, RowsAre
<1>3. PICK who \in Bijection(ids, req[t].file) :
        LET new == {[id |-> i, member |-> who[i], way |-> "in", amount |-> 1,
                     doc |-> IF i = inserted + 1 THEN Greatest + 1 ELSE i,
                     reversed |-> FALSE] : i \in ids} IN
        /\ payments' = payments \cup new
        /\ journals' = journals \cup {[of |-> p.id, doc |-> p.doc] : p \in new}
  BY DEF Upload
<1> DEFINE line(i) == [id |-> i, member |-> who[i], way |-> "in", amount |-> 1,
                       doc |-> IF i = inserted + 1 THEN Greatest + 1 ELSE i, reversed |-> FALSE]
           new == {line(i) : i \in ids}
<1>4. inserted' = inserted + lines /\ inserted + lines <= MaxRow
  BY DEF Upload, Room
<1>5. Greatest \in Nat
  BY GreatestIs
<1>6. \A i \in ids : who[i] \in Members /\ i \in 1..MaxRow /\ inserted < i /\ i <= inserted'
  <2>1. \A i \in ids : who[i] \in Members
    BY <1>1 DEF Bijection, Injection, Surjection, Uploads
  <2>2. \A i \in ids : i \in 1..MaxRow /\ inserted < i /\ i <= inserted'
    BY <1>2, <1>4, AccountsAssumption
  <2> QED BY <2>1, <2>2
<1>7. \A i \in ids : /\ line(i) \in Payment /\ line(i).id = i /\ line(i).way = "in"
                     /\ line(i).doc = IF i = inserted + 1 THEN Greatest + 1 ELSE i
  <2> HIDE DEF ids
  <2>1. \A i \in ids : (IF i = inserted + 1 THEN Greatest + 1 ELSE i) \in Nat
    BY <1>5, <1>6
  <2>2. 1 \in 1..MaxAmount
    BY AccountsAssumption
  <2> QED BY <1>6, <2>1, <2>2 DEF Payment
<1>8. IsFiniteSet(new)
  <2> DEFINE f == [i \in ids |-> line(i)]
  <2>1. f \in [ids -> new] /\ \A x \in new : \E i \in ids : f[i] = x
    OBVIOUS
  <2>2. \A i, j \in ids : f[i] = f[j] => i = j
    <3>1. \A i \in ids : f[i] = line(i) /\ line(i).id = i
      BY <1>7
    <3> HIDE DEF f, line, ids
    <3> QED BY <3>1
  <2>3. IsFiniteSet(ids)
    <3> HIDE DEF f, new, line, lines
    <3>1. inserted + 1 \in Int /\ inserted + lines \in Int
      BY <1>2
    <3> QED BY <3>1, FS_Interval
  <2> HIDE DEF f, new, ids
  <2> QED BY <2>1, <2>2, <2>3, CardinalityOfImage
<1>9. \A p \in new : \E i \in ids : p = line(i)
  OBVIOUS
<1>10. payments' = payments \cup new /\ journals' = journals \cup {[of |-> p.id, doc |-> p.doc] : p \in new}
  BY <1>3
<1>11. inserted' \in Ids /\ inserted <= inserted'
  BY <1>2, <1>4, AccountsAssumption DEF Ids
<1> HIDE DEF new, line, ids
<1>12. \A p \in new :
         /\ p \in Payment /\ p.way = "in" /\ inserted < p.id /\ p.id <= inserted'
         /\ p.doc = IF p.id = inserted + 1 THEN Greatest + 1 ELSE p.id
  BY <1>6, <1>7, <1>9
<1>13. \A p, q \in new : p.id = q.id => p = q
  BY <1>7, <1>9
<1> QED BY <1>8, <1>10, <1>11, <1>12, <1>13 DEF Uploaded

LEMMA UploadTypes ==
    ASSUME RowsInv, NEW t \in Tabs, Upload(t)
    PROVE  RowsInv'
<1>1. PICK new : Uploaded(t, new)
  BY UploadRows
<1>2. inserted \in Nat /\ inserted' \in Nat
  BY <1>1, RowsAre, AccountsAssumption DEF Uploaded, Ids
<1>3. PaymentRows'
  <2>1. PaymentRows
    BY RowsAre
  <2>2. IsFiniteSet(payments')
    BY <1>1, <2>1, FS_Union DEF Uploaded, PaymentRows
  <2>3. \A p \in payments : p.id \in Nat /\ p.id <= inserted
    BY <2>1 DEF PaymentRows, Payment
  <2>4. \A p \in new : p.id \in Nat /\ inserted < p.id
    BY <1>1 DEF Uploaded, Payment
  <2>5. payments' \subseteq Payment
    BY <1>1, <2>1 DEF Uploaded, PaymentRows
  <2>6. \A p \in payments' : p.id <= inserted'
    BY <1>1, <1>2, <2>3 DEF Uploaded
  <2>7. \A p \in payments, q \in new : p.id # q.id
    BY <1>2, <2>3, <2>4
  <2>8. \A p, q \in payments' : p.id = q.id => p = q
    BY <1>1, <2>1, <2>7 DEF Uploaded, PaymentRows
  <2> QED BY <2>2, <2>5, <2>6, <2>8 DEF PaymentRows
<1>4. journals' \subseteq Journal
  <2>1. \A p \in new : [of |-> p.id, doc |-> p.doc] \in Journal
    BY <1>1 DEF Uploaded, Payment, Journal
  <2> QED BY <1>1, <2>1, RowsAre DEF Uploaded
<1>5. UNCHANGED <<book, tab, moves>> /\ Ok(t) /\ req[t].stage # "idle"
  BY DEF Upload, At
<1>6. MoveRows'
  BY <1>1, <1>2, <1>5, SameMoves DEF Uploaded
<1>7. PICK r \in Answers : Replies(t, r) /\ Fits(r)'
  BY <1>5, DoneReply DEF Ok
<1>8. r \in Requests
  BY DEF Requests
<1>9. inserted <= inserted' /\ inserted' \in Ids
  BY <1>1 DEF Uploaded
<1> QED BY <1>3, <1>4, <1>6, <1>7, <1>8, <1>9, RowsChange

LEMMA ScreensTypes ==
    ASSUME RowsInv, NEW t \in Tabs, Screens(t)
    PROVE  RowsInv'
<1>1. Screened(t)
  BY ScreenSteps
<1>2. UNCHANGED <<book, payments, inserted, moves, journals>>
  BY <1>1 DEF Screened, dbVars
<1>3. tab' \in [Tabs -> Screen]
  BY <1>1 DEF Screened, RowsInv
<1>4. PICK r : req' = [req EXCEPT ![t] = r] /\ (r = req[t] \/ Asked(r))
  BY <1>1 DEF Screened
<1>5. r \in Requests /\ Fits(r)
  BY <1>4 DEF Asked, RowsInv
<1>6. req' \in [Tabs -> Requests]
  BY <1>4, <1>5 DEF RowsInv
<1>7. \A u \in Tabs : Fits(req'[u])
  BY <1>4, <1>5 DEF RowsInv
<1>8. AccountsTypeOK' /\ RowsKept'
  BY <1>2 DEF RowsInv, AccountsTypeOK, RowsKept
<1>9. \A u \in Tabs : Fits(req[u])'
  BY <1>2, <1>7 DEF Fits
<1> QED BY <1>2, <1>3, <1>6, <1>8, <1>9 DEF RowsInv

LEMMA ServerTypes ==
    ASSUME RowsInv, NEW t \in Tabs, Server(t)
    PROVE  RowsInv'
<1>1. CASE RefuseMove(t) \/ NotFound(t) \/ Dies(t)
  <2>1. req[t].stage # "idle" /\ Fails(t)
    BY <1>1 DEF RefuseMove, NotFound, Dies, At, Served
  <2> QED BY <2>1, FailTypes
<1> QED BY <1>1, StageTypes, ReadTypes, InsertTypes, PostTypes, MoveTypes, LinkTypes, ReverseTypes,
       DeleteTypes, CancelTypes, UploadTypes DEF Server

(* Every step of the system.                                                *)
LEMMA NextRows ==
    ASSUME RowsInv, [AccountsNext]_accountsVars
    PROVE  RowsInv'
<1>1. CASE UNCHANGED accountsVars
  BY <1>1 DEF accountsVars, dbVars, RowsInv, AccountsTypeOK, RowsKept, Fits
<1>2. CASE AccountsNext
  BY <1>2, ScreensTypes, ServerTypes DEF AccountsNext
<1> QED BY <1>1, <1>2

LEMMA InitRows == AccountsInit => RowsInv
<1> SUFFICES ASSUME AccountsInit PROVE RowsInv
  OBVIOUS
<1>1. NoReq \in Requests /\ Blank("register") \in Screen
  BY DEF Requests, Blank, Screen
<1>2. AccountsTypeOK
  BY AccountsAssumption DEF AccountsInit, AccountsTypeOK, Ids
<1>3. RowsKept
  BY FS_EmptySet DEF AccountsInit, RowsKept
<1>4. \A t \in Tabs : Fits(req[t])
  BY DEF AccountsInit, Fits, NoReq
<1> QED BY <1>1, <1>2, <1>3, <1>4 DEF AccountsInit, RowsInv

(* AccountsTypeOK, for any members, tabs, requests at once and document     *)
(* numbers typed: rows keep keys of their own, and no reversal that saves a *)
(* copy and no cancellation gives a key to two of them.                    *)
THEOREM AccountsTypes == AccountsSpec => []AccountsTypeOK
<1>1. RowsInv => AccountsTypeOK
  BY DEF RowsInv
<1> QED BY <1>1, InitRows, NextRows, PTL DEF AccountsSpec

-----------------------------------------------------------------------------
\* Savings and shares: one request at a time

(* Only the request of its tab changes.                                    *)
Others(t) == \A u \in Tabs : u # t => req'[u] = req[u]

(* What each step of the server makes of the request of its tab.            *)
LEMMA AfterDone ==
    ASSUME RowsInv, NEW t \in Tabs, Fails(t) \/ Ok(t)
    PROVE  Others(t) /\ req'[t].stage \in {"ok", "failed"}
<1>1. PICK s \in {"ok", "failed"} : req' = [req EXCEPT ![t] = [op |-> req[t].op, stage |-> s]]
  BY DEF Fails, Ok, Done
<1> QED BY <1>1 DEF RowsInv, Others

LEMMA AfterNumber ==
    ASSUME RowsInv, NEW t \in Tabs, Number(t)
    PROVE  /\ Others(t) /\ req'[t].op = req[t].op /\ req'[t].member = req[t].member
           /\ req'[t].amount = req[t].amount /\ req'[t].stage = "numbered"
           /\ req[t].op = "withdraw" => req'[t].move = req[t].move
           /\ req'[t].doc = IF req[t].doc = 0 THEN Greatest + 1 ELSE req[t].doc
           /\ req[t].stage # "numbered"
<1>1. req[t] \in Deposits \cup Withdrawals /\ req[t].stage # "numbered"
      /\ (req[t].op = "withdraw" => req[t] \in Withdrawals)
  BY RequestOf DEF Number, At, Under, RowsInv
<1>2. PICK d : d = IF req[t].doc = 0 THEN Greatest + 1 ELSE req[t].doc
  OBVIOUS
<1> DEFINE r == [req[t] EXCEPT !.stage = "numbered", !.doc = d]
<1>3. req' = [req EXCEPT ![t] = r]
  BY <1>2 DEF Number, RowsInv
<1>4. /\ r.op = req[t].op /\ r.member = req[t].member /\ r.amount = req[t].amount
      /\ r.stage = "numbered" /\ r.doc = d
  BY <1>1 DEF Deposits, Withdrawals
<1>5. req[t].op = "withdraw" => r.move = req[t].move
  BY <1>1 DEF Withdrawals
<1> HIDE DEF r
<1> QED BY <1>1, <1>2, <1>3, <1>4, <1>5 DEF RowsInv, Others

LEMMA AfterCheck ==
    ASSUME RowsInv, NEW t \in Tabs, CheckWithdrawal(t) \/ CheckTransfer(t)
    PROVE  /\ Others(t) /\ req'[t].op = req[t].op /\ req'[t].member = req[t].member
           /\ req'[t].to = req[t].to /\ req'[t].amount = req[t].amount
           /\ req'[t].stage = "checked" /\ req[t].stage # "checked"
<1>1. req[t] \in Withdrawals \cup Transfers /\ req[t].stage # "checked"
  BY RequestOf DEF CheckWithdrawal, CheckTransfer, At, Under, RowsInv
<1> DEFINE r == [req[t] EXCEPT !.stage = "checked"]
<1>2. req' = [req EXCEPT ![t] = r]
  BY DEF CheckWithdrawal, CheckTransfer, Stage
<1>3. /\ r.op = req[t].op /\ r.member = req[t].member /\ r.to = req[t].to
      /\ r.amount = req[t].amount /\ r.stage = "checked"
  BY <1>1 DEF Withdrawals, Transfers
<1> HIDE DEF r
<1> QED BY <1>1, <1>2, <1>3 DEF RowsInv, Others

LEMMA AfterRead ==
    ASSUME RowsInv, NEW t \in Tabs, ReadReversed(t) \/ ReadCancelled(t), ~Fails(t)
    PROVE  /\ Others(t) /\ req'[t].op = req[t].op
           /\ req'[t].id = req[t].id /\ req'[t].stage = "read" /\ req[t].stage # "read"
           /\ ReadReversed(t) => \E p \in payments : p.id = req[t].id /\ req'[t].copy = {p}
           /\ ReadCancelled(t) => \E w \in moves : w.id = req[t].id /\ req'[t].copy = {w}
           /\ UNCHANGED dbVars
<1>1. req[t] \in Reversals \cup Cancellations /\ req[t].stage # "read"
  BY RequestOf DEF ReadReversed, ReadCancelled, At, Under, RowsInv
<1>2. PICK x : /\ req' = [req EXCEPT ![t].stage = "read", ![t].copy = {x}]
               /\ ReadReversed(t) => x \in payments /\ x.id = req[t].id
               /\ ReadCancelled(t) => x \in moves /\ x.id = req[t].id
  BY DEF ReadReversed, ReadCancelled, At, Row
<1> DEFINE r == [req[t] EXCEPT !.stage = "read", !.copy = {x}]
<1>3. req' = [req EXCEPT ![t] = r]
  BY <1>2 DEF RowsInv
<1>4. r.op = req[t].op /\ r.id = req[t].id /\ r.stage = "read" /\ r.copy = {x}
  BY <1>1 DEF Reversals, Cancellations
<1>5. UNCHANGED dbVars
  BY DEF ReadReversed, ReadCancelled
<1> HIDE DEF r
<1> QED BY <1>1, <1>2, <1>3, <1>4, <1>5 DEF RowsInv, Others

LEMMA AfterInsert ==
    ASSUME RowsInv, NEW t \in Tabs, Insert(t)
    PROVE  /\ Others(t) /\ req[t].op \in {"deposit", "withdraw"} /\ req[t] \in Deposits \cup Withdrawals
           /\ req'[t].op = req[t].op
           /\ req'[t].amount = req[t].amount /\ req'[t].doc = req[t].doc
           /\ req'[t].stage = "inserted" /\ req'[t].row = inserted + 1
           /\ req[t].op = "withdraw" => req'[t].move = req[t].move
           /\ req[t].stage # "inserted"
<1>1. req[t] \in Deposits \cup Withdrawals /\ req[t].stage # "inserted"
      /\ req[t].op \in {"deposit", "withdraw"}
      /\ (req[t].op = "withdraw" => req[t] \in Withdrawals)
  BY DEF Insert, RowsInv, Requests, NoReq, Transfers, Uploads, Reversals, Deletions, Cancellations,
     Answers, Deposits, Withdrawals
<1>2. PICK i : i = inserted + 1
  OBVIOUS
<1> DEFINE r == [req[t] EXCEPT !.stage = "inserted", !.row = i]
<1>3. /\ r.op = req[t].op /\ r.amount = req[t].amount /\ r.doc = req[t].doc
      /\ r.stage = "inserted" /\ r.row = i
  BY <1>1 DEF Deposits, Withdrawals
<1>4. req[t].op = "withdraw" => r.move = req[t].move
  BY <1>1 DEF Withdrawals
<1>5. req' = [req EXCEPT ![t] = r]
  BY <1>2 DEF Insert, RowsInv
<1> HIDE DEF r
<1> QED BY <1>1, <1>2, <1>3, <1>4, <1>5 DEF RowsInv, Others

LEMMA AfterMove ==
    ASSUME RowsInv, NEW t \in Tabs, InsertMove(t)
    PROVE  /\ Others(t)
           /\ \/ req[t].op = "transfer" /\ req[t] \in Transfers /\ Ok(t)
              \/ /\ req[t].op = "withdraw" /\ req[t] \in Withdrawals
                 /\ req'[t].op = "withdraw" /\ req'[t].member = req[t].member
                 /\ req'[t].amount = req[t].amount /\ req'[t].stage = "moved"
                 /\ req'[t].move = Cardinality(moves) + 1
<1>1. \/ req[t] \in Transfers /\ req[t].op = "transfer"
      \/ req[t] \in Withdrawals /\ req[t].op = "withdraw"
  BY DEF InsertMove, RowsInv, Requests, NoReq, Deposits, Uploads, Reversals, Deletions,
     Cancellations, Answers, Withdrawals, Transfers
<1>2. CASE req[t].op = "transfer"
  BY <1>1, <1>2, AfterDone DEF InsertMove, Withdrawals
<1>3. CASE req[t] \in Withdrawals /\ req[t].op = "withdraw"
  <2>1. PICK i : i = Cardinality(moves) + 1
    OBVIOUS
  <2> DEFINE r == [req[t] EXCEPT !.stage = "moved", !.move = i]
  <2>2. /\ r.op = req[t].op /\ r.amount = req[t].amount /\ r.member = req[t].member
        /\ r.stage = "moved" /\ r.move = i
    BY <1>3 DEF Withdrawals
  <2>3. req' = [req EXCEPT ![t] = r]
    BY <1>3, <2>1 DEF InsertMove, RowsInv
  <2> HIDE DEF r
  <2> QED BY <1>3, <2>1, <2>2, <2>3 DEF RowsInv, Others
<1> QED BY <1>1, <1>2, <1>3

LEMMA AfterStage ==
    ASSUME RowsInv, NEW t \in Tabs, NEW s \in {"unposted", "saved"}, Stage(t, s),
           DeleteSharesJournal(t) \/ SaveCancelled(t)
    PROVE  /\ Others(t) /\ req'[t].op = req[t].op /\ req'[t].stage = s /\ req'[t].id = req[t].id
           /\ SaveCancelled(t) => req'[t].copy = req[t].copy
           /\ req[t].stage # s
<1>1. req[t] \in Deletions \cup Cancellations
      /\ (SaveCancelled(t) => req[t] \in Cancellations)
  BY RequestOf DEF DeleteSharesJournal, SaveCancelled, At, Under, RowsInv
<1>2. req[t].stage # "unposted" /\ req[t].stage # "saved"
  BY DEF DeleteSharesJournal, SaveCancelled, At
<1> DEFINE r == [req[t] EXCEPT !.stage = s]
<1>3. r.op = req[t].op /\ r.stage = s /\ r.id = req[t].id
  BY <1>1 DEF Deletions, Cancellations
<1>4. SaveCancelled(t) => r.copy = req[t].copy
  BY <1>1 DEF Cancellations
<1>5. req' = [req EXCEPT ![t] = r]
  BY DEF Stage
<1> HIDE DEF r
<1> QED BY <1>2, <1>3, <1>4, <1>5 DEF RowsInv, Others

(* What is under way beside a request that the server works on: nothing.   *)
LEMMA ServedAlone ==
    ASSUME ~Overlap, RowsInv, OneServed, NEW t \in Tabs, Server(t)
    PROVE  /\ \A u \in Tabs : u # t => u \notin Served /\ req'[u] = req[u]
           /\ t \notin Served => Served = {}
           /\ req[t].stage \notin {"idle", "ok", "failed"}
           /\ book' = book /\ req'[t] # req[t]
<1>1. /\ req[t].stage \notin {"idle", "ok", "failed"} /\ book' = book
  <2>1. CASE RefuseMove(t) \/ NotFound(t) \/ Dies(t) \/ Number(t) \/ CheckWithdrawal(t)
             \/ CheckTransfer(t) \/ ReadReversed(t) \/ ReadCancelled(t)
    BY <2>1 DEF RefuseMove, NotFound, Dies, Number, CheckWithdrawal, CheckTransfer, ReadReversed,
       ReadCancelled, At, Served, Fails
  <2>2. CASE Insert(t) \/ Post(t) \/ InsertMove(t) \/ Link(t) \/ Upload(t) \/ Reverse(t)
    BY <2>2 DEF Insert, Post, InsertMove, Link, Upload, Reverse, At, Fails
  <2>3. CASE DeleteSavings(t) \/ DeleteSharesJournal(t) \/ DeleteShares(t)
             \/ SaveCancelled(t) \/ ReturnCancelled(t)
    BY <2>3 DEF DeleteSavings, DeleteSharesJournal, DeleteShares, SaveCancelled, ReturnCancelled,
       At, Fails
  <2> QED BY <2>1, <2>2, <2>3 DEF Server
<1>2. Others(t) /\ req'[t].stage # req[t].stage
  <2>1. CASE Fails(t) \/ Ok(t)
    BY <1>1, <2>1, AfterDone
  <2>2. CASE Number(t) \/ CheckWithdrawal(t) \/ CheckTransfer(t) \/ Insert(t)
    BY <2>2, AfterNumber, AfterCheck, AfterInsert
  <2>3. CASE ReadReversed(t) \/ ReadCancelled(t)
    BY <2>1, <2>3, AfterRead
  <2>4. CASE InsertMove(t)
    <3>1. req[t].stage # "moved"
      BY <2>4 DEF InsertMove
    <3> QED BY <2>1, <2>4, <3>1, AfterMove
  <2>5. CASE DeleteSharesJournal(t) \/ SaveCancelled(t)
    <3>1. Fails(t) \/ Ok(t) \/ \E s \in {"unposted", "saved"} : Stage(t, s)
      BY <2>5 DEF DeleteSharesJournal, SaveCancelled
    <3> QED BY <2>1, <2>5, <3>1, AfterStage
  <2>6. CASE RefuseMove(t) \/ NotFound(t) \/ Dies(t) \/ Post(t) \/ Upload(t) \/ Reverse(t)
             \/ DeleteSavings(t) \/ DeleteShares(t) \/ ReturnCancelled(t) \/ Link(t)
    <3>1. Fails(t) \/ Ok(t)
      BY <2>6 DEF RefuseMove, NotFound, Dies, Post, Upload, Reverse, DeleteSavings, DeleteShares,
         ReturnCancelled, Link
    <3> QED BY <2>1, <3>1
  <2> QED BY <2>2, <2>3, <2>4, <2>5, <2>6 DEF Server
<1>3. t \notin Served => req[t].stage = "sent"
  BY <1>1 DEF Served
<1>4. \A u \in Tabs : u # t => u \notin Served
  BY <1>2, <1>3 DEF OneServed, Overlap
<1>5. t \notin Served => Served = {}
  BY <1>4 DEF Served
<1> QED BY <1>1, <1>2, <1>4, <1>5 DEF Others

LEMMA NextServed ==
    ASSUME ~Overlap, RowsInv, OneServed, [AccountsNext]_accountsVars
    PROVE  OneServed'
<1>1. CASE UNCHANGED accountsVars
  BY <1>1 DEF accountsVars, OneServed, Served
<1>2. ASSUME NEW t \in Tabs, Screens(t) PROVE OneServed'
  <2>1. PICK r : req' = [req EXCEPT ![t] = r] /\ (r = req[t] \/ Asked(r))
    BY <1>2, ScreenSteps DEF Screened
  <2>2. \A u \in Tabs : req'[u] = req[u] \/ req'[u].stage \in {"idle", "sent"}
    BY <2>1 DEF Asked, RowsInv
  <2>3. Served' \subseteq Served
    BY <2>2 DEF Served
  <2> QED BY <2>3 DEF OneServed
<1>3. ASSUME NEW t \in Tabs, Server(t) PROVE OneServed'
  <2>1. \A u \in Tabs : u # t => u \notin Served /\ req'[u] = req[u]
    BY <1>3, ServedAlone
  <2>2. Served' \subseteq {t}
    BY <2>1 DEF Served
  <2> QED BY <2>2 DEF OneServed
<1> QED BY <1>1, <1>2, <1>3 DEF AccountsNext

-----------------------------------------------------------------------------
\* Savings and shares: no account is overdrawn

(* Balances are sums of numbers over finite sets.                           *)
LEMMA AccountTotals ==
    ASSUME RowsInv, NEW m
    PROVE  /\ \A way \in {"in", "out"} :
                /\ IsFiniteSet(Live(m, way)) /\ \A p \in Live(m, way) : p.amount \in Nat
                /\ Total(Live(m, way)) \in Nat
           /\ IsFiniteSet(MovedIn(m)) /\ (\A w \in MovedIn(m) : w.amount \in Nat)
           /\ Total(MovedIn(m)) \in Nat
           /\ IsFiniteSet(MovedOut(m)) /\ (\A w \in MovedOut(m) : w.amount \in Nat)
           /\ Total(MovedOut(m)) \in Nat
           /\ SavingsBalance(m) \in Int /\ ShareBalance(m) \in Int
<1>1. PaymentRows /\ MoveRows
  BY RowsAre
<1>2. /\ \A p \in payments : p.amount \in Nat
      /\ \A w \in moves : w.amount \in Nat
  BY <1>1, AccountsAssumption DEF PaymentRows, MoveRows, Payment, Move
<1>3. ASSUME NEW way \in {"in", "out"}
      PROVE  /\ IsFiniteSet(Live(m, way)) /\ \A p \in Live(m, way) : p.amount \in Nat
             /\ Total(Live(m, way)) \in Nat
  <2>1. IsFiniteSet(Live(m, way))
    BY <1>1, FS_Subset DEF PaymentRows, Live
  <2>2. \A p \in Live(m, way) : p.amount \in Nat
    BY <1>2 DEF Live
  <2> QED BY <2>1, <2>2, TotalType
<1>4. IsFiniteSet(MovedIn(m)) /\ IsFiniteSet(MovedOut(m))
  BY <1>1, FS_Subset DEF MoveRows, MovedIn, MovedOut
<1>5. (\A w \in MovedIn(m) : w.amount \in Nat) /\ (\A w \in MovedOut(m) : w.amount \in Nat)
  BY <1>2 DEF MovedIn, MovedOut
<1>6. Total(MovedIn(m)) \in Nat /\ Total(MovedOut(m)) \in Nat
  BY <1>4, <1>5, TotalType
<1>7. SavingsBalance(m) \in Int /\ ShareBalance(m) \in Int
  <2>1. Total(Live(m, "in")) \in Nat /\ Total(Live(m, "out")) \in Nat
    BY <1>3
  <2> QED BY <1>6, <2>1 DEF SavingsBalance, ShareBalance
<1> QED BY <1>3, <1>4, <1>5, <1>6, <1>7

(* What an account gets and gives when one payment is entered.             *)
LEMMA PaymentEntered ==
    ASSUME RowsInv, NEW p, p.way \in {"in", "out"}, ~p.reversed, p.amount \in Nat, p \notin payments,
           payments' = payments \cup {p}, UNCHANGED moves, NEW m
    PROVE  /\ p.member = m /\ p.way = "in" =>
                SavingsBalance(m)' = SavingsBalance(m) + p.amount
                /\ ShareBalance(m)' = ShareBalance(m) + p.amount
           /\ p.member = m /\ p.way = "out" =>
                SavingsBalance(m)' = SavingsBalance(m) - p.amount
                /\ ShareBalance(m)' = ShareBalance(m)
           /\ p.member # m =>
                SavingsBalance(m)' = SavingsBalance(m) /\ ShareBalance(m)' = ShareBalance(m)
<1>1. MovedIn(m)' = MovedIn(m) /\ MovedOut(m)' = MovedOut(m)
  BY DEF MovedIn, MovedOut
<1>2. ASSUME NEW way \in {"in", "out"}
      PROVE  Live(m, way)' = IF p.member = m /\ p.way = way THEN Live(m, way) \cup {p}
                                                             ELSE Live(m, way)
  BY DEF Live
<1>3. ASSUME NEW way \in {"in", "out"}
      PROVE  Total(Live(m, way) \cup {p}) = Total(Live(m, way)) + p.amount
  <2>1. p \notin Live(m, way)
    BY DEF Live
  <2> QED BY <2>1, AccountTotals, TotalAdds
<1>4. "in" # "out" /\ "in" \in {"in", "out"} /\ "out" \in {"in", "out"}
  OBVIOUS
<1>5. ASSUME NEW way \in {"in", "out"}
      PROVE  Total(Live(m, way))' = IF p.member = m /\ p.way = way
                                      THEN Total(Live(m, way)) + p.amount
                                      ELSE Total(Live(m, way))
  <2>1. CASE p.member = m /\ p.way = way
    <3>1. Live(m, way)' = Live(m, way) \cup {p}
      BY <1>2, <2>1
    <3> QED BY <1>3, <2>1, <3>1
  <2>2. CASE ~(p.member = m /\ p.way = way)
    <3>1. Live(m, way)' = Live(m, way)
      BY <1>2, <2>2
    <3> QED BY <2>2, <3>1
  <2> QED BY <2>1, <2>2
<1> DEFINE a == Total(Live(m, "in"))
           b == Total(Live(m, "out"))
           i == Total(MovedIn(m))
           o == Total(MovedOut(m))
<1>6. a \in Nat /\ b \in Nat /\ i \in Nat /\ o \in Nat
  BY AccountTotals
<1>7. i' = i /\ o' = o
  BY <1>1
<1>8. a' = IF p.member = m /\ p.way = "in" THEN a + p.amount ELSE a
  BY <1>5
<1>9. b' = IF p.member = m /\ p.way = "out" THEN b + p.amount ELSE b
  BY <1>5
<1>10. SavingsBalance(m) = a - b /\ ShareBalance(m) = a + i - o
       /\ SavingsBalance(m)' = a' - b' /\ ShareBalance(m)' = a' + i' - o'
  BY DEF SavingsBalance, ShareBalance
<1> HIDE DEF a, b, i, o
<1> QED BY <1>4, <1>6, <1>7, <1>8, <1>9, <1>10

(* What an account gets and gives when one move is entered.                *)
LEMMA MoveEntered ==
    ASSUME RowsInv, NEW w, w.active, w.amount \in Nat, w \notin moves, w.from # w.to,
           moves' = moves \cup {w}, UNCHANGED payments, NEW m
    PROVE  /\ SavingsBalance(m)' = SavingsBalance(m)
           /\ ShareBalance(m)' = IF w.from = m THEN ShareBalance(m) - w.amount
                                 ELSE IF w.to = m THEN ShareBalance(m) + w.amount
                                 ELSE ShareBalance(m)
<1> DEFINE a == Total(Live(m, "in"))
           b == Total(Live(m, "out"))
           i == Total(MovedIn(m))
           o == Total(MovedOut(m))
<1>1. a \in Nat /\ b \in Nat /\ i \in Nat /\ o \in Nat
  BY AccountTotals
<1>2. a' = a /\ b' = b
  BY DEF Live
<1>3. MovedOut(m)' = IF w.from = m THEN MovedOut(m) \cup {w} ELSE MovedOut(m)
  BY DEF MovedOut
<1>4. MovedIn(m)' = IF w.to = m THEN MovedIn(m) \cup {w} ELSE MovedIn(m)
  BY DEF MovedIn
<1>5. Total(MovedOut(m) \cup {w}) = o + w.amount /\ Total(MovedIn(m) \cup {w}) = i + w.amount
  <2>1. w \notin MovedOut(m) /\ w \notin MovedIn(m)
    BY DEF MovedOut, MovedIn
  <2> QED BY <2>1, AccountTotals, TotalAdds
<1>6. o' = IF w.from = m THEN o + w.amount ELSE o
  <2>1. CASE w.from = m
    BY <1>3, <1>5, <2>1
  <2>2. CASE w.from # m
    BY <1>3, <2>2
  <2> QED BY <2>1, <2>2
<1>7. i' = IF w.to = m THEN i + w.amount ELSE i
  <2>1. CASE w.to = m
    BY <1>4, <1>5, <2>1
  <2>2. CASE w.to # m
    BY <1>4, <2>2
  <2> QED BY <2>1, <2>2
<1>8. SavingsBalance(m) = a - b /\ ShareBalance(m) = a + i - o
      /\ SavingsBalance(m)' = a' - b' /\ ShareBalance(m)' = a' + i' - o'
  BY DEF SavingsBalance, ShareBalance
<1> HIDE DEF a, b, i, o
<1> QED BY <1>1, <1>2, <1>6, <1>7, <1>8

(* A file credits accounts and debits none.                                *)
LEMMA UploadCredits ==
    ASSUME RowsInv, RowsInv', NEW t, NEW new, Uploaded(t, new), UNCHANGED moves, NEW m
    PROVE  /\ SavingsBalance(m) <= SavingsBalance(m)' /\ ShareBalance(m) <= ShareBalance(m)'
           /\ SavingsBalance(m)' \in Int /\ ShareBalance(m)' \in Int
<1> DEFINE a == Total(Live(m, "in"))
           b == Total(Live(m, "out"))
           i == Total(MovedIn(m))
           o == Total(MovedOut(m))
           more == {p \in new : p.member = m /\ ~p.reversed}
<1>1. a \in Nat /\ b \in Nat /\ i \in Nat /\ o \in Nat
  BY AccountTotals
<1>2. i' = i /\ o' = o
  BY DEF MovedIn, MovedOut
<1>3. Live(m, "in")' = Live(m, "in") \cup more
  BY DEF Uploaded, Live
<1>4. Live(m, "out")' = Live(m, "out")
  BY DEF Uploaded, Live
<1>5. a <= Total(Live(m, "in") \cup more)
  <2>1. IsFiniteSet(more)
    BY FS_Subset DEF Uploaded
  <2>2. IsFiniteSet(Live(m, "in")) /\ \A p \in Live(m, "in") : p.amount \in Nat
    BY AccountTotals
  <2>3. \A p \in more : p.amount \in Nat
    BY AccountsAssumption DEF Uploaded, Payment
  <2> HIDE DEF more
  <2> QED BY <2>1, <2>2, <2>3, TotalGrows
<1>6. a' \in Nat
  <2>1. IsFiniteSet(Live(m, "in") \cup more)
    <3>1. IsFiniteSet(more)
      BY FS_Subset DEF Uploaded
    <3> QED BY <3>1, AccountTotals, FS_Union
  <2>2. \A p \in Live(m, "in") \cup more : p.amount \in Nat
    <3>1. \A p \in more : p.amount \in Nat
      BY AccountsAssumption DEF Uploaded, Payment
    <3> QED BY <3>1, AccountTotals
  <2> HIDE DEF more
  <2> QED BY <1>3, <2>1, <2>2, TotalType
<1>7. a <= a' /\ b' = b
  BY <1>3, <1>4, <1>5
<1>8. SavingsBalance(m) = a - b /\ ShareBalance(m) = a + i - o
      /\ SavingsBalance(m)' = a' - b' /\ ShareBalance(m)' = a' + i' - o'
  BY DEF SavingsBalance, ShareBalance
<1> HIDE DEF a, b, i, o, more
<1>9. PICK c : c = a'
  OBVIOUS
<1>10. c \in Nat /\ a <= c /\ SavingsBalance(m)' = c - b /\ ShareBalance(m)' = c + i - o
  BY <1>2, <1>6, <1>7, <1>8, <1>9
<1>11. a - b <= c - b /\ a + i - o <= c + i - o /\ c - b \in Int /\ c + i - o \in Int
  BY <1>1, <1>10
<1> QED BY <1>8, <1>10, <1>11

(* A step of the server that is not of a reversal, a deletion or a         *)
(* cancellation takes no account below zero.                               *)
LEMMA StaysCovered ==
    ASSUME ~Overlap, CoverInv, NEW t \in Tabs, Server(t),
           req[t].op \notin {"reverse", "delete", "cancel"}, NEW m \in Members, Balance(m) >= 0
    PROVE  Balance(m)' \in Int /\ Balance(m)' >= 0
<1>1. RowsInv /\ RowsInv' /\ Covered(t) /\ book' = book /\ book \in {"savings", "shares"}
  <2>1. AccountsNext /\ RowsInv
    BY DEF AccountsNext, CoverInv
  <2> QED BY <2>1, NextRows, ServedAlone DEF CoverInv, RowsInv
<1>2. SavingsBalance(m) \in Int /\ ShareBalance(m) \in Int
  BY <1>1, AccountTotals
<1>3. ASSUME UNCHANGED <<payments, moves>> PROVE Balance(m)' \in Int /\ Balance(m)' >= 0
  <2>1. SavingsBalance(m)' = SavingsBalance(m) /\ ShareBalance(m)' = ShareBalance(m)
    BY <1>3 DEF SavingsBalance, ShareBalance, Live, MovedIn, MovedOut
  <2> QED BY <1>1, <1>2, <2>1 DEF Balance
<1>4. CASE Insert(t)
  <2> DEFINE p == [id |-> inserted + 1, member |-> req[t].member,
                   way |-> IF req[t].op = "withdraw" THEN "out" ELSE "in",
                   amount |-> req[t].amount, doc |-> req[t].doc, reversed |-> FALSE]
  <2>1. payments' = payments \cup {p} /\ UNCHANGED moves /\ req[t].stage = "numbered"
    BY <1>4 DEF Insert
  <2>2. req[t] \in Deposits \cup Withdrawals /\ req[t].op \in {"deposit", "withdraw"}
    BY <1>1, <1>4, AfterInsert
  <2>3. /\ p.id = inserted + 1 /\ p.member = req[t].member /\ p.amount = req[t].amount
        /\ p.way = IF req[t].op = "withdraw" THEN "out" ELSE "in"
        /\ ~p.reversed
    OBVIOUS
  <2>4. p.amount \in Nat
    BY <2>2, <2>3, AccountsAssumption DEF Deposits, Withdrawals
  <2>5. p \notin payments
    BY <1>1, <2>3, RowsAre DEF PaymentRows
  <2> HIDE DEF p
  <2>6. /\ p.member = m /\ p.way = "in" =>
             SavingsBalance(m)' = SavingsBalance(m) + p.amount
             /\ ShareBalance(m)' = ShareBalance(m) + p.amount
        /\ p.member = m /\ p.way = "out" =>
             SavingsBalance(m)' = SavingsBalance(m) - p.amount
             /\ ShareBalance(m)' = ShareBalance(m)
        /\ p.member # m =>
             SavingsBalance(m)' = SavingsBalance(m) /\ ShareBalance(m)' = ShareBalance(m)
    <3>1. p.way \in {"in", "out"}
      BY <2>3
    <3> QED BY <1>1, <2>1, <2>3, <2>4, <2>5, <3>1, PaymentEntered
  <2>7. p.way = "out" /\ p.member = m => p.amount <= SavingsBalance(m)
    BY <1>1, <2>1, <2>2, <2>3 DEF Covered
  <2>8. p.way = "in" \/ p.way = "out"
    BY <2>3
  <2> QED BY <1>1, <1>2, <2>4, <2>6, <2>7, <2>8 DEF Balance
<1>5. CASE Upload(t)
  <2>1. PICK new : Uploaded(t, new)
    BY <1>1, <1>5, UploadRows
  <2>2. UNCHANGED moves
    BY <1>5 DEF Upload
  <2>3. /\ SavingsBalance(m) <= SavingsBalance(m)' /\ ShareBalance(m) <= ShareBalance(m)'
        /\ SavingsBalance(m)' \in Int /\ ShareBalance(m)' \in Int
    BY <1>1, <2>1, <2>2, UploadCredits
  <2> QED BY <1>1, <1>2, <2>3 DEF Balance
<1>6. CASE InsertMove(t)
  <2> DEFINE w == [id |-> Cardinality(moves) + 1, from |-> req[t].member, to |-> req[t].to,
                   amount |-> req[t].amount, active |-> TRUE, paid |-> 0]
  <2>1. moves' = moves \cup {w} /\ UNCHANGED payments /\ req[t].stage = "checked"
    BY <1>6 DEF InsertMove
  <2>2. \/ req[t].op = "transfer" /\ req[t] \in Transfers
        \/ req[t].op = "withdraw" /\ req[t] \in Withdrawals
    BY <1>1, <1>6, AfterMove
  <2>3. /\ w.id = Cardinality(moves) + 1 /\ w.from = req[t].member /\ w.to = req[t].to
        /\ w.amount = req[t].amount /\ w.active
    OBVIOUS
  <2>4. w.amount \in Nat
    BY <2>2, <2>3, AccountsAssumption DEF Transfers, Withdrawals
  <2>5. w \notin moves
    <3>1. IsFiniteSet(moves) /\ \A v \in moves : v.id <= Cardinality(moves)
      BY <1>1 DEF RowsInv, RowsKept
    <3>2. Cardinality(moves) \in Nat
      BY <3>1, FS_CardinalityType
    <3> QED BY <2>3, <3>1, <3>2
  <2>6. w.from # w.to
    BY <1>1, <2>1, <2>2, <2>3, AccountsAssumption DEF Covered, Withdrawals
  <2> HIDE DEF w
  <2>7. /\ SavingsBalance(m)' = SavingsBalance(m)
        /\ ShareBalance(m)' = IF w.from = m THEN ShareBalance(m) - w.amount
                              ELSE IF w.to = m THEN ShareBalance(m) + w.amount
                              ELSE ShareBalance(m)
    BY <1>1, <2>1, <2>3, <2>4, <2>5, <2>6, MoveEntered
  <2>8. book = "shares" => req[t].op = "transfer"
    BY <1>1, <2>2 DEF RowsInv, Fits
  <2>9. book = "shares" /\ w.from = m => w.amount <= ShareBalance(m)
    BY <1>1, <2>1, <2>3, <2>8 DEF Covered
  <2> QED BY <1>1, <1>2, <2>4, <2>7, <2>9 DEF Balance
<1>7. CASE Link(t)
  <2>1. UNCHANGED payments /\ req[t].op = "withdraw"
    BY <1>7 DEF Link, At, Fails, dbVars
  <2>2. book = "savings"
    BY <1>1, <2>1 DEF RowsInv, Fits
  <2>3. SavingsBalance(m)' = SavingsBalance(m)
    BY <2>1 DEF SavingsBalance, Live
  <2> QED BY <1>1, <1>2, <2>2, <2>3 DEF Balance
<1>8. CASE Number(t) \/ Post(t) \/ CheckWithdrawal(t) \/ CheckTransfer(t) \/ RefuseMove(t)
           \/ NotFound(t) \/ Dies(t)
  <2>1. UNCHANGED <<payments, moves>>
    BY <1>8 DEF Number, Post, CheckWithdrawal, CheckTransfer, RefuseMove, NotFound, Dies, Fails, dbVars
  <2> QED BY <1>3, <2>1
<1>9. ~(\/ ReadReversed(t) \/ Reverse(t) \/ DeleteSavings(t) \/ DeleteSharesJournal(t)
        \/ DeleteShares(t) \/ ReadCancelled(t) \/ SaveCancelled(t) \/ ReturnCancelled(t))
  BY DEF ReadReversed, Reverse, DeleteSavings, DeleteSharesJournal, DeleteShares, ReadCancelled,
     SaveCancelled, ReturnCancelled, At
<1> QED BY <1>4, <1>5, <1>6, <1>7, <1>8, <1>9 DEF Server

(* Every step of the system.                                                *)
LEMMA NextCovered ==
    ASSUME ~Overlap, CoverInv, [AccountsNext]_accountsVars
    PROVE  CoverInv'
<1>1. RowsInv /\ OneServed /\ RowsInv' /\ OneServed'
  BY NextRows, NextServed DEF CoverInv
<1>2. ASSUME UNCHANGED <<payments, moves>>, NEW m
      PROVE  SavingsBalance(m)' = SavingsBalance(m) /\ ShareBalance(m)' = ShareBalance(m)
  BY <1>2 DEF SavingsBalance, ShareBalance, Live, MovedIn, MovedOut
<1>3. ASSUME NEW u \in Tabs, req'[u].stage \notin {"checked", "moved", "numbered"}
      PROVE  Covered(u)'
  BY <1>3 DEF Covered
<1>4. ASSUME NEW u \in Tabs, req'[u] = req[u], UNCHANGED <<payments, moves>>
      PROVE  Covered(u)'
  <2>1. Covered(u)
    BY DEF CoverInv
  <2>2. \A m : SavingsBalance(m)' = SavingsBalance(m) /\ ShareBalance(m)' = ShareBalance(m)
    BY <1>2, <1>4
  <2> QED BY <1>4, <2>1, <2>2 DEF Covered
<1>5. CASE UNCHANGED accountsVars
  <2>1. UNCHANGED <<payments, moves>> /\ req' = req
    BY <1>5 DEF accountsVars, dbVars
  <2> QED BY <1>1, <1>4, <2>1 DEF CoverInv
<1>6. ASSUME NEW t \in Tabs, Screens(t), NEW u \in Tabs PROVE Covered(u)'
  <2>1. UNCHANGED <<payments, moves>> /\ \E r : req' = [req EXCEPT ![t] = r] /\ (r = req[t] \/ Asked(r))
    BY <1>6, ScreenSteps, <1>1 DEF Screened, dbVars
  <2>2. req'[u] = req[u] \/ req'[u].stage \in {"idle", "sent"}
    BY <1>1, <2>1 DEF Asked, RowsInv
  <2> QED BY <1>3, <1>4, <2>1, <2>2
<1>7. ASSUME NEW t \in Tabs, Server(t), NEW u \in Tabs, u # t PROVE Covered(u)'
  <2>1. u \notin Served /\ req'[u] = req[u]
    BY <1>1, <1>7, ServedAlone
  <2> QED BY <1>3, <2>1 DEF Served
<1>8. ASSUME NEW t \in Tabs, Server(t) PROVE Covered(t)'
  <2>1. Covered(t)
    BY DEF CoverInv
  <2>2. CASE Number(t)
    <3>1. UNCHANGED <<payments, moves>> /\ (req[t].op = "withdraw" => req[t].stage = "moved")
      BY <2>2 DEF Number, At, dbVars
    <3>2. \A m : SavingsBalance(m)' = SavingsBalance(m)
      BY <3>1 DEF SavingsBalance, Live
    <3>3. /\ req'[t].op = req[t].op /\ req'[t].member = req[t].member
          /\ req'[t].amount = req[t].amount /\ req'[t].stage = "numbered"
      BY <1>1, <2>2, AfterNumber
    <3> QED BY <2>1, <3>1, <3>2, <3>3 DEF Covered
  <2>3. CASE CheckWithdrawal(t)
    <3>1. /\ UNCHANGED <<payments, moves>> /\ req[t].op = "withdraw"
          /\ req[t].amount <= SavingsBalance(req[t].member)
      BY <2>3 DEF CheckWithdrawal, At, dbVars
    <3> QED BY <1>1, <1>2, <2>3, <3>1, AfterCheck DEF Covered
  <2>4. CASE CheckTransfer(t)
    <3>1. /\ UNCHANGED <<payments, moves>> /\ req[t].op = "transfer" /\ req[t].member # req[t].to
          /\ req[t].amount <= ShareBalance(req[t].member)
      BY <2>4 DEF CheckTransfer, At, dbVars
    <3> QED BY <1>1, <1>2, <2>4, <3>1, AfterCheck DEF Covered
  <2>5. CASE InsertMove(t)
    <3>1. UNCHANGED payments /\ req[t].stage = "checked"
      BY <2>5 DEF InsertMove
    <3>2. \A m : SavingsBalance(m)' = SavingsBalance(m)
      BY <3>1 DEF SavingsBalance, Live
    <3>3. CASE Ok(t)
      BY <1>1, <1>3, <3>3, AfterDone
    <3>4. CASE /\ req[t].op = "withdraw"
               /\ req'[t].op = "withdraw" /\ req'[t].member = req[t].member
               /\ req'[t].amount = req[t].amount /\ req'[t].stage = "moved"
      BY <2>1, <3>1, <3>2, <3>4 DEF Covered
    <3> QED BY <1>1, <2>5, <3>3, <3>4, AfterMove
  <2>6. CASE Insert(t)
    BY <1>1, <1>3, <2>6, AfterInsert
  <2>7. CASE Fails(t) \/ Ok(t)
    BY <1>1, <1>3, <2>7, AfterDone
  <2>8. CASE ReadReversed(t) \/ ReadCancelled(t)
    BY <1>1, <1>3, <2>7, <2>8, AfterRead
  <2>9. CASE DeleteSharesJournal(t) \/ SaveCancelled(t)
    <3>1. Fails(t) \/ Ok(t) \/ \E s \in {"unposted", "saved"} : Stage(t, s)
      BY <2>9 DEF DeleteSharesJournal, SaveCancelled
    <3> QED BY <1>1, <1>3, <2>7, <2>9, <3>1, AfterStage
  <2>10. CASE RefuseMove(t) \/ NotFound(t) \/ Dies(t) \/ Post(t) \/ Upload(t) \/ Reverse(t)
              \/ DeleteSavings(t) \/ DeleteShares(t) \/ ReturnCancelled(t) \/ Link(t)
    BY <2>7, <2>10 DEF RefuseMove, NotFound, Dies, Post, Upload, Reverse, DeleteSavings, DeleteShares,
       ReturnCancelled, Link
  <2> QED BY <1>8, <2>2, <2>3, <2>4, <2>5, <2>6, <2>8, <2>9, <2>10 DEF Server
<1>9. CASE AccountsNext
  BY <1>1, <1>6, <1>7, <1>8, <1>9 DEF AccountsNext, CoverInv
<1> QED BY <1>5, <1>9

LEMMA InitCovered == AccountsInit => CoverInv
<1> SUFFICES ASSUME AccountsInit PROVE CoverInv
  OBVIOUS
<1>1. RowsInv
  BY InitRows
<1>2. \A t \in Tabs : req[t].stage = "idle"
  BY DEF AccountsInit, NoReq
<1>3. Served = {}
  BY <1>2 DEF Served
<1> QED BY <1>1, <1>2, <1>3 DEF CoverInv, OneServed, Covered

-----------------------------------------------------------------------------
\* Savings and shares: the money of a withdrawal that stands is out

(* Moves that keep their keys, none of which stands on the payment k, and   *)
(* payments that are kept but for k.                                       *)
LEMMA MovesStand ==
    ASSUME MovesInv, MoveRows', NEW k,
           \A x \in moves' : \E w \in moves :
             /\ x.id = w.id /\ x.amount = w.amount /\ x.paid \in {w.paid, 0}
             /\ x.active => w.active
             /\ x.active /\ x.paid # 0 => x.paid # k,
           \A p \in payments : p.id # k => p \in payments'
    PROVE  PaidOnce' /\ LinkedIsOut'
<1>1. ASSUME NEW x \in moves', NEW y \in moves', x.paid = y.paid, x.paid # 0 PROVE x = y
  <2>1. PICK v \in moves : x.id = v.id /\ x.paid \in {v.paid, 0}
    OBVIOUS
  <2>2. PICK w \in moves : y.id = w.id /\ y.paid \in {w.paid, 0}
    OBVIOUS
  <2>3. v = w
    BY <1>1, <2>1, <2>2 DEF MovesInv, PaidOnce
  <2> QED BY <2>1, <2>2, <2>3 DEF MoveRows
<1>2. ASSUME NEW x \in moves', x.active, x.paid # 0
      PROVE  \E p \in payments' : p.id = x.paid /\ ~p.reversed /\ p.amount = x.amount
  <2>1. PICK w \in moves : x.amount = w.amount /\ x.paid = w.paid /\ w.active /\ x.paid # k
    BY <1>2
  <2>2. PICK p \in payments : p.id = w.paid /\ ~p.reversed /\ p.amount = w.amount
    BY <1>2, <2>1 DEF MovesInv, LinkedIsOut, PaidOut
  <2> QED BY <2>1, <2>2
<1> QED BY <1>1, <1>2 DEF PaidOnce, LinkedIsOut, PaidOut

LEMMA MovesSame ==
    ASSUME MovesInv, MoveRows', UNCHANGED moves, payments \subseteq payments'
    PROVE  PaidOnce' /\ LinkedIsOut'
<1>1. \A x \in moves' : \E w \in moves :
        /\ x.id = w.id /\ x.amount = w.amount /\ x.paid \in {w.paid, 0}
        /\ x.active => w.active
        /\ x.active /\ x.paid # 0 => x.paid # 0
  OBVIOUS
<1> QED BY <1>1, MovesStand

(* The steps that touch payments or moves, one by one.                      *)
LEMMA InsertStands ==
    ASSUME MovesInv, NEW t \in Tabs, MoveRows', Insert(t)
    PROVE  PaidOnce' /\ LinkedIsOut' /\ Holds(t)'
<1>1. RowsInv /\ MoveRows /\ inserted \in Nat /\ Holds(t)
  BY RowsAre DEF MovesInv
<1> DEFINE p == [id |-> inserted + 1, member |-> req[t].member,
                 way |-> IF req[t].op = "withdraw" THEN "out" ELSE "in",
                 amount |-> req[t].amount, doc |-> req[t].doc, reversed |-> FALSE]
<1>2. /\ payments' = payments \cup {p} /\ UNCHANGED moves
      /\ p.id = inserted + 1 /\ p.amount = req[t].amount /\ ~p.reversed
  BY DEF Insert
<1> HIDE DEF p
<1>3. /\ req[t].op \in {"deposit", "withdraw"} /\ req'[t].op = req[t].op
      /\ req'[t].amount = req[t].amount
      /\ req'[t].stage = "inserted" /\ req'[t].row = inserted + 1
      /\ req[t].op = "withdraw" => req'[t].move = req[t].move
  BY <1>1, AfterInsert
<1>4. \A w \in moves : w.paid # inserted + 1
  BY <1>1, AccountsAssumption DEF MoveRows, Move, Ids
<1>5. \A w \in moves : req[t].op = "withdraw" /\ w.id = req[t].move => w.amount = req[t].amount
  BY <1>1 DEF Holds, Insert
<1>6. PaidOnce' /\ LinkedIsOut'
  BY <1>2, MovesSame
<1> QED BY <1>2, <1>3, <1>4, <1>5, <1>6 DEF Holds

LEMMA MoveStands ==
    ASSUME MovesInv, NEW t \in Tabs, MoveRows', InsertMove(t)
    PROVE  PaidOnce' /\ LinkedIsOut' /\ Holds(t)'
<1>1. RowsInv /\ MoveRows /\ Cardinality(moves) \in Nat
  BY RowsAre, FS_CardinalityType DEF MovesInv, MoveRows
<1> DEFINE w == [id |-> Cardinality(moves) + 1, from |-> req[t].member, to |-> req[t].to,
                 amount |-> req[t].amount, active |-> TRUE, paid |-> 0]
<1>2. /\ moves' = moves \cup {w} /\ UNCHANGED payments
      /\ w.id = Cardinality(moves) + 1 /\ w.amount = req[t].amount /\ w.paid = 0
  BY DEF InsertMove
<1> HIDE DEF w
<1>3. \A v \in moves : v.id # Cardinality(moves) + 1
  BY <1>1 DEF MoveRows, Move
<1>4. PaidOnce'
  BY <1>2 DEF MovesInv, PaidOnce
<1>5. LinkedIsOut'
  BY <1>2 DEF MovesInv, LinkedIsOut, PaidOut
<1>6. CASE Ok(t)
  BY <1>1, <1>4, <1>5, <1>6, AfterDone DEF Holds
<1>7. CASE /\ req'[t].op = "withdraw" /\ req'[t].amount = req[t].amount
           /\ req'[t].stage = "moved" /\ req'[t].move = Cardinality(moves) + 1
  <2>1. \A v \in moves' : v.id = req'[t].move => v.amount = req'[t].amount
    BY <1>2, <1>3, <1>7
  <2> QED BY <1>4, <1>5, <1>7, <2>1 DEF Holds
<1> QED BY <1>1, <1>6, <1>7, AfterMove

LEMMA LinkStands ==
    ASSUME MovesInv, NEW t \in Tabs, MoveRows', Link(t)
    PROVE  PaidOnce' /\ LinkedIsOut'
<1>1. CASE Fails(t)
  BY <1>1, MovesSame DEF Fails, dbVars
<1>2. CASE ~Fails(t)
  <2>1. /\ moves' = {IF w.id = req[t].move THEN [w EXCEPT !.paid = req[t].row] ELSE w : w \in moves}
        /\ UNCHANGED payments
    BY <1>2 DEF Link
  <2>2. moves \subseteq Move /\ \A v, w \in moves : v.id = w.id => v = w
    BY RowsAre DEF MovesInv, MoveRows
  <2>3. /\ \A w \in moves : w.id = req[t].move => w.amount = req[t].amount
        /\ \A w \in moves : w.paid # req[t].row
        /\ \E p \in payments : p.id = req[t].row /\ ~p.reversed /\ p.amount = req[t].amount
    BY DEF MovesInv, Holds, Link, At
  <2>4. \A x \in moves' : \E w \in moves :
          /\ x.id = w.id /\ x.amount = w.amount /\ (x.active => w.active)
          /\ \/ w.id = req[t].move /\ x.paid = req[t].row
             \/ w.id # req[t].move /\ x.paid = w.paid
    BY <2>1, <2>2 DEF Move
  <2>5. PaidOnce'
    <3>1. ASSUME NEW x \in moves', NEW y \in moves', x.paid = y.paid, x.paid # 0 PROVE x = y
      <4>1. PICK v \in moves : /\ x.id = v.id
                               /\ \/ v.id = req[t].move /\ x.paid = req[t].row
                                  \/ v.id # req[t].move /\ x.paid = v.paid
        BY <2>4
      <4>2. PICK w \in moves : /\ y.id = w.id
                               /\ \/ w.id = req[t].move /\ y.paid = req[t].row
                                  \/ w.id # req[t].move /\ y.paid = w.paid
        BY <2>4
      <4>3. v.id = w.id
        BY <2>3, <3>1, <4>1, <4>2 DEF MovesInv, PaidOnce
      <4> QED BY <4>1, <4>2, <4>3 DEF MoveRows
    <3> QED BY <3>1 DEF PaidOnce
  <2>6. LinkedIsOut'
    <3>1. ASSUME NEW x \in moves', x.active, x.paid # 0
          PROVE  \E p \in payments : p.id = x.paid /\ ~p.reversed /\ p.amount = x.amount
      <4>1. PICK w \in moves : /\ x.amount = w.amount /\ w.active
                               /\ \/ w.id = req[t].move /\ x.paid = req[t].row
                                  \/ w.id # req[t].move /\ x.paid = w.paid
        BY <2>4, <3>1
      <4> QED BY <2>3, <3>1, <4>1 DEF MovesInv, LinkedIsOut, PaidOut
    <3> QED BY <2>1, <3>1 DEF LinkedIsOut, PaidOut
  <2> QED BY <2>5, <2>6
<1> QED BY <1>1, <1>2

LEMMA ReverseStands ==
    ASSUME MovesInv, NEW t \in Tabs, MoveRows', Reverse(t)
    PROVE  PaidOnce' /\ LinkedIsOut'
<1>1. moves \subseteq Move
  BY RowsAre DEF MovesInv, MoveRows
<1>2. PICK k : k = req[t].id
  OBVIOUS
<1>3. moves' = {IF w.paid = k THEN [w EXCEPT !.active = FALSE] ELSE w : w \in moves}
  BY <1>2 DEF Reverse
<1>4. \A x \in moves' : \E w \in moves :
        /\ x.id = w.id /\ x.amount = w.amount /\ x.paid \in {w.paid, 0}
        /\ x.active => w.active
        /\ x.active /\ x.paid # 0 => x.paid # k
  BY <1>1, <1>3 DEF Move
<1>5. \A p \in payments : p.id # k => p \in payments'
  BY <1>2 DEF Reverse, Row
<1> QED BY <1>4, <1>5, MovesStand

LEMMA RemoveStands ==
    ASSUME MovesInv, NEW k, MoveRows', Remove(k)
    PROVE  PaidOnce' /\ LinkedIsOut'
<1>1. moves \subseteq Move
  BY RowsAre DEF MovesInv, MoveRows
<1>2. moves' = {IF w.paid = k THEN [w EXCEPT !.paid = 0] ELSE w : w \in moves}
  BY DEF Remove
<1>3. \A x \in moves' : \E w \in moves :
        /\ x.id = w.id /\ x.amount = w.amount /\ x.paid \in {w.paid, 0}
        /\ x.active => w.active
        /\ x.active /\ x.paid # 0 => x.paid # k
  BY <1>1, <1>2 DEF Move
<1>4. \A p \in payments : p.id # k => p \in payments'
  BY DEF Remove, Row
<1> QED BY <1>3, <1>4, MovesStand

LEMMA CancelStands ==
    ASSUME MovesInv, NEW t \in Tabs, MoveRows', SaveCancelled(t)
    PROVE  PaidOnce' /\ LinkedIsOut' /\ Holds(t)'
<1>1. RowsInv /\ MoveRows
  BY RowsAre DEF MovesInv
<1>2. CASE Fails(t)
  <2>1. PaidOnce' /\ LinkedIsOut'
    BY <1>2, MovesSame DEF Fails, dbVars
  <2>2. Holds(t)'
    BY <1>1, <1>2, AfterDone DEF Holds
  <2> QED BY <2>1, <2>2
<1>3. CASE ~Fails(t)
  <2>1. PICK c \in req[t].copy :
          /\ moves' = {IF v.id = c.id THEN [c EXCEPT !.active = FALSE] ELSE v : v \in moves}
          /\ UNCHANGED payments
          /\ IF c.paid = 0 THEN Ok(t) ELSE Stage(t, "saved")
    BY <1>3 DEF SaveCancelled
  <2>2. req[t].copy \subseteq moves /\ \A v \in req[t].copy : v = c
    BY DEF MovesInv, Holds, SaveCancelled, At
  <2>3. \A x \in moves' : \E w \in moves :
          /\ x.id = w.id /\ x.amount = w.amount /\ x.paid = w.paid
          /\ x.active => w.active /\ w.id # c.id
    BY <1>1, <2>1, <2>2 DEF MoveRows, Move
  <2>4. \A x \in moves' : \E w \in moves :
          /\ x.id = w.id /\ x.amount = w.amount /\ x.paid \in {w.paid, 0}
          /\ x.active => w.active
          /\ x.active /\ x.paid # 0 => x.paid # 0
    BY <2>3
  <2>5. PaidOnce' /\ LinkedIsOut'
    BY <2>1, <2>4, MovesStand
  <2>6. CASE c.paid = 0
    BY <1>1, <2>1, <2>5, <2>6, AfterDone DEF Holds
  <2>7. CASE c.paid # 0
    <3>1. /\ req'[t].op = req[t].op /\ req'[t].stage = "saved" /\ req'[t].copy = req[t].copy
      BY <1>1, <2>1, <2>7, AfterStage
    <3>2. req[t].op = "cancel"
      BY DEF SaveCancelled, At
    <3>3. ASSUME NEW x \in moves', x.paid = c.paid PROVE ~x.active
      <4>1. PICK w \in moves : x.paid = w.paid /\ (x.active => w.id # c.id)
        BY <2>3
      <4>2. w = c
        BY <2>2, <2>7, <3>3, <4>1 DEF MovesInv, PaidOnce
      <4> QED BY <4>1, <4>2
    <3> QED BY <2>2, <2>5, <3>1, <3>2, <3>3 DEF Holds
  <2> QED BY <2>6, <2>7
<1> QED BY <1>2, <1>3

LEMMA ReturnStands ==
    ASSUME MovesInv, NEW t \in Tabs, MoveRows', ReturnCancelled(t)
    PROVE  PaidOnce' /\ LinkedIsOut'
<1>1. PICK c \in req[t].copy : payments' = (payments \ Row(c.paid)) \cup Reversed(Row(c.paid))
  BY DEF ReturnCancelled
<1>2. \A w \in moves : w.paid = c.paid => ~w.active
  BY DEF MovesInv, Holds, ReturnCancelled, At
<1>3. UNCHANGED moves
  BY DEF ReturnCancelled
<1>4. \A x \in moves' : \E w \in moves :
        /\ x.id = w.id /\ x.amount = w.amount /\ x.paid \in {w.paid, 0}
        /\ x.active => w.active
        /\ x.active /\ x.paid # 0 => x.paid # c.paid
  BY <1>2, <1>3
<1>5. \A p \in payments : p.id # c.paid => p \in payments'
  BY <1>1 DEF Row
<1> QED BY <1>4, <1>5, MovesStand

(* Every step of the server.                                                *)
LEMMA ServerStands ==
    ASSUME ~Overlap, MovesInv, NEW t \in Tabs, MoveRows', Server(t)
    PROVE  PaidOnce' /\ LinkedIsOut' /\ Holds(t)'
<1>1. RowsInv
  BY DEF MovesInv
<1>2. CASE Fails(t)
  <2>1. PaidOnce' /\ LinkedIsOut'
    BY <1>2, MovesSame DEF Fails, dbVars
  <2> QED BY <1>1, <1>2, <2>1, AfterDone DEF Holds
<1>3. CASE Ok(t) /\ PaidOnce' /\ LinkedIsOut'
  BY <1>1, <1>3, AfterDone DEF Holds
<1>4. CASE Number(t)
  <2>1. PaidOnce' /\ LinkedIsOut'
    BY <1>4, MovesSame DEF Number, dbVars
  <2>2. UNCHANGED moves /\ Holds(t) /\ (req[t].op = "withdraw" => req[t].stage = "moved")
        /\ req[t].op \in {"deposit", "withdraw"}
    BY <1>4 DEF MovesInv, Number, At, dbVars
  <2> QED BY <1>1, <1>4, <2>1, <2>2, AfterNumber DEF Holds
<1>5. CASE CheckWithdrawal(t) \/ CheckTransfer(t)
  <2>1. PaidOnce' /\ LinkedIsOut'
    BY <1>5, MovesSame DEF CheckWithdrawal, CheckTransfer, dbVars
  <2> QED BY <1>1, <1>5, <2>1, AfterCheck DEF Holds
<1>6. CASE ReadReversed(t) \/ ReadCancelled(t)
  <2>1. CASE ~Fails(t)
    <3>1. req[t].op = "reverse" \/ ReadCancelled(t)
      BY <1>6 DEF ReadReversed, At
    <3>2. /\ req'[t].op = req[t].op /\ req'[t].stage = "read" /\ UNCHANGED dbVars
          /\ ReadCancelled(t) => \E w \in moves : req'[t].copy = {w}
      BY <1>1, <1>6, <2>1, AfterRead
    <3>3. PaidOnce' /\ LinkedIsOut' /\ UNCHANGED moves
      BY <3>2, MovesSame DEF dbVars
    <3> QED BY <3>1, <3>2, <3>3 DEF Holds, ReadCancelled, At
  <2> QED BY <1>2, <2>1
<1>7. CASE DeleteSharesJournal(t)
  <2>1. PaidOnce' /\ LinkedIsOut'
    BY <1>7, MovesSame DEF DeleteSharesJournal
  <2>2. Stage(t, "unposted") /\ req[t].op = "delete"
    BY <1>7 DEF DeleteSharesJournal, At
  <2> QED BY <1>1, <1>7, <2>1, <2>2, AfterStage DEF Holds
<1>8. CASE Post(t)
  <2>1. Ok(t) /\ PaidOnce' /\ LinkedIsOut'
    BY <1>8, MovesSame DEF Post
  <2> QED BY <1>3, <2>1
<1>9. CASE Upload(t)
  <2>1. Ok(t) /\ PaidOnce' /\ LinkedIsOut'
    BY <1>9, MovesSame DEF Upload
  <2> QED BY <1>3, <2>1
<1>10. CASE Reverse(t) \/ DeleteSavings(t) \/ DeleteShares(t) \/ ReturnCancelled(t)
  BY <1>3, <1>10, ReverseStands, RemoveStands, ReturnStands DEF Reverse, DeleteSavings, DeleteShares,
     ReturnCancelled
<1>11. CASE Link(t)
  <2>1. Fails(t) \/ Ok(t)
    BY <1>11 DEF Link
  <2> QED BY <1>2, <1>3, <1>11, <2>1, LinkStands
<1>12. CASE RefuseMove(t) \/ NotFound(t) \/ Dies(t)
  BY <1>2, <1>12 DEF RefuseMove, NotFound, Dies
<1> QED BY <1>4, <1>5, <1>6, <1>7, <1>8, <1>9, <1>10, <1>11, <1>12, InsertStands, MoveStands,
       CancelStands DEF Server

(* Every step of the system.                                                *)
LEMMA NextStands ==
    ASSUME ~Overlap, MovesInv, [AccountsNext]_accountsVars
    PROVE  MovesInv'
<1>1. RowsInv /\ OneServed /\ RowsInv' /\ OneServed'
  BY NextRows, NextServed DEF MovesInv
<1>2. MoveRows'
  BY <1>1 DEF RowsInv, AccountsTypeOK, RowsKept, MoveRows
<1>3. ASSUME NEW u \in Tabs,
             req'[u].stage \notin {"moved", "numbered", "inserted", "read", "saved"}
      PROVE  Holds(u)'
  BY <1>3 DEF Holds
<1>4. ASSUME NEW u \in Tabs, req'[u] = req[u], UNCHANGED <<payments, moves>>
      PROVE  Holds(u)'
  BY <1>4 DEF MovesInv, Holds
<1>5. CASE UNCHANGED accountsVars
  <2>1. UNCHANGED <<payments, moves>> /\ req' = req
    BY <1>5 DEF accountsVars, dbVars
  <2>2. PaidOnce' /\ LinkedIsOut'
    BY <1>2, <2>1, MovesSame
  <2>3. \A u \in Tabs : Holds(u)'
    BY <1>4, <2>1
  <2> QED BY <1>1, <2>2, <2>3 DEF MovesInv
<1>6. ASSUME NEW t \in Tabs, Screens(t) PROVE MovesInv'
  <2>1. UNCHANGED <<payments, moves>> /\ \E r : req' = [req EXCEPT ![t] = r] /\ (r = req[t] \/ Asked(r))
    BY <1>6, ScreenSteps, <1>1 DEF Screened, dbVars
  <2>2. \A u \in Tabs : req'[u] = req[u] \/ req'[u].stage \in {"idle", "sent"}
    BY <1>1, <2>1 DEF Asked, RowsInv
  <2>3. \A u \in Tabs : Holds(u)'
    BY <1>3, <1>4, <2>1, <2>2
  <2>4. PaidOnce' /\ LinkedIsOut'
    BY <1>2, <2>1, MovesSame
  <2> QED BY <1>1, <2>3, <2>4 DEF MovesInv
<1>7. ASSUME NEW t \in Tabs, Server(t) PROVE MovesInv'
  <2>1. PaidOnce' /\ LinkedIsOut' /\ Holds(t)'
    BY <1>2, <1>7, ServerStands
  <2>2. ASSUME NEW u \in Tabs, u # t PROVE Holds(u)'
    <3>1. u \notin Served /\ req'[u] = req[u]
      BY <1>1, <1>7, <2>2, ServedAlone
    <3> QED BY <1>3, <3>1 DEF Served
  <2> QED BY <1>1, <2>1, <2>2 DEF MovesInv
<1> QED BY <1>5, <1>6, <1>7 DEF AccountsNext

LEMMA InitStands == AccountsInit => MovesInv
<1> SUFFICES ASSUME AccountsInit PROVE MovesInv
  OBVIOUS
<1>1. RowsInv
  BY InitRows
<1>2. \A t \in Tabs : req[t].stage = "idle"
  BY DEF AccountsInit, NoReq
<1>3. Served = {}
  BY <1>2 DEF Served
<1>4. moves = {}
  BY DEF AccountsInit
<1> QED BY <1>1, <1>2, <1>3, <1>4 DEF MovesInv, OneServed, PaidOnce, LinkedIsOut, Holds

-----------------------------------------------------------------------------
\* Savings and shares: withdrawals that stand without a payment

(* A withdrawal that stands without a payment did before, and its request   *)
(* walks on or fails; or it is new, or has just lost its payment.           *)
LEMMA DriftStays ==
    ASSUME Drift, Watch, UNCHANGED book,
           \A x \in moves' : x.active /\ x.paid = 0 =>
             \/ x.id \in adrift'
             \/ \E u \in Tabs : Carries(u, x)'
             \/ \E w \in moves :
                  /\ w.id = x.id /\ w.active /\ w.paid = 0
                  /\ \A u \in Tabs : Carries(u, w) => Carries(u, x)' \/ req'[u].stage = "failed"
    PROVE  Drift'
<1>1. ASSUME book = "savings", NEW x \in moves', x.active, x.paid = 0, x.id \notin adrift',
             NEW w \in moves, w.id = x.id, w.active, w.paid = 0,
             \A u \in Tabs : Carries(u, w) => Carries(u, x)' \/ req'[u].stage = "failed"
      PROVE  \E u \in Tabs : Carries(u, x)'
  <2>1. w.id \notin adrift /\ w \notin Abandoned
    BY <1>1 DEF Watch
  <2>2. PICK u \in Tabs : Carries(u, w)
    BY <1>1, <2>1 DEF Drift
  <2> QED BY <1>1, <2>1, <2>2 DEF Abandoned
<1> QED BY <1>1 DEF Drift

(* A screen leaves a request on its way alone.                             *)
LEMMA ScreensWait ==
    ASSUME NEW t \in Tabs, Screens(t)
    PROVE  req' = req \/ req[t].stage \in {"idle", "ok", "failed"}
BY DEF Screens, GotoScreen, LoadRegister, LoadWithdrawals, LoadTransfers, ListMoves, OpenReverse,
   OpenDelete, OpenUpload, Dialog, CloseDialog, ConfirmReverse, ConfirmDelete, UploadFile,
   EnterSavings, EnterShare, EnterPayment, EnterWithdrawal, EnterTransfer, CancelWithdrawal,
   CancelTransfer, CancelMove, Answer, Failure, On, In, Free

(* A request that fails lets its withdrawal drift; one that is no           *)
(* withdrawal carries none.                                                *)
LEMMA EndsCarrying ==
    ASSUME RowsInv, NEW t \in Tabs, NEW w, NEW x, w.id = x.id, NEW u \in Tabs, Carries(u, w),
           \/ Fails(t)
           \/ Ok(t) /\ req[t].op # "withdraw"
           \/ Others(t) /\ req[t].op # "withdraw"
    PROVE  Carries(u, x)' \/ req'[u].stage = "failed"
<1>1. Others(t) /\ (u = t => Fails(t))
  BY AfterDone DEF Carries
<1>2. CASE u # t
  BY <1>1, <1>2 DEF Others, Carries
<1>3. CASE u = t
  BY <1>1, <1>3 DEF Fails, Done, RowsInv
<1> QED BY <1>2, <1>3

(* The steps of the server that leave moves alone, or change no more than   *)
(* that some stand no longer.                                              *)
LEMMA ServerDrifts ==
    ASSUME RowsInv, Drift, Watch, NEW t \in Tabs, Server(t)
    PROVE  Drift'
<1>1. UNCHANGED book
  <2>1. CASE RefuseMove(t) \/ NotFound(t) \/ Dies(t) \/ Number(t) \/ CheckWithdrawal(t)
             \/ CheckTransfer(t) \/ ReadReversed(t) \/ ReadCancelled(t) \/ Insert(t) \/ Post(t)
             \/ InsertMove(t) \/ Link(t) \/ Upload(t) \/ Reverse(t)
    BY <2>1 DEF RefuseMove, NotFound, Dies, Number, CheckWithdrawal, CheckTransfer, ReadReversed,
       ReadCancelled, Fails, Insert, Post, InsertMove, Link, Upload, Reverse
  <2>2. CASE DeleteSavings(t) \/ DeleteSharesJournal(t) \/ DeleteShares(t)
             \/ SaveCancelled(t) \/ ReturnCancelled(t)
    BY <2>2 DEF DeleteSavings, DeleteSharesJournal, DeleteShares, SaveCancelled, ReturnCancelled, Fails
  <2> QED BY <2>1, <2>2 DEF Server
<1>2. moves \subseteq Move /\ \A w \in moves : w.paid \in Nat
  BY RowsAre, AccountsAssumption DEF MoveRows, Move, Ids
<1>3. ASSUME \A x \in moves' : x.active => x \in moves,
             \A w \in moves, u \in Tabs :
               Carries(u, w) => Carries(u, w)' \/ req'[u].stage = "failed"
      PROVE  Drift'
  BY <1>1, <1>3, DriftStays
<1>4. CASE Fails(t)
  <2>1. UNCHANGED moves
    BY <1>4 DEF Fails, dbVars
  <2> QED BY <1>3, <1>4, <2>1, EndsCarrying
<1>5. CASE Number(t) \/ Insert(t)
  <2>1. /\ UNCHANGED moves /\ Others(t) /\ req'[t].op = req[t].op
        /\ req'[t].stage \in {"numbered", "inserted"}
        /\ req[t].op = "withdraw" => req'[t].move = req[t].move
    BY <1>5, AfterNumber, AfterInsert DEF Number, Insert, dbVars
  <2>2. ASSUME NEW w \in moves, NEW u \in Tabs, Carries(u, w) PROVE Carries(u, w)'
    BY <2>1, <2>2 DEF Others, Carries
  <2> QED BY <1>3, <2>1, <2>2
<1>6. CASE CheckWithdrawal(t) \/ CheckTransfer(t)
  <2>1. UNCHANGED moves /\ Others(t) /\ req[t].stage = "sent"
    BY <1>6, AfterCheck DEF CheckWithdrawal, CheckTransfer, At, dbVars
  <2>2. ASSUME NEW w \in moves, NEW u \in Tabs, Carries(u, w) PROVE Carries(u, w)'
    BY <2>1, <2>2 DEF Others, Carries
  <2> QED BY <1>3, <2>1, <2>2
<1>7. CASE (ReadReversed(t) \/ ReadCancelled(t)) /\ ~Fails(t)
  <2>1. UNCHANGED moves /\ Others(t) /\ req[t].op # "withdraw"
    BY <1>7, AfterRead DEF ReadReversed, ReadCancelled, At, dbVars
  <2> QED BY <1>3, <2>1, EndsCarrying
<1>8. CASE DeleteSharesJournal(t)
  <2>1. UNCHANGED moves /\ Others(t) /\ req[t].op # "withdraw"
    BY <1>8, AfterStage DEF DeleteSharesJournal, At
  <2> QED BY <1>3, <2>1, EndsCarrying
<1>9. CASE Post(t) \/ Upload(t) \/ ReturnCancelled(t)
  <2>1. UNCHANGED moves /\ Ok(t) /\ req[t].op # "withdraw"
    BY <1>9 DEF Post, Upload, ReturnCancelled, At
  <2> QED BY <1>3, <2>1, EndsCarrying
<1>10. CASE Reverse(t)
  <2>1. Ok(t) /\ req[t].op # "withdraw"
    BY <1>10 DEF Reverse, At
  <2>2. \A x \in moves' : x.active => x \in moves
    BY <1>2, <1>10 DEF Reverse, Move
  <2> QED BY <1>3, <2>1, <2>2, EndsCarrying
<1>11. CASE SaveCancelled(t) /\ ~Fails(t)
  <2>1. PICK c \in req[t].copy :
          moves' = {IF v.id = c.id THEN [c EXCEPT !.active = FALSE] ELSE v : v \in moves}
    BY <1>11 DEF SaveCancelled
  <2>2. c \in Move
    BY <1>11 DEF SaveCancelled, At, RowsInv, Requests, NoReq, Deposits, Withdrawals, Transfers,
       Uploads, Reversals, Deletions, Cancellations, Answers
  <2>3. \A x \in moves' : x.active => x \in moves
    BY <2>1, <2>2 DEF Move
  <2>4. Others(t) /\ req[t].op # "withdraw"
    <3>1. Ok(t) \/ Stage(t, "saved")
      BY <1>11 DEF SaveCancelled
    <3> QED BY <1>11, <3>1, AfterDone, AfterStage DEF SaveCancelled, At
  <2> QED BY <1>3, <2>3, <2>4, EndsCarrying
<1>12. CASE DeleteSavings(t) \/ DeleteShares(t)
  <2>1. Remove(req[t].id) /\ Ok(t) /\ req[t].op # "withdraw"
    BY <1>12 DEF DeleteSavings, DeleteShares, At
  <2>2. ASSUME NEW x \in moves', x.active, x.paid = 0
        PROVE  x.id \in adrift' \/ \E w \in moves : w.id = x.id /\ w.active /\ w.paid = 0
    <3>1. PICK w \in moves : x = IF w.paid = req[t].id THEN [w EXCEPT !.paid = 0] ELSE w
      BY <2>1, <2>2 DEF Remove
    <3>2. w.id = x.id /\ w.active /\ (w.paid # 0 => w.paid = req[t].id)
      BY <1>2, <2>2, <3>1 DEF Move
    <3>3. CASE w.paid # 0
      BY <1>12, <3>2, <3>3 DEF Watch, Orphaned
    <3> QED BY <3>2, <3>3
  <2> QED BY <1>1, <2>1, <2>2, EndsCarrying, DriftStays
<1>13. CASE Link(t) /\ ~Fails(t)
  <2>1. moves' = {IF w.id = req[t].move THEN [w EXCEPT !.paid = req[t].row] ELSE w : w \in moves}
        /\ Ok(t)
    BY <1>13 DEF Link
  <2>2. req[t].row # 0 /\ req[t].op = "withdraw"
    BY <1>13 DEF Link, At, RowsInv, Fits
  <2>3. ASSUME NEW x \in moves', x.paid = 0 PROVE x \in moves /\ x.id # req[t].move
    BY <1>2, <2>1, <2>2, <2>3 DEF Move
  <2>4. ASSUME NEW w \in moves, w.id # req[t].move, NEW u \in Tabs, Carries(u, w)
        PROVE  Carries(u, w)'
    <3>1. u # t /\ Others(t)
      BY <2>1, <2>4, AfterDone DEF Carries
    <3> QED BY <2>4, <3>1 DEF Others, Carries
  <2> QED BY <1>1, <2>3, <2>4, DriftStays
<1>14. CASE InsertMove(t)
  <2>1. Others(t) /\ req[t].stage = "checked"
    BY <1>14, AfterMove DEF InsertMove
  <2>2. CASE req[t].op = "transfer"
    <3>1. book = "shares"
      BY <2>2 DEF RowsInv, Fits
    <3> QED BY <1>1, <3>1 DEF Drift
  <2>3. CASE req[t].op # "transfer"
    <3>1. req'[t].op = "withdraw" /\ req'[t].stage = "moved"
          /\ req'[t].move = Cardinality(moves) + 1
      BY <1>14, <2>3, AfterMove
    <3>2. ASSUME NEW x \in moves', x \notin moves PROVE Carries(t, x)'
      <4>1. x.id = Cardinality(moves) + 1
        BY <1>14, <3>2 DEF InsertMove
      <4> QED BY <3>1, <4>1 DEF Carries
    <3>3. ASSUME NEW w \in moves, NEW u \in Tabs, Carries(u, w) PROVE Carries(u, w)'
      BY <2>1, <3>3 DEF Others, Carries
    <3> QED BY <1>1, <3>2, <3>3, DriftStays
  <2> QED BY <2>2, <2>3
<1>15. CASE RefuseMove(t) \/ NotFound(t) \/ Dies(t)
  BY <1>4, <1>15 DEF RefuseMove, NotFound, Dies
<1> QED BY <1>4, <1>5, <1>6, <1>7, <1>8, <1>9, <1>10, <1>11, <1>12, <1>13, <1>14, <1>15 DEF Server

LEMMA NextDrifts ==
    ASSUME RowsInv, Drift, AccountsNext, Watch
    PROVE  Drift'
<1>1. ASSUME NEW t \in Tabs, Screens(t) PROVE Drift'
  <2>1. /\ UNCHANGED <<book, moves>>
        /\ \E r : req' = [req EXCEPT ![t] = r]
    BY <1>1, ScreenSteps DEF Screened, dbVars
  <2>2. ASSUME NEW w \in moves, NEW u \in Tabs, Carries(u, w) PROVE Carries(u, w)'
    <3>1. req'[u] = req[u]
      BY <1>1, <2>1, <2>2, ScreensWait DEF Carries, RowsInv
    <3> QED BY <2>2, <3>1 DEF Carries
  <2> QED BY <2>1, <2>2, DriftStays
<1> QED BY <1>1, ServerDrifts DEF AccountsNext

-----------------------------------------------------------------------------
\* Savings and shares: the theorems

LEMMA InitTurns == TurnInit => TurnInv
<1> SUFFICES ASSUME TurnInit PROVE TurnInv
  OBVIOUS
<1>1. RowsInv /\ MovesInv /\ CoverInv
  BY InitRows, InitStands, InitCovered DEF TurnInit
<1>2. moves = {}
  BY DEF TurnInit, AccountsInit
<1> QED BY <1>1, <1>2 DEF TurnInv, Drift

LEMMA NextTurns ==
    ASSUME TurnInv, [AccountsNext /\ Watch]_turnVars
    PROVE  TurnInv'
<1>1. CASE UNCHANGED turnVars
  <2>1. UNCHANGED <<overlapped, adrift, accountsVars>>
    BY <1>1 DEF turnVars, watchVars
  <2>2. RowsInv'
    BY <2>1, NextRows DEF TurnInv
  <2>3. Drift'
    BY <2>1 DEF TurnInv, Drift, Carries, accountsVars, dbVars
  <2>4. ~overlapped => MovesInv' /\ CoverInv'
    <3>1. ~Overlap
      BY <2>1 DEF Overlap, accountsVars
    <3> QED BY <2>1, <3>1, NextStands, NextCovered DEF TurnInv
  <2> QED BY <2>1, <2>2, <2>3, <2>4 DEF TurnInv
<1>2. CASE AccountsNext /\ Watch
  <2>1. RowsInv' /\ Drift'
    BY <1>2, NextRows, NextDrifts DEF TurnInv
  <2>2. CASE ~overlapped'
    <3>1. ~overlapped /\ ~Overlap
      BY <1>2, <2>2 DEF Watch
    <3>2. MovesInv' /\ CoverInv'
      BY <1>2, <3>1, NextStands, NextCovered DEF TurnInv
    <3> QED BY <2>1, <3>2 DEF TurnInv
  <2> QED BY <2>1, <2>2 DEF TurnInv
<1> QED BY <1>1, <1>2

(* CoveredInTurn, for any members, amounts, tabs and workers: until two     *)
(* requests overlap, nothing takes from an account between the check of a   *)
(* withdrawal or transfer and its last row.                                *)
THEOREM AccountsAreCovered == TurnSpec => CoveredInTurn
<1>1. ASSUME TurnInv, AccountsNext, Watch, Overdraws PROVE overlapped'
  <2>1. SUFFICES ASSUME ~overlapped' PROVE FALSE
    OBVIOUS
  <2>2. CoverInv /\ RowsInv /\ OneServed /\ ~Overlap
    BY <1>1, <2>1 DEF Watch, TurnInv, CoverInv
  <2>3. PICK m \in Members : Balance(m) >= 0 /\ Balance(m)' < 0
    BY <1>1 DEF Overdraws
  <2>4. ASSUME NEW t \in Tabs, Screens(t) PROVE FALSE
    <3>1. UNCHANGED <<book, payments, moves>>
      BY <2>2, <2>4, ScreenSteps DEF Screened, dbVars
    <3>2. Balance(m)' = Balance(m)
      BY <3>1 DEF Balance, SavingsBalance, ShareBalance, Live, MovedIn, MovedOut
    <3>3. Balance(m) \in Int
      BY <2>2, AccountTotals DEF Balance
    <3> QED BY <2>3, <3>2, <3>3
  <2>5. PICK t \in Tabs : Server(t)
    BY <1>1, <2>4 DEF AccountsNext
  <2>6. req'[t] # req[t]
    BY <2>2, <2>5, ServedAlone
  <2>7. req[t].op \notin {"reverse", "delete", "cancel"}
    BY <1>1, <2>6 DEF Overdraws, Acts
  <2>8. Balance(m)' \in Int /\ Balance(m)' >= 0
    BY <2>2, <2>3, <2>5, <2>7, StaysCovered
  <2> QED BY <2>3, <2>8
<1>2. TurnInv /\ [AccountsNext /\ Watch]_turnVars => [Overdraws => overlapped']_turnVars
  BY <1>1
<1> QED BY <1>2, InitTurns, NextTurns, PTL DEF TurnSpec, CoveredInTurn

(* StandingIsOut, for any members, amounts, tabs and workers: a withdrawal  *)
(* and its payment, joined last, are taken back together or the withdrawal  *)
(* first; what stands without a payment is on its way to it, or its worker  *)
(* died in between, or its payment was deleted.                            *)
THEOREM StandingIsPaid == TurnSpec => []StandingIsOut
<1>1. ASSUME TurnInv PROVE StandingIsOut
  <2>1. SUFFICES ASSUME book = "savings", ~overlapped, NEW w \in moves, w.active
                 PROVE  PaidOut(w) \/ (\E t \in Tabs : Carries(t, w)) \/ w.id \in adrift
    BY DEF StandingIsOut
  <2>2. CASE w.paid = 0
    BY <1>1, <2>1, <2>2 DEF TurnInv, Drift
  <2>3. CASE w.paid # 0
    BY <1>1, <2>1, <2>3 DEF TurnInv, MovesInv, LinkedIsOut
  <2> QED BY <2>2, <2>3
<1> QED BY <1>1, InitTurns, NextTurns, PTL DEF TurnSpec
=============================================================================
