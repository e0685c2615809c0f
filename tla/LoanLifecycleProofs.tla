------------------------ MODULE LoanLifecycleProofs ------------------------
(***************************************************************************)
(* Proofs about LoanLifecycle: for any number of members, workers, loans   *)
(* and amounts, and any interleaving of their requests; and about the      *)
(* header of a loan, for any payments, dues and allocation order.          *)
(***************************************************************************)
EXTENDS LoanTurns, LoanHeader, OperatorProofs

(* The stages of a request that is about a row of the loan table.          *)
RowStages == {"saving", "disbursing", "marking", "repaying", "settling", "deleting"}

DbTypeOK ==
    /\ loans \in [Pks -> LoanRow \cup {NoRow}]
    /\ nextPk \in 1..(MaxLoans + 1)
    /\ unpaid \subseteq Pks
    /\ repaid \subseteq Pks
    /\ journal \subseteq Transactions
    /\ payouts \in [Pks -> Nat]
    /\ voided \in [Pks -> Nat]

DueTypeOK ==
    /\ overdue \in [Pks -> 0..Loss]
    /\ matured \subseteq Pks

(* A request in progress holds a loan object, and the key of its row.      *)
ReqTypeOK ==
    /\ stage \in [Workers -> Stages]
    /\ target \in [Workers -> 0..MaxLoans]
    /\ obj \in [Workers -> LoanRow \cup {NoRow}]
    /\ \A w \in Workers :
          /\ stage[w] # "idle" => obj[w] \in LoanRow
          /\ stage[w] \in RowStages <=> target[w] \in Pks

TypeInv == DbTypeOK /\ DueTypeOK /\ ReqTypeOK

LEMMA TypeInvImplies == TypeInv => TypeOK
BY DEF TypeInv, TypeOK, DbTypeOK, DueTypeOK, ReqTypeOK

(* The amounts, the statuses and the keys are what their names say.        *)
LEMMA Domains ==
    /\ Pks \subseteq 0..MaxLoans
    /\ 0 \notin Pks
    /\ Amounts \subseteq 0..MaxAmount
    /\ Serviced \cup Applied \subseteq Status
    /\ {"pending_application", "appraised", "approved", "active", "closed",
        "rejected"} \subseteq Status
BY ConstantsOK DEF Pks, Amounts, Serviced, Applied, Open, Status

-----------------------------------------------------------------------------
(* What a request holds.                                                   *)

LEMMA HoldType ==
    ASSUME ReqTypeOK, NEW w \in Workers, NEW s \in Stages, NEW p \in 0..MaxLoans,
           NEW r \in LoanRow, s \in RowStages <=> p \in Pks, Hold(w, s, p, r)
    PROVE  ReqTypeOK'
BY DEF ReqTypeOK, Hold, RowStages, Pks, LoanRow

LEMMA RespondType ==
    ASSUME ReqTypeOK, NEW w \in Workers, Respond(w)
    PROVE  ReqTypeOK'
BY Domains, ConstantsOK DEF ReqTypeOK, Respond, Hold, RowStages, Stages

LEMMA RowsCount == DbTypeOK => Cardinality(Rows) \in 0..MaxLoans
<1> SUFFICES ASSUME DbTypeOK PROVE Cardinality(Rows) \in 0..MaxLoans
  OBVIOUS
<1>1. IsFiniteSet(Pks) /\ Cardinality(Pks) = MaxLoans
  BY FS_Interval, ConstantsOK DEF Pks
<1>2. IsFiniteSet(Rows) /\ Cardinality(Rows) <= Cardinality(Pks)
  BY <1>1, FS_Subset DEF Rows
<1> QED BY <1>1, <1>2, FS_CardinalityType, ConstantsOK

-----------------------------------------------------------------------------
(* The requests.                                                           *)

(* A request that reads keeps the types of the row it read.                *)
LEMMA ReadType ==
    ASSUME TypeInv, NEW w \in Workers, NEW p \in Pks,
           \/ Appraise(w, p)
           \/ \E a \in Amounts : Approve(w, p, a)
           \/ Reject(w, p)
           \/ \E a \in Amounts : Disburse(w, p, a)
           \/ AgingRead(w, p)
           \/ \E k \in 0..MaxAmount : Repay(w, p, k)
           \/ Settle(w, p)
           \/ Destroy(w, p)
    PROVE  TypeInv'
<1> USE Domains
<1>1. ASSUME loans[p] # NoRow
      PROVE  loans[p] \in LoanRow /\ loans[p].balance \in 0..MaxAmount
  BY <1>1 DEF TypeInv, DbTypeOK, LoanRow
<1>2. ASSUME NEW s \in RowStages, NEW r \in LoanRow, Hold(w, s, p, r),
             UNCHANGED <<dbVars, dueVars>>
      PROVE  TypeInv'
  <2>1. s \in Stages /\ p \in 0..MaxLoans
    BY DEF RowStages, Stages
  <2>2. ReqTypeOK'
    BY <1>2, <2>1, HoldType DEF TypeInv
  <2> QED BY <1>2, <2>2 DEF TypeInv, DbTypeOK, DueTypeOK, dbVars, dueVars
<1>3. CASE Appraise(w, p)
  <2>1. [loans[p] EXCEPT !.status = "appraised"] \in LoanRow
    BY <1>1, <1>3 DEF Appraise, Read, LoanRow
  <2> QED BY <1>2, <1>3, <2>1 DEF Appraise, RowStages
<1>4. ASSUME NEW a \in Amounts, Approve(w, p, a) PROVE TypeInv'
  <2>1. [loans[p] EXCEPT !.status = "approved", !.amount = a, !.balance = a] \in LoanRow
    BY <1>1, <1>4 DEF Approve, Read, LoanRow
  <2> QED BY <1>2, <1>4, <2>1 DEF Approve, RowStages
<1>5. CASE Reject(w, p)
  <2>1. [loans[p] EXCEPT !.status = "rejected"] \in LoanRow
    BY <1>1, <1>5 DEF Reject, Read, LoanRow
  <2> QED BY <1>2, <1>5, <2>1 DEF Reject, RowStages
<1>6. ASSUME NEW a \in Amounts, Disburse(w, p, a) PROVE TypeInv'
  <2>1. [loans[p] EXCEPT !.status = "active", !.balance = a] \in LoanRow
    BY <1>1, <1>6 DEF Disburse, Read, LoanRow
  <2> QED BY <1>2, <1>6, <2>1 DEF Disburse, RowStages
<1>7. CASE AgingRead(w, p)
  <2> DEFINE aged == AgedStatus(loans[p], overdue[p], p \in matured)
  <2>1. aged \in Status
    BY <1>1, <1>7 DEF AgedStatus, AgingRead, Read, Category, Serviced, Open, Status, LoanRow
  <2> HIDE DEF aged
  <2>2. [loans[p] EXCEPT !.status = aged] \in LoanRow
    BY <1>1, <1>7, <2>1 DEF AgingRead, Read, LoanRow
  <2>3. Hold(w, "marking", p, [loans[p] EXCEPT !.status = aged]) /\ UNCHANGED <<dbVars, dueVars>>
    BY <1>7 DEF AgingRead, aged
  <2> QED BY <1>2, <2>2, <2>3 DEF RowStages
<1>8. ASSUME NEW k \in 0..MaxAmount, Repay(w, p, k) PROVE TypeInv'
  <2>1. loans[p].balance - k \in 0..MaxAmount
    BY <1>1, <1>8, ConstantsOK DEF Repay, Read
  <2>2. [loans[p] EXCEPT !.balance = @ - k] \in LoanRow
    BY <1>1, <1>8, <2>1 DEF Repay, Read, LoanRow
  <2> QED BY <1>2, <1>8, <2>2 DEF Repay, RowStages
<1>9. CASE Settle(w, p)
  <2>1. 0 \in 0..MaxAmount
    BY ConstantsOK
  <2>2. [loans[p] EXCEPT !.status = "closed", !.balance = 0] \in LoanRow
    BY <1>1, <1>9, <2>1 DEF Settle, Read, LoanRow
  <2> QED BY <1>2, <1>9, <2>2 DEF Settle, RowStages
<1>10. CASE Destroy(w, p)
  BY <1>1, <1>2, <1>10 DEF Destroy, Read, RowStages
<1> QED BY <1>3, <1>4, <1>5, <1>6, <1>7, <1>8, <1>9, <1>10

(* A request that writes leaves rows, and answers.                         *)
LEMMA WriteType ==
    ASSUME TypeInv, NEW w \in Workers,
           \/ ApplyInsert(w) \/ Save(w) \/ DisburseCommit(w) \/ AgingSave(w)
           \/ RepayCommit(w) \/ SettleCommit(w) \/ DestroyCommit(w) \/ Abort(w)
    PROVE  TypeInv'
<1>1. /\ stage[w] # "idle" => obj[w] \in LoanRow
      /\ stage[w] \in RowStages => target[w] \in Pks
  BY DEF TypeInv, ReqTypeOK
<1>2. ReqTypeOK'
  BY RespondType DEF TypeInv, ApplyInsert, Save, DisburseCommit, AgingSave, RepayCommit,
     SettleCommit, SaveRepaid, DestroyCommit, Abort
<1>3. CASE ApplyInsert(w)
  <2>1. nextPk \in Pks /\ nextPk' \in 1..(MaxLoans + 1) /\ obj[w] \in LoanRow
    BY <1>1, <1>3, ConstantsOK DEF ApplyInsert, TypeInv, DbTypeOK, Pks
  <2> QED BY <1>2, <1>3, <2>1 DEF ApplyInsert, TypeInv, DbTypeOK, DueTypeOK, dueVars
<1>4. CASE Save(w)
  BY <1>1, <1>2, <1>4 DEF Save, TypeInv, DbTypeOK, DueTypeOK, dueVars, RowStages
<1>5. CASE DisburseCommit(w)
  <2>1. target[w] \in Pks /\ obj[w] \in LoanRow
    BY <1>1, <1>5 DEF DisburseCommit, RowStages
  <2>2. [number |-> obj[w].number, loan |-> target[w], paid |-> target[w]] \in Transactions
    BY <2>1, Domains DEF Transactions, LoanRow
  <2>3. DbTypeOK'
    BY <1>5, <2>1, <2>2 DEF DisburseCommit, TypeInv, DbTypeOK
  <2>4. DueTypeOK'
    BY <1>5, <2>1 DEF DisburseCommit, TypeInv, DueTypeOK, Loss
  <2> QED BY <1>2, <2>3, <2>4 DEF TypeInv
<1>6. CASE AgingSave(w)
  <2>1. target[w] \in Pks /\ obj[w].status \in Status
    BY <1>1, <1>6 DEF AgingSave, RowStages, LoanRow
  <2>2. loans[target[w]] \in LoanRow
    BY <1>6, <2>1 DEF AgingSave, TypeInv, DbTypeOK
  <2>3. [loans[target[w]] EXCEPT !.status = obj[w].status] \in LoanRow
    BY <2>1, <2>2 DEF LoanRow
  <2>4. loans' = [loans EXCEPT ![target[w]] = [loans[target[w]] EXCEPT !.status = obj[w].status]]
    BY <1>6, <2>1 DEF AgingSave, TypeInv, DbTypeOK
  <2> QED BY <1>2, <1>6, <2>1, <2>3, <2>4 DEF AgingSave, TypeInv, DbTypeOK, DueTypeOK, dueVars
<1>7. CASE RepayCommit(w)
  <2>1. target[w] \in Pks /\ obj[w] \in LoanRow
    BY <1>1, <1>7 DEF RepayCommit, RowStages
  <2>2. DbTypeOK'
    BY <1>7, <2>1 DEF RepayCommit, SaveRepaid, TypeInv, DbTypeOK
  <2>3. DueTypeOK'
    <3>1. PICK rank \in 0..overdue[target[w]] :
             overdue' = [overdue EXCEPT ![target[w]] = rank]
      BY <1>7 DEF RepayCommit
    <3>2. rank \in 0..Loss
      BY <2>1, <3>1 DEF TypeInv, DueTypeOK, Loss
    <3> QED BY <1>7, <3>1, <3>2 DEF RepayCommit, SaveRepaid, TypeInv, DueTypeOK
  <2> QED BY <1>2, <2>2, <2>3 DEF TypeInv
<1>8. CASE SettleCommit(w)
  <2>1. target[w] \in Pks /\ obj[w] \in LoanRow
    BY <1>1, <1>8 DEF SettleCommit, RowStages
  <2>2. DbTypeOK'
    BY <1>8, <2>1 DEF SettleCommit, SaveRepaid, TypeInv, DbTypeOK
  <2>3. DueTypeOK'
    BY <1>8, <2>1 DEF SettleCommit, SaveRepaid, TypeInv, DueTypeOK, Loss
  <2> QED BY <1>2, <2>2, <2>3 DEF TypeInv
<1>9. CASE DestroyCommit(w)
  <2>1. target[w] \in Pks
    BY <1>1, <1>9 DEF DestroyCommit, RowStages
  <2>2. \A t \in journal : [t EXCEPT !.loan = 0] \in Transactions
    BY ConstantsOK DEF TypeInv, DbTypeOK, Transactions
  <2>3. journal' \subseteq Transactions
    BY <1>9, <2>2 DEF DestroyCommit, TypeInv, DbTypeOK
  <2>4. DbTypeOK'
    BY <1>9, <2>1, <2>3 DEF DestroyCommit, TypeInv, DbTypeOK
  <2>5. DueTypeOK'
    BY <1>9, <2>1 DEF DestroyCommit, TypeInv, DueTypeOK, Loss
  <2> QED BY <1>2, <2>4, <2>5 DEF TypeInv
<1>10. CASE Abort(w)
  BY <1>2, <1>10 DEF Abort, TypeInv, DbTypeOK, DueTypeOK, dbVars, dueVars
<1> QED BY <1>3, <1>4, <1>5, <1>6, <1>7, <1>8, <1>9, <1>10

(* An application builds the row that it will insert.                      *)
LEMMA ApplyType ==
    ASSUME TypeInv, NEW w \in Workers,
           \/ \E m \in Members, a \in Amounts : ApplyCheck(w, m, a)
           \/ ApplyNumber(w)
    PROVE  TypeInv'
<1>1. ASSUME NEW s \in Stages \ RowStages, NEW r \in LoanRow, Hold(w, s, 0, r),
             UNCHANGED <<dbVars, dueVars>>
      PROVE  TypeInv'
  <2>1. 0 \in 0..MaxLoans /\ 0 \notin Pks
    BY Domains, ConstantsOK
  <2>2. ReqTypeOK'
    BY <1>1, <2>1, HoldType DEF TypeInv
  <2> QED BY <1>1, <2>2 DEF TypeInv, DbTypeOK, DueTypeOK, dbVars, dueVars
<1>2. ASSUME NEW m \in Members, NEW a \in Amounts, ApplyCheck(w, m, a) PROVE TypeInv'
  <2>1. [member |-> m, number |-> 0, status |-> "pending_application",
         amount |-> a, balance |-> a] \in LoanRow
    BY Domains, ConstantsOK DEF LoanRow, Numbers
  <2> QED BY <1>1, <1>2, <2>1 DEF ApplyCheck, Stages, RowStages
<1>3. CASE ApplyNumber(w)
  <2>1. obj[w] \in LoanRow
    BY <1>3 DEF ApplyNumber, TypeInv, ReqTypeOK
  <2>2. Cardinality(Rows) + 1 \in Numbers
    BY RowsCount, ConstantsOK DEF TypeInv, Numbers
  <2>3. [obj[w] EXCEPT !.number = Cardinality(Rows) + 1] \in LoanRow
    BY <2>1, <2>2 DEF LoanRow
  <2> QED BY <1>1, <1>3, <2>3 DEF ApplyNumber, Stages, RowStages
<1> QED BY <1>2, <1>3

LEMMA TypeInvariant == Spec => []TypeInv
<1>1. Init => TypeInv
  BY Domains, ConstantsOK
     DEF Init, TypeInv, DbTypeOK, DueTypeOK, ReqTypeOK, Stages, RowStages, Loss
<1>2. TypeInv /\ [Next]_vars => TypeInv'
  <2> SUFFICES ASSUME TypeInv, [Next]_vars PROVE TypeInv'
    OBVIOUS
  <2>1. CASE UNCHANGED vars
    BY <2>1 DEF vars, dbVars, dueVars, reqVars, TypeInv, DbTypeOK, DueTypeOK, ReqTypeOK
  <2>2. ASSUME NEW w \in Workers, Serve(w) PROVE TypeInv'
    BY <2>2, ApplyType, ReadType, WriteType DEF Serve
  <2>3. ASSUME NEW t \in journal, VoidJournal(t) PROVE TypeInv'
    <3>1. t.paid \in Pks
      BY DEF TypeInv, DbTypeOK, Transactions
    <3>2. voided' \in [Pks -> Nat]
      BY <2>3, <3>1 DEF VoidJournal, TypeInv, DbTypeOK
    <3> QED BY <2>3, <3>2
            DEF VoidJournal, dueVars, reqVars, TypeInv, DbTypeOK, DueTypeOK, ReqTypeOK
  <2>4. ASSUME NEW p \in Pks, DayPasses(p) PROVE TypeInv'
    BY <2>4 DEF DayPasses, dbVars, reqVars, TypeInv, DbTypeOK, DueTypeOK, ReqTypeOK, Loss
  <2>5. ASSUME NEW p \in Pks, Mature(p) PROVE TypeInv'
    BY <2>5 DEF Mature, dbVars, reqVars, TypeInv, DbTypeOK, DueTypeOK, ReqTypeOK
  <2> QED BY <2>1, <2>2, <2>3, <2>4, <2>5 DEF Next
<1> QED BY <1>1, <1>2, PTL DEF Spec

(* The type invariant holds in every state.                                *)
THEOREM TypeCorrect == Spec => []TypeOK
BY TypeInvariant, TypeInvImplies, PTL

-----------------------------------------------------------------------------
(* The portfolio.                                                          *)

(* What a request that will write the status of its loan knows of it.      *)
Knows(s, p, r) ==
    /\ s \in {"numbering", "inserting", "saving"} => r.status \notin Serviced
    /\ s = "settling" => r.status = "closed"
    /\ s = "marking" => payouts[p] > 0
    /\ s = "repaying" /\ r.status \in Serviced => payouts[p] > 0

InFlightPaid == \A w \in Workers : Knows(stage[w], target[w], obj[w])

PortfolioInv == ServicedWasPaidOut /\ InFlightPaid

(* A request that starts does so knowing the row it read.                  *)
LEMMA ReadPaid ==
    ASSUME TypeInv, PortfolioInv, NEW w \in Workers,
           \/ \E m \in Members, a \in Amounts : ApplyCheck(w, m, a)
           \/ ApplyNumber(w)
           \/ \E p \in Pks :
                 \/ Appraise(w, p)
                 \/ \E a \in Amounts : Approve(w, p, a)
                 \/ Reject(w, p)
                 \/ \E a \in Amounts : Disburse(w, p, a)
                 \/ AgingRead(w, p)
                 \/ \E k \in 0..MaxAmount : Repay(w, p, k)
                 \/ Settle(w, p)
                 \/ Destroy(w, p)
    PROVE  PortfolioInv'
<1>1. ASSUME NEW s, NEW p, NEW r, Hold(w, s, p, r), UNCHANGED dbVars, Knows(s, p, r)
      PROVE  PortfolioInv'
  <2>1. Knows(s, p, r)'
    BY <1>1 DEF Knows, dbVars
  <2>2. \A v \in Workers \ {w} : Knows(stage[v], target[v], obj[v])'
    BY <1>1 DEF Hold, PortfolioInv, InFlightPaid, Knows, dbVars, TypeInv, ReqTypeOK
  <2>3. stage'[w] = s /\ target'[w] = p /\ obj'[w] = r
    BY <1>1 DEF Hold, TypeInv, ReqTypeOK
  <2>4. InFlightPaid'
    BY <2>1, <2>2, <2>3 DEF InFlightPaid, Knows
  <2> QED BY <1>1, <2>4 DEF PortfolioInv, ServicedWasPaidOut, Rows, dbVars
<1>2. ASSUME NEW m \in Members, NEW a \in Amounts, ApplyCheck(w, m, a)
      PROVE  PortfolioInv'
  <2> DEFINE r == [member |-> m, number |-> 0, status |-> "pending_application",
                   amount |-> a, balance |-> a]
  <2>1. Knows("numbering", 0, r)
    BY DEF Knows, Serviced
  <2>2. Hold(w, "numbering", 0, r) /\ UNCHANGED dbVars
    BY <1>2 DEF ApplyCheck
  <2> QED BY <1>1, <2>1, <2>2
<1>3. CASE ApplyNumber(w)
  <2> DEFINE r == [obj[w] EXCEPT !.number = Cardinality(Rows) + 1]
  <2>1. obj[w] \in LoanRow /\ obj[w].status \notin Serviced
    BY <1>3 DEF ApplyNumber, TypeInv, ReqTypeOK, PortfolioInv, InFlightPaid, Knows
  <2>2. Knows("inserting", 0, r)
    BY <2>1 DEF Knows, LoanRow
  <2>3. Hold(w, "inserting", 0, r) /\ UNCHANGED dbVars
    BY <1>3 DEF ApplyNumber
  <2> QED BY <1>1, <2>2, <2>3
<1>4. ASSUME NEW p \in Pks,
             \/ Appraise(w, p)
             \/ \E a \in Amounts : Approve(w, p, a)
             \/ Reject(w, p)
             \/ \E a \in Amounts : Disburse(w, p, a)
             \/ AgingRead(w, p)
             \/ \E k \in 0..MaxAmount : Repay(w, p, k)
             \/ Settle(w, p)
             \/ Destroy(w, p)
      PROVE  PortfolioInv'
  <2>1. loans[p] \in LoanRow /\ (loans[p].status \in Serviced => payouts[p] > 0)
    <3>1. loans[p] # NoRow
      BY <1>4 DEF Appraise, Approve, Reject, Disburse, AgingRead, Repay, Settle, Destroy, Read
    <3> QED BY <3>1 DEF TypeInv, DbTypeOK, PortfolioInv, ServicedWasPaidOut, Rows
  <2>2. CASE Appraise(w, p)
    <3> DEFINE r == [loans[p] EXCEPT !.status = "appraised"]
    <3>1. Knows("saving", p, r)
      BY <2>1, <2>2 DEF Appraise, Knows, LoanRow, Serviced
    <3>2. Hold(w, "saving", p, r) /\ UNCHANGED dbVars
      BY <2>2 DEF Appraise
    <3> HIDE DEF r
    <3> QED BY <1>1, <3>1, <3>2
  <2>3. ASSUME NEW a \in Amounts, Approve(w, p, a) PROVE PortfolioInv'
    <3> DEFINE r == [loans[p] EXCEPT !.status = "approved", !.amount = a, !.balance = a]
    <3>1. Knows("saving", p, r)
      BY <2>1, <2>3 DEF Approve, Knows, LoanRow, Serviced
    <3>2. Hold(w, "saving", p, r) /\ UNCHANGED dbVars
      BY <2>3 DEF Approve
    <3> HIDE DEF r
    <3> QED BY <1>1, <3>1, <3>2
  <2>4. CASE Reject(w, p)
    <3> DEFINE r == [loans[p] EXCEPT !.status = "rejected"]
    <3>1. Knows("saving", p, r)
      BY <2>1, <2>4 DEF Reject, Knows, LoanRow, Serviced
    <3>2. Hold(w, "saving", p, r) /\ UNCHANGED dbVars
      BY <2>4 DEF Reject
    <3> HIDE DEF r
    <3> QED BY <1>1, <3>1, <3>2
  <2>5. ASSUME NEW a \in Amounts, Disburse(w, p, a) PROVE PortfolioInv'
    <3> DEFINE r == [loans[p] EXCEPT !.status = "active", !.balance = a]
    <3>1. Knows("disbursing", p, r)
      BY <2>1, <2>5 DEF Disburse, Knows, LoanRow, Serviced
    <3>2. Hold(w, "disbursing", p, r) /\ UNCHANGED dbVars
      BY <2>5 DEF Disburse
    <3> HIDE DEF r
    <3> QED BY <1>1, <3>1, <3>2
  <2>6. CASE AgingRead(w, p)
    <3> DEFINE r == [loans[p] EXCEPT !.status =
                        AgedStatus(loans[p], overdue[p], p \in matured)]
    <3>1. payouts[p] > 0
      BY <2>1, <2>6 DEF AgingRead
    <3>2. Hold(w, "marking", p, r) /\ UNCHANGED dbVars
      BY <2>6 DEF AgingRead
    <3> HIDE DEF r
    <3>3. Knows("marking", p, r)
      BY <3>1 DEF Knows
    <3> QED BY <1>1, <3>2, <3>3
  <2>7. ASSUME NEW k \in 0..MaxAmount, Repay(w, p, k) PROVE PortfolioInv'
    <3> DEFINE r == [loans[p] EXCEPT !.balance = @ - k]
    <3>1. Knows("repaying", p, r)
      BY <2>1, <2>7 DEF Repay, Knows, LoanRow, Serviced
    <3>2. Hold(w, "repaying", p, r) /\ UNCHANGED dbVars
      BY <2>7 DEF Repay
    <3> HIDE DEF r
    <3> QED BY <1>1, <3>1, <3>2
  <2>8. CASE Settle(w, p)
    <3> DEFINE r == [loans[p] EXCEPT !.status = "closed", !.balance = 0]
    <3>1. Knows("settling", p, r)
      BY <2>1, <2>8 DEF Settle, Knows, LoanRow, Serviced
    <3>2. Hold(w, "settling", p, r) /\ UNCHANGED dbVars
      BY <2>8 DEF Settle
    <3> HIDE DEF r
    <3> QED BY <1>1, <3>1, <3>2
  <2>9. CASE Destroy(w, p)
    <3> DEFINE r == loans[p]
    <3>1. Knows("deleting", p, r)
      BY <2>1, <2>9 DEF Destroy, Knows, LoanRow, Serviced
    <3>2. Hold(w, "deleting", p, r) /\ UNCHANGED dbVars
      BY <2>9 DEF Destroy
    <3> HIDE DEF r
    <3> QED BY <1>1, <3>1, <3>2
  <2> QED BY <1>4, <2>2, <2>3, <2>4, <2>5, <2>6, <2>7, <2>8, <2>9
<1> QED BY <1>2, <1>3, <1>4

(* A request that writes puts a serviced status on paid-out loans only.    *)
LEMMA WritePaid ==
    ASSUME TypeInv, PortfolioInv, NEW w \in Workers,
           \/ ApplyInsert(w) \/ Save(w) \/ DisburseCommit(w) \/ AgingSave(w)
           \/ RepayCommit(w) \/ SettleCommit(w) \/ DestroyCommit(w) \/ Abort(w)
    PROVE  PortfolioInv'
<1>1. /\ stage[w] \in RowStages => target[w] \in Pks
      /\ \A v \in Workers : stage[v] \in RowStages <=> target[v] \in Pks
  BY DEF TypeInv, ReqTypeOK
<1>2. \A p \in Pks : payouts'[p] >= payouts[p] /\ payouts[p] \in Nat /\ payouts'[p] \in Nat
  BY <1>1 DEF TypeInv, DbTypeOK, ApplyInsert, Save, DisburseCommit, AgingSave, RepayCommit,
     SettleCommit, SaveRepaid, DestroyCommit, Abort, dbVars, RowStages
<1>3. InFlightPaid'
  <2>1. Respond(w)
    BY DEF ApplyInsert, Save, DisburseCommit, AgingSave, RepayCommit, SettleCommit,
           SaveRepaid, DestroyCommit, Abort
  <2>2. \A v \in Workers : payouts[target[v]] > 0 /\ stage[v] \in RowStages =>
           payouts'[target[v]] > 0
    <3> SUFFICES ASSUME NEW v \in Workers, payouts[target[v]] > 0, stage[v] \in RowStages
                 PROVE  payouts'[target[v]] > 0
      OBVIOUS
    <3>1. target[v] \in Pks
      BY <1>1
    <3> HIDE <1>1
    <3> QED BY <1>2, <3>1
  <2>3. ASSUME NEW v \in Workers
        PROVE  \/ stage'[v] = "idle"
               \/ /\ stage'[v] = stage[v] /\ target'[v] = target[v]
                  /\ obj'[v] = obj[v]
    BY <2>1 DEF Respond, Hold, TypeInv, ReqTypeOK
  <2> QED BY <2>2, <2>3 DEF InFlightPaid, PortfolioInv, Knows, RowStages
<1>4. ServicedWasPaidOut'
  <2> SUFFICES ASSUME NEW p \in Pks, loans'[p] # NoRow, loans'[p].status \in Serviced
               PROVE  payouts'[p] > 0
    BY DEF ServicedWasPaidOut, Rows
  <2>1. CASE loans'[p] = loans[p]
    BY <1>2, <2>1 DEF PortfolioInv, ServicedWasPaidOut, Rows
  <2>2. CASE loans'[p] # loans[p]
    <3>1. CASE ApplyInsert(w)
      BY <2>2, <3>1 DEF ApplyInsert, PortfolioInv, InFlightPaid, Knows, TypeInv, DbTypeOK
    <3>2. CASE Save(w)
      BY <2>2, <3>2 DEF Save, PortfolioInv, InFlightPaid, Knows, TypeInv, DbTypeOK
    <3>3. CASE DisburseCommit(w)
      BY <2>2, <3>3 DEF DisburseCommit, TypeInv, DbTypeOK
    <3>4. CASE AgingSave(w)
      BY <2>2, <3>4 DEF AgingSave, PortfolioInv, InFlightPaid, Knows, TypeInv, DbTypeOK
    <3>5. CASE RepayCommit(w)
      BY <2>2, <3>5 DEF RepayCommit, SaveRepaid, PortfolioInv, InFlightPaid, Knows, TypeInv, DbTypeOK
    <3>6. CASE SettleCommit(w)
      BY <2>2, <3>6 DEF SettleCommit, SaveRepaid, PortfolioInv, InFlightPaid, Knows, TypeInv,
                        DbTypeOK, Serviced
    <3>7. CASE DestroyCommit(w)
      BY <2>2, <3>7 DEF DestroyCommit, TypeInv, DbTypeOK
    <3>8. CASE Abort(w)
      BY <2>2, <3>8 DEF Abort, dbVars
    <3> QED BY <3>1, <3>2, <3>3, <3>4, <3>5, <3>6, <3>7, <3>8
  <2> QED BY <2>1, <2>2
<1> QED BY <1>3, <1>4 DEF PortfolioInv

(* Every loan in the serviced portfolio was paid out.                      *)
THEOREM PortfolioWasPaidOut == Spec => []ServicedWasPaidOut
<1>1. Init => PortfolioInv
  BY DEF Init, PortfolioInv, ServicedWasPaidOut, InFlightPaid, Knows, Rows
<1>2. TypeInv /\ PortfolioInv /\ [Next]_vars => PortfolioInv'
  <2> SUFFICES ASSUME TypeInv, PortfolioInv, [Next]_vars PROVE PortfolioInv'
    OBVIOUS
  <2>1. ASSUME UNCHANGED <<loans, payouts, reqVars>> PROVE PortfolioInv'
    BY <2>1 DEF reqVars, PortfolioInv, ServicedWasPaidOut, InFlightPaid, Knows, Rows
  <2>2. CASE UNCHANGED vars
    BY <2>1, <2>2 DEF vars, dbVars
  <2>3. ASSUME NEW w \in Workers, Serve(w) PROVE PortfolioInv'
    BY <2>3, ReadPaid, WritePaid DEF Serve
  <2>4. ASSUME NEW t \in journal, VoidJournal(t) PROVE PortfolioInv'
    BY <2>1, <2>4 DEF VoidJournal
  <2>5. ASSUME NEW p \in Pks, DayPasses(p) \/ Mature(p) PROVE PortfolioInv'
    BY <2>1, <2>5 DEF DayPasses, Mature, dbVars
  <2> QED BY <2>2, <2>3, <2>4, <2>5 DEF Next
<1> QED BY <1>1, <1>2, TypeInvariant, PTL DEF Spec, PortfolioInv

-----------------------------------------------------------------------------
(* One payout that stands.                                                 *)

(* A key that is not used yet belongs to no loan, journal or request.      *)
Fresh ==
    /\ \A p \in Pks : p >= nextPk =>
          loans[p] = NoRow /\ \A w \in Workers : target[w] # p
    /\ \A t \in journal : t.paid < nextPk

(* A loan has one number in the table and in all requests that hold it.    *)
OneNumber ==
    \A p \in Pks, w \in Workers : target[w] = p =>
        /\ loans[p] # NoRow => obj[w].number = loans[p].number
        /\ \A v \in Workers : target[v] = p => obj[v].number = obj[w].number

(* A journal is posted under the number of the loan it paid out.           *)
Journaled ==
    \A t \in journal :
        /\ loans[t.paid] # NoRow => loans[t.paid].number = t.number
        /\ \A w \in Workers : target[w] = t.paid => obj[w].number = t.number

(* A payout whose journal is not voided stands in the journal.             *)
Stands(p) == \E t \in journal : t.paid = p

PayoutsStand == \A p \in Pks : payouts[p] > voided[p] => Stands(p)

OnceInv == Fresh /\ OneNumber /\ Journaled /\ PayoutsStand /\ PaidOutOnce

(* A request that reads a loan keeps its number.                           *)
LEMMA ReadOnce ==
    ASSUME TypeInv, OnceInv, NEW w \in Workers, NEW p \in Pks,
           \/ Appraise(w, p)
           \/ \E a \in Amounts : Approve(w, p, a)
           \/ Reject(w, p)
           \/ \E a \in Amounts : Disburse(w, p, a)
           \/ AgingRead(w, p)
           \/ \E k \in 0..MaxAmount : Repay(w, p, k)
           \/ Settle(w, p)
           \/ Destroy(w, p)
    PROVE  OnceInv'
<1>1. loans[p] # NoRow /\ loans[p] \in LoanRow
  BY DEF Appraise, Approve, Reject, Disburse, AgingRead, Repay, Settle, Destroy, Read,
         TypeInv, DbTypeOK
<1>2. UNCHANGED dbVars
  BY DEF Appraise, Approve, Reject, Disburse, AgingRead, Repay, Settle, Destroy
<1>3. /\ target' = [target EXCEPT ![w] = p]
      /\ \A v \in Workers \ {w} : obj'[v] = obj[v]
  BY DEF Appraise, Approve, Reject, Disburse, AgingRead, Repay, Settle, Destroy, Hold,
         TypeInv, ReqTypeOK
<1>4. obj'[w].number = loans[p].number
  <2>1. PICK s : \/ Hold(w, s, p, [loans[p] EXCEPT !.status = "appraised"])
                 \/ \E a \in Amounts : Hold(w, s, p, [loans[p] EXCEPT
                       !.status = "approved", !.amount = a, !.balance = a])
                 \/ Hold(w, s, p, [loans[p] EXCEPT !.status = "rejected"])
                 \/ \E a \in Amounts : Hold(w, s, p, [loans[p] EXCEPT
                       !.status = "active", !.balance = a])
                 \/ Hold(w, s, p, [loans[p] EXCEPT !.status =
                       AgedStatus(loans[p], overdue[p], p \in matured)])
                 \/ \E k \in 0..MaxAmount : Hold(w, s, p, [loans[p] EXCEPT
                       !.balance = @ - k])
                 \/ Hold(w, s, p, [loans[p] EXCEPT !.status = "closed", !.balance = 0])
                 \/ Hold(w, s, p, loans[p])
    BY DEF Appraise, Approve, Reject, Disburse, AgingRead, Repay, Settle, Destroy
  <2>2. ASSUME NEW r, Hold(w, s, p, r) PROVE obj'[w] = r
    BY <2>2 DEF Hold, TypeInv, ReqTypeOK
  <2> QED BY <1>1, <2>1, <2>2 DEF LoanRow
<1>5. Fresh'
  <2>1. p < nextPk
    BY <1>1 DEF OnceInv, Fresh, TypeInv, DbTypeOK, Pks
  <2> QED BY <1>2, <1>3, <2>1 DEF Fresh, OnceInv, dbVars, TypeInv, ReqTypeOK, DbTypeOK, Pks
<1>6. OneNumber'
  BY <1>1, <1>2, <1>3, <1>4 DEF OneNumber, OnceInv, dbVars, TypeInv, ReqTypeOK
<1>7. Journaled'
  BY <1>1, <1>2, <1>3, <1>4 DEF Journaled, OnceInv, dbVars, TypeInv, ReqTypeOK
<1>8. PayoutsStand'
  BY <1>2 DEF OnceInv, PayoutsStand, Stands, dbVars
<1> QED BY <1>2, <1>5, <1>6, <1>7, <1>8 DEF OnceInv, PaidOutOnce, dbVars

(* A request that answers and gives no loan another number, keeps what the *)
(* journal says and pays nothing out, leaves the invariant alone.          *)
LEMMA RespondOnce ==
    ASSUME TypeInv, OnceInv, NEW w \in Workers, Respond(w),
           UNCHANGED <<nextPk, payouts, voided>>,
           \A t \in journal' : \E u \in journal : u.number = t.number /\ u.paid = t.paid,
           \A u \in journal : \E t \in journal' : t.paid = u.paid,
           \A p \in Pks :
              \/ loans'[p] = NoRow
              \/ loans[p] # NoRow /\ loans'[p].number = loans[p].number
              \/ target[w] = p /\ loans'[p].number = obj[w].number,
           \A p \in Pks : p >= nextPk => loans'[p] = NoRow
    PROVE  OnceInv'
<1>1. /\ target'[w] = 0
      /\ \A v \in Workers \ {w} : target'[v] = target[v] /\ obj'[v] = obj[v]
  BY DEF Respond, Hold, TypeInv, ReqTypeOK
<1>2. 0 \notin Pks
  BY Domains
<1>3. Fresh'
  BY <1>1, <1>2 DEF OnceInv, Fresh
<1>4. OneNumber'
  BY <1>1, <1>2 DEF OnceInv, OneNumber
<1>5. Journaled'
  <2> SUFFICES ASSUME NEW t \in journal'
               PROVE  /\ loans'[t.paid] # NoRow => loans'[t.paid].number = t.number
                      /\ \A v \in Workers : target'[v] = t.paid => obj'[v].number = t.number
    BY DEF Journaled
  <2>1. PICK u \in journal : u.number = t.number /\ u.paid = t.paid
    OBVIOUS
  <2>2. u.paid \in Pks
    BY DEF TypeInv, DbTypeOK, Transactions
  <2> QED BY <1>1, <1>2, <2>1, <2>2 DEF OnceInv, Journaled
<1>6. PayoutsStand'
  BY DEF OnceInv, PayoutsStand, Stands
<1> QED BY <1>3, <1>4, <1>5, <1>6 DEF OnceInv, PaidOutOnce

(* A disbursement commits only where no payout of its loan stands.         *)
LEMMA DisburseOnce ==
    ASSUME TypeInv, OnceInv, NEW w \in Workers, DisburseCommit(w)
    PROVE  OnceInv'
<1> DEFINE p == target[w]
           n == obj[w].number
           t == [number |-> n, loan |-> p, paid |-> p]
<1>1. p \in Pks /\ 0 \notin Pks /\ loans[p] # NoRow /\ obj[w] \in LoanRow
  BY Domains DEF DisburseCommit, TypeInv, ReqTypeOK, RowStages
<1>2. ~Posted(n) /\ journal' = journal \cup {t} /\ voided' = voided /\ nextPk' = nextPk
      /\ payouts' = [payouts EXCEPT ![p] = @ + 1] /\ Respond(w)
      /\ loans' = [loans EXCEPT ![p] = obj[w]]
  BY DEF DisburseCommit
<1>3. t.number = n /\ t.paid = p
  OBVIOUS
<1>4. /\ target'[w] = 0
      /\ \A v \in Workers \ {w} : target'[v] = target[v] /\ obj'[v] = obj[v]
  BY <1>2 DEF Respond, Hold, TypeInv, ReqTypeOK
<1>5. \A u \in journal : u.paid # p
  BY <1>2 DEF OnceInv, Journaled, Posted
<1>6. p < nextPk
  BY <1>1 DEF OnceInv, Fresh, TypeInv, DbTypeOK, Pks
<1>7. \A v \in Workers : target'[v] = p => obj'[v].number = n
  BY <1>1, <1>4 DEF OnceInv, OneNumber
<1> HIDE DEF p, n, t
<1>8. Fresh'
  BY <1>1, <1>2, <1>3, <1>4, <1>6 DEF OnceInv, Fresh, TypeInv, DbTypeOK, Pks
<1>9. OneNumber'
  BY <1>1, <1>2, <1>4 DEF OnceInv, OneNumber, TypeInv, DbTypeOK, p
<1>10. Journaled'
  <2>1. loans'[p].number = n
    BY <1>1, <1>2 DEF TypeInv, DbTypeOK, n
  <2>2. ASSUME NEW u \in journal
        PROVE  /\ loans'[u.paid] # NoRow => loans'[u.paid].number = u.number
               /\ \A v \in Workers : target'[v] = u.paid => obj'[v].number = u.number
    <3>1. u.paid \in Pks /\ u.paid # p
      BY <1>5 DEF TypeInv, DbTypeOK, Transactions
    <3>2. loans'[u.paid] = loans[u.paid]
      BY <1>2, <3>1 DEF TypeInv, DbTypeOK
    <3> QED BY <1>1, <1>4, <3>1, <3>2 DEF OnceInv, Journaled
  <2> QED BY <1>2, <1>3, <1>7, <2>1, <2>2 DEF Journaled
<1>11. payouts[p] <= voided[p]
  BY <1>1, <1>5 DEF OnceInv, PayoutsStand, Stands, TypeInv, DbTypeOK
<1>12. ASSUME NEW q \in Pks
       PROVE  /\ payouts'[q] <= 1 + voided'[q]
              /\ payouts'[q] > voided'[q] => Stands(q)'
  <2>1. CASE q = p
    <3>1. Stands(q)'
      BY <1>2, <1>3, <2>1 DEF Stands
    <3>2. payouts'[q] = payouts[q] + 1
      BY <1>2, <2>1 DEF TypeInv, DbTypeOK
    <3> QED BY <1>2, <1>11, <2>1, <3>1, <3>2 DEF TypeInv, DbTypeOK
  <2>2. CASE q # p
    <3>1. payouts'[q] = payouts[q]
      BY <1>1, <1>2, <2>2 DEF TypeInv, DbTypeOK
    <3>2. Stands(q) => Stands(q)'
      BY <1>2 DEF Stands
    <3> QED BY <1>2, <3>1, <3>2 DEF OnceInv, PayoutsStand, PaidOutOnce
  <2> QED BY <2>1, <2>2
<1> QED BY <1>8, <1>9, <1>10, <1>12 DEF OnceInv, PayoutsStand, PaidOutOnce

(* A new row takes a key that nothing knew before.                         *)
LEMMA InsertOnce ==
    ASSUME TypeInv, OnceInv, NEW w \in Workers, ApplyInsert(w)
    PROVE  OnceInv'
<1>1. nextPk \in Pks /\ 0 \notin Pks
  BY Domains, ConstantsOK DEF ApplyInsert, TypeInv, DbTypeOK, Pks
<1>2. /\ loans[nextPk] = NoRow
      /\ \A v \in Workers : target[v] # nextPk
      /\ \A t \in journal : t.paid \in Pks /\ t.paid < nextPk
  BY <1>1 DEF OnceInv, Fresh, Pks, TypeInv, DbTypeOK, Transactions
<1>3. /\ target'[w] = 0
      /\ \A v \in Workers \ {w} : target'[v] = target[v] /\ obj'[v] = obj[v]
      /\ loans' = [loans EXCEPT ![nextPk] = obj[w]]
      /\ nextPk' = nextPk + 1
      /\ UNCHANGED <<payouts, voided, journal>>
  BY DEF ApplyInsert, Respond, Hold, TypeInv, ReqTypeOK
<1>4. Fresh'
  BY <1>1, <1>2, <1>3 DEF OnceInv, Fresh, TypeInv, DbTypeOK, Pks
<1>5. OneNumber'
  BY <1>1, <1>2, <1>3 DEF OnceInv, OneNumber, TypeInv, DbTypeOK
<1>6. Journaled'
  BY <1>1, <1>2, <1>3 DEF OnceInv, Journaled, TypeInv, DbTypeOK, Pks
<1>7. PayoutsStand'
  BY <1>3 DEF OnceInv, PayoutsStand, Stands
<1> QED BY <1>3, <1>4, <1>5, <1>6, <1>7 DEF OnceInv, PaidOutOnce

(* Every other request that writes falls under RespondOnce.                *)
LEMMA WriteOnce ==
    ASSUME TypeInv, OnceInv, NEW w \in Workers,
           \/ Save(w) \/ AgingSave(w) \/ RepayCommit(w)
           \/ SettleCommit(w) \/ DestroyCommit(w) \/ Abort(w)
    PROVE  OnceInv'
<1>1. Respond(w) /\ UNCHANGED <<nextPk, payouts, voided>>
  BY DEF Save, AgingSave, RepayCommit, SettleCommit, SaveRepaid, DestroyCommit, Abort, dbVars
<1>2. /\ \A t \in journal' : \E u \in journal : u.number = t.number /\ u.paid = t.paid
      /\ \A u \in journal : \E t \in journal' : t.paid = u.paid
  <2>1. CASE journal' = journal
    BY <2>1
  <2>2. CASE DestroyCommit(w)
    <3> DEFINE D(t) == IF t.loan = target[w] THEN [t EXCEPT !.loan = 0] ELSE t
    <3>1. journal' = {D(t) : t \in journal}
      BY <2>2 DEF DestroyCommit
    <3>2. \A t \in journal : D(t).number = t.number /\ D(t).paid = t.paid
      BY DEF TypeInv, DbTypeOK, Transactions
    <3> HIDE DEF D
    <3> QED BY <3>1, <3>2
  <2> QED BY <2>1, <2>2
          DEF Save, AgingSave, RepayCommit, SettleCommit, SaveRepaid, Abort, dbVars
<1>3. ASSUME NEW p \in Pks
      PROVE  /\ \/ loans'[p] = NoRow
                \/ loans[p] # NoRow /\ loans'[p].number = loans[p].number
                \/ target[w] = p /\ loans'[p].number = obj[w].number
             /\ loans'[p] = loans[p] \/ target[w] = p \/ loans'[p] = NoRow
  <2>1. CASE Save(w)
    BY <2>1 DEF Save, TypeInv, DbTypeOK
  <2>2. CASE AgingSave(w)
    <3>1. loans' = [loans EXCEPT ![target[w]].status = obj[w].status] /\ loans[target[w]] # NoRow
      BY <2>2 DEF AgingSave
    <3>2. loans[p] # NoRow => loans[p] \in LoanRow
      BY DEF TypeInv, DbTypeOK
    <3>3. CASE target[w] = p
      <4>1. loans'[p] = [loans[p] EXCEPT !.status = obj[w].status]
        BY <3>1, <3>3 DEF TypeInv, DbTypeOK
      <4> QED BY <3>1, <3>2, <3>3, <4>1 DEF LoanRow
    <3>4. CASE target[w] # p
      BY <3>1, <3>4 DEF TypeInv, DbTypeOK
    <3> QED BY <3>3, <3>4
  <2>3. CASE RepayCommit(w) \/ SettleCommit(w)
    BY <2>3 DEF RepayCommit, SettleCommit, SaveRepaid, TypeInv, DbTypeOK
  <2>4. CASE DestroyCommit(w)
    BY <2>4 DEF DestroyCommit, TypeInv, DbTypeOK
  <2>5. CASE Abort(w)
    BY <2>5 DEF Abort, dbVars
  <2> QED BY <2>1, <2>2, <2>3, <2>4, <2>5
<1>4. \A p \in Pks : p >= nextPk => loans'[p] = NoRow
  BY <1>3 DEF OnceInv, Fresh
<1> QED BY <1>1, <1>2, <1>3, <1>4, RespondOnce

(* An application in progress is about no row.                             *)
LEMMA ApplyOnce ==
    ASSUME TypeInv, OnceInv, NEW w \in Workers,
           \/ \E m \in Members, a \in Amounts : ApplyCheck(w, m, a)
           \/ ApplyNumber(w)
    PROVE  OnceInv'
<1>1. /\ target'[w] = 0
      /\ \A v \in Workers \ {w} : target'[v] = target[v] /\ obj'[v] = obj[v]
      /\ UNCHANGED dbVars
  BY DEF ApplyCheck, ApplyNumber, Hold, TypeInv, ReqTypeOK
<1>2. 0 \notin Pks
  BY Domains
<1>3. Fresh'
  BY <1>1, <1>2 DEF OnceInv, Fresh, dbVars
<1>4. OneNumber'
  BY <1>1, <1>2 DEF OnceInv, OneNumber, dbVars
<1>5. Journaled'
  <2>1. \A t \in journal : t.paid \in Pks
    BY DEF TypeInv, DbTypeOK, Transactions
  <2> QED BY <1>1, <1>2, <2>1 DEF OnceInv, Journaled, dbVars
<1>6. PayoutsStand'
  BY <1>1 DEF OnceInv, PayoutsStand, Stands, dbVars
<1> QED BY <1>1, <1>3, <1>4, <1>5, <1>6 DEF OnceInv, PaidOutOnce, dbVars

(* A voided journal is one payout of its loan that no longer stands.       *)
LEMMA VoidOnce ==
    ASSUME TypeInv, OnceInv, NEW t \in journal, VoidJournal(t)
    PROVE  OnceInv'
<1>1. /\ journal' = journal \ {t}
      /\ voided' = [voided EXCEPT ![t.paid] = @ + 1]
      /\ UNCHANGED <<loans, nextPk, payouts, target, obj>>
  BY DEF VoidJournal, reqVars
<1>2. t.paid \in Pks
  BY DEF TypeInv, DbTypeOK, Transactions
<1>3. Fresh' /\ OneNumber' /\ Journaled'
  BY <1>1 DEF OnceInv, Fresh, OneNumber, Journaled
<1>4. ASSUME NEW p \in Pks
      PROVE  /\ payouts'[p] <= 1 + voided'[p]
             /\ payouts'[p] > voided'[p] => Stands(p)'
  <2>1. CASE p = t.paid
    BY <1>1, <1>2, <2>1 DEF OnceInv, PaidOutOnce, TypeInv, DbTypeOK
  <2>2. CASE p # t.paid
    <3>1. voided'[p] = voided[p]
      BY <1>1, <1>2, <2>2 DEF TypeInv, DbTypeOK
    <3>2. Stands(p) => Stands(p)'
      BY <1>1, <2>2 DEF Stands
    <3> QED BY <1>1, <3>1, <3>2 DEF OnceInv, PayoutsStand, PaidOutOnce
  <2> QED BY <2>1, <2>2
<1> QED BY <1>3, <1>4 DEF OnceInv, PayoutsStand, PaidOutOnce

(* At most one payout of a loan stands, whatever requests overlap and      *)
(* whenever administrators void journals.                                  *)
THEOREM DisbursedOnce == Spec => []PaidOutOnce
<1>1. Init => OnceInv
  BY Domains DEF Init, OnceInv, Fresh, OneNumber, Journaled, PayoutsStand, PaidOutOnce
<1>2. TypeInv /\ OnceInv /\ [Next]_vars => OnceInv'
  <2> SUFFICES ASSUME TypeInv, OnceInv, [Next]_vars PROVE OnceInv'
    OBVIOUS
  <2>1. ASSUME UNCHANGED <<dbVars, reqVars>> PROVE OnceInv'
    BY <2>1 DEF dbVars, reqVars, OnceInv, Fresh, OneNumber, Journaled, PayoutsStand, Stands,
            PaidOutOnce
  <2>2. CASE UNCHANGED vars
    BY <2>1, <2>2 DEF vars
  <2>3. ASSUME NEW w \in Workers, Serve(w) PROVE OnceInv'
    BY <2>3, ApplyOnce, ReadOnce, InsertOnce, DisburseOnce, WriteOnce DEF Serve
  <2>4. ASSUME NEW t \in journal, VoidJournal(t) PROVE OnceInv'
    BY <2>4, VoidOnce
  <2>5. CASE \E p \in Pks : DayPasses(p) \/ Mature(p)
    <3>1. ASSUME NEW p \in Pks, DayPasses(p) PROVE OnceInv'
      <4>1. UNCHANGED <<dbVars, reqVars>>
        BY <3>1 DEF DayPasses
      <4> QED BY <2>1, <4>1
    <3>2. ASSUME NEW p \in Pks, Mature(p) PROVE OnceInv'
      <4>1. UNCHANGED <<dbVars, reqVars>>
        BY <3>2 DEF Mature
      <4> QED BY <2>1, <4>1
    <3> QED BY <2>5, <3>1, <3>2
  <2> QED BY <2>2, <2>3, <2>4, <2>5 DEF Next
<1> QED BY <1>1, <1>2, TypeInvariant, PTL DEF Spec, OnceInv

-----------------------------------------------------------------------------
(* Repayments keep their loan.                                             *)

(* A loan that received repayments stays in the table, although the check  *)
(* that lets a request delete it is long past when the request deletes.    *)
THEOREM RepaidLoansStay == Spec => []RepaidLoanKept
<1>1. Init => RepaidLoanKept
  BY DEF Init, RepaidLoanKept
<1>2. TypeInv /\ RepaidLoanKept /\ [Next]_vars => RepaidLoanKept'
  <2> SUFFICES ASSUME TypeInv, RepaidLoanKept, [Next]_vars PROVE RepaidLoanKept'
    OBVIOUS
  <2>1. ASSUME UNCHANGED <<loans, repaid>> PROVE RepaidLoanKept'
    BY <2>1 DEF RepaidLoanKept
  <2>2. CASE UNCHANGED vars
    BY <2>1, <2>2 DEF vars, dbVars
  <2>3. ASSUME NEW w \in Workers,
               \/ ApplyInsert(w) \/ Save(w) \/ DisburseCommit(w)
               \/ RepayCommit(w) \/ SettleCommit(w)
        PROVE  RepaidLoanKept'
    <3>1. obj[w] # NoRow
      BY <2>3, ConstantsOK DEF ApplyInsert, Save, DisburseCommit, RepayCommit, SettleCommit,
         TypeInv, ReqTypeOK
    <3> DEFINE Writes(p) == /\ p \in Pks
                            /\ loans' = [loans EXCEPT ![p] = obj[w]]
                            /\ repaid' = repaid \/ repaid' = repaid \cup {p}
    <3>2. ASSUME ApplyInsert(w) PROVE \E p : Writes(p)
      <4>1. nextPk \in Pks
        BY <3>2, ConstantsOK DEF ApplyInsert, TypeInv, DbTypeOK, Pks
      <4>2. Writes(nextPk)
        BY <3>2, <4>1 DEF ApplyInsert
      <4> QED BY <4>2
    <3>3. ASSUME Save(w) \/ DisburseCommit(w) \/ RepayCommit(w) \/ SettleCommit(w)
        PROVE  \E p : Writes(p)
      <4>1. target[w] \in Pks
        BY <3>3 DEF Save, DisburseCommit, RepayCommit, SettleCommit, TypeInv, ReqTypeOK, RowStages
      <4>2. Writes(target[w])
        BY <3>3, <4>1 DEF Save, DisburseCommit, RepayCommit, SettleCommit, SaveRepaid
      <4> QED BY <4>2
    <3>4. \E p : Writes(p)
      BY <2>3, <3>2, <3>3
    <3> QED BY <3>1, <3>4 DEF RepaidLoanKept, TypeInv, DbTypeOK
  <2>4. ASSUME NEW w \in Workers, AgingSave(w) PROVE RepaidLoanKept'
    <3>1. target[w] \in Pks /\ loans[target[w]] \in LoanRow /\ obj[w] \in LoanRow
      BY <2>4 DEF AgingSave, TypeInv, ReqTypeOK, DbTypeOK, RowStages
    <3>2. [loans[target[w]] EXCEPT !.status = obj[w].status] \in LoanRow
      BY <3>1 DEF LoanRow
    <3>3. loans' = [loans EXCEPT ![target[w]] =
                       [loans[target[w]] EXCEPT !.status = obj[w].status]]
      BY <2>4, <3>1 DEF AgingSave, TypeInv, DbTypeOK
    <3>4. repaid' = repaid
      BY <2>4 DEF AgingSave
    <3> QED BY <3>1, <3>2, <3>3, <3>4, ConstantsOK DEF RepaidLoanKept, TypeInv, DbTypeOK
  <2>5. ASSUME NEW w \in Workers, DestroyCommit(w) PROVE RepaidLoanKept'
    BY <2>5 DEF DestroyCommit, RepaidLoanKept, TypeInv, DbTypeOK
  <2>6. ASSUME NEW w \in Workers, Serve(w) PROVE RepaidLoanKept'
    <3>1. \/ UNCHANGED <<loans, repaid>>
          \/ ApplyInsert(w) \/ Save(w) \/ DisburseCommit(w)
          \/ RepayCommit(w) \/ SettleCommit(w) \/ AgingSave(w) \/ DestroyCommit(w)
      BY <2>6 DEF Serve, ApplyCheck, ApplyNumber, Appraise, Approve, Reject, Disburse,
         AgingRead, Repay, Settle, Destroy, Abort, dbVars
    <3> QED BY <2>1, <2>3, <2>4, <2>5, <3>1
  <2>7. CASE \E t \in journal : VoidJournal(t)
    BY <2>1, <2>7 DEF VoidJournal
  <2>8. CASE \E p \in Pks : DayPasses(p) \/ Mature(p)
    BY <2>1, <2>8 DEF DayPasses, Mature, dbVars
  <2> QED BY <2>2, <2>6, <2>7, <2>8 DEF Next
<1> QED BY <1>1, <1>2, TypeInvariant, PTL DEF Spec

-----------------------------------------------------------------------------
(* Requests served one at a time.                                          *)

(* No serviced row is paid off, and no closed one owed.                    *)
Owed(r) ==
    /\ r.status \in Serviced => r.balance > 0
    /\ r.status = "closed" => r.balance = 0

(* What the loan object r of a request says of the row in the table: an    *)
(* application is of a member without an open loan; any other request can  *)
(* neither open a loan that was not open, nor change one that is closed.   *)
Applicant(r) ==
    /\ r.status = "pending_application"
    /\ \A q \in Rows : loans[q].member = r.member => loans[q].status \notin Open

Current(s, row, r) ==
    /\ row # NoRow
    /\ row.member = r.member
    /\ r.status \in Open => row.status \in Open
    /\ row.status = "closed" => s = "settling" /\ r = row
    /\ s # "deleting" /\ s # "marking" => Owed(r)
    /\ s = "marking" => row.status \in Serviced /\ r.status \in Serviced

Grounded(w) ==
    /\ stage[w] \in {"numbering", "inserting"} => Applicant(obj[w])
    /\ stage[w] \in RowStages => Current(stage[w], loans[target[w]], obj[w])

AheadIsFree == \A p \in Pks : p >= nextPk => loans[p] = NoRow
RowsOwed    == \A p \in Rows : Owed(loans[p])

(* While requests are served in turn, what each one holds is current.      *)
InTurn ==
    /\ OneAtATime
    /\ OneOpenLoan
    /\ AheadIsFree
    /\ RowsOwed
    /\ \A w \in Workers : Grounded(w)

TurnInv == ~overlapped => InTurn

(* A request that reads holds what the table says.                         *)
LEMMA HoldTurn ==
    ASSUME TypeInv, InTurn, OneAtATime', UNCHANGED dbVars, NEW w \in Workers,
           NEW s \in Stages \ {"idle"}, NEW p, NEW r, Hold(w, s, p, r),
           s \in {"numbering", "inserting"} => Applicant(r),
           s \in RowStages => Current(s, loans[p], r)
    PROVE  InTurn'
<1>1. /\ stage'[w] = s /\ target'[w] = p /\ obj'[w] = r
      /\ \A v \in Workers : v # w => stage'[v] = "idle"
  BY DEF Hold, TypeInv, ReqTypeOK, OneAtATime
<1>2. loans' = loans /\ nextPk' = nextPk
  BY DEF dbVars
<1>3. ASSUME NEW v \in Workers PROVE Grounded(v)'
  <2>1. CASE v = w
    BY <1>1, <1>2, <2>1 DEF Grounded, Applicant, Rows
  <2>2. CASE v # w
    BY <1>1, <2>2 DEF Grounded, RowStages
  <2> QED BY <2>1, <2>2
<1> QED BY <1>2, <1>3 DEF InTurn, OneOpenLoan, AheadIsFree, RowsOwed, Rows

(* Once the only request is answered, no request is in progress.           *)
LEMMA RespondTurn ==
    ASSUME TypeInv, InTurn, NEW w \in Workers, stage[w] # "idle", Respond(w)
    PROVE  OneAtATime' /\ \A v \in Workers : Grounded(v)'
<1>1. \A v \in Workers : stage'[v] = "idle"
  BY DEF Respond, Hold, TypeInv, ReqTypeOK, InTurn, OneAtATime
<1> QED BY <1>1 DEF OneAtATime, Grounded, RowStages

(* A request that overwrites a row of the same member opens no loan.       *)
LEMMA PutTurn ==
    ASSUME TypeInv, InTurn, NEW w \in Workers, stage[w] # "idle", Respond(w),
           NEW p \in Pks, NEW r \in LoanRow, loans[p] # NoRow,
           loans' = [loans EXCEPT ![p] = r], nextPk' = nextPk,
           Owed(r), r.member = loans[p].member,
           r.status \in Open => loans[p].status \in Open
    PROVE  InTurn'
<1>1. /\ loans'[p] = r /\ r # NoRow
      /\ \A q \in Pks \ {p} : loans'[q] = loans[q]
      /\ Rows' = Rows
  BY ConstantsOK DEF TypeInv, DbTypeOK, Rows
<1>2. /\ \A q \in Rows : loans'[q].member = loans[q].member
      /\ \A q \in Rows : loans'[q].status \in Open => loans[q].status \in Open
  BY <1>1 DEF Rows
<1>3. OneOpenLoan'
  BY <1>1, <1>2 DEF InTurn, OneOpenLoan
<1>4. AheadIsFree'
  BY <1>1 DEF InTurn, AheadIsFree
<1>5. RowsOwed'
  BY <1>1 DEF InTurn, RowsOwed, Rows
<1> QED BY <1>3, <1>4, <1>5, RespondTurn DEF InTurn

(* The operations that read, on the table as it is.                        *)
LEMMA ReadTurn ==
    ASSUME TypeInv, InTurn, OneAtATime', NEW w \in Workers, NEW p \in Pks,
           \/ Appraise(w, p)
           \/ \E a \in Amounts : Approve(w, p, a)
           \/ Reject(w, p)
           \/ \E a \in Amounts : Disburse(w, p, a)
           \/ AgingRead(w, p)
           \/ \E k \in 0..MaxAmount : Repay(w, p, k)
           \/ Settle(w, p)
           \/ Destroy(w, p)
    PROVE  InTurn'
<1> DEFINE row == loans[p]
<1>1. row # NoRow /\ row \in LoanRow /\ row.balance \in Nat /\ Owed(row)
  <2>1. row # NoRow
    BY DEF Appraise, Approve, Reject, Disburse, AgingRead, Repay, Settle, Destroy, Read
  <2>2. row \in LoanRow
    BY <2>1 DEF TypeInv, DbTypeOK
  <2> QED BY <2>1, <2>2, ConstantsOK DEF InTurn, RowsOwed, Rows, LoanRow
<1>2. ASSUME NEW s \in RowStages, NEW r, Hold(w, s, p, r), UNCHANGED <<dbVars, dueVars>>,
             Current(s, row, r)
      PROVE  InTurn'
  <2>1. s \in Stages \ {"idle"} /\ s \notin {"numbering", "inserting"}
    BY DEF RowStages, Stages
  <2> QED BY <1>2, <2>1, HoldTurn
<1>3. CASE Appraise(w, p)
  <2> DEFINE r == [row EXCEPT !.status = "appraised"]
  <2>1. Current("saving", row, r)
    BY <1>1, <1>3 DEF Appraise, Current, Owed, Open, Applied, Serviced, LoanRow
  <2> QED BY <1>2, <1>3, <2>1 DEF Appraise, RowStages
<1>4. ASSUME NEW a \in Amounts, Approve(w, p, a) PROVE InTurn'
  <2> DEFINE r == [row EXCEPT !.status = "approved", !.amount = a, !.balance = a]
  <2>1. Current("saving", row, r)
    BY <1>1, <1>4 DEF Approve, Current, Owed, Open, Applied, Serviced, LoanRow
  <2> QED BY <1>2, <1>4, <2>1 DEF Approve, RowStages
<1>5. CASE Reject(w, p)
  <2> DEFINE r == [row EXCEPT !.status = "rejected"]
  <2>1. Current("saving", row, r)
    BY <1>1, <1>5 DEF Reject, Current, Owed, Open, Applied, Serviced, LoanRow
  <2> QED BY <1>2, <1>5, <2>1 DEF Reject, RowStages
<1>6. ASSUME NEW a \in Amounts, Disburse(w, p, a) PROVE InTurn'
  <2> DEFINE r == [row EXCEPT !.status = "active", !.balance = a]
  <2>1. a > 0
    BY DEF Amounts
  <2>2. Current("disbursing", row, r)
    BY <1>1, <1>6, <2>1 DEF Disburse, Current, Owed, Open, Applied, Serviced, LoanRow
  <2> QED BY <1>2, <1>6, <2>2 DEF Disburse, RowStages
<1>7. CASE AgingRead(w, p)
  <2> DEFINE aged == AgedStatus(row, overdue[p], p \in matured)
             r    == [row EXCEPT !.status = aged]
  <2>1. aged \in Serviced /\ row.status \in Serviced
    BY <1>7 DEF AgedStatus, AgingRead, Category, Serviced
  <2>2. Hold(w, "marking", p, r) /\ UNCHANGED <<dbVars, dueVars>>
    BY <1>7 DEF AgingRead
  <2> HIDE DEF aged
  <2>3. r.status = aged /\ r.member = row.member
    BY <1>1 DEF LoanRow
  <2>4. Current("marking", row, r)
    BY <1>1, <2>1, <2>3 DEF Current, Open, Serviced
  <2> QED BY <1>2, <2>2, <2>4 DEF RowStages
<1>8. ASSUME NEW k \in 0..MaxAmount, Repay(w, p, k) PROVE InTurn'
  <2> DEFINE r == [row EXCEPT !.balance = @ - k]
  <2>1. row.balance > 0 /\ row.balance - k > 0 /\ row.status # "closed"
    BY <1>1, <1>8, ConstantsOK DEF Repay, Owed
  <2>2. r.balance > 0 /\ r.status = row.status /\ r.member = row.member
    BY <1>1, <2>1 DEF LoanRow
  <2>3. Current("repaying", row, r)
    BY <1>1, <2>1, <2>2 DEF Current, Owed
  <2> QED BY <1>2, <1>8, <2>3 DEF Repay, RowStages
<1>9. CASE Settle(w, p)
  <2> DEFINE r == [row EXCEPT !.status = "closed", !.balance = 0]
  <2>1. r.status = "closed" /\ r.balance = 0 /\ r.member = row.member
    BY <1>1 DEF LoanRow
  <2>2. row.status = "closed" => r = row
    BY <1>1 DEF LoanRow, Owed
  <2>3. Current("settling", row, r)
    BY <1>1, <2>1, <2>2 DEF Current, Owed, Open, Applied, Serviced
  <2> QED BY <1>2, <1>9, <2>3 DEF Settle, RowStages
<1>10. CASE Destroy(w, p)
  <2>1. Current("deleting", row, row)
    BY <1>1, <1>10 DEF Destroy, Current
  <2> QED BY <1>2, <1>10, <2>1 DEF Destroy, RowStages
<1> QED BY <1>3, <1>4, <1>5, <1>6, <1>7, <1>8, <1>9, <1>10

(* An application that starts found no open loan of its member.            *)
LEMMA ApplyTurn ==
    ASSUME TypeInv, InTurn, OneAtATime', NEW w \in Workers,
           \/ \E m \in Members, a \in Amounts : ApplyCheck(w, m, a)
           \/ ApplyNumber(w)
    PROVE  InTurn'
<1>1. ASSUME NEW m \in Members, NEW a \in Amounts, ApplyCheck(w, m, a) PROVE InTurn'
  <2> DEFINE r == [member |-> m, number |-> 0, status |-> "pending_application",
                   amount |-> a, balance |-> a]
  <2>1. Applicant(r)
    BY <1>1 DEF ApplyCheck, Applicant
  <2>2. Hold(w, "numbering", 0, r) /\ UNCHANGED dbVars
    BY <1>1 DEF ApplyCheck
  <2> QED BY <2>1, <2>2, HoldTurn DEF Stages, RowStages
<1>2. CASE ApplyNumber(w)
  <2> DEFINE n == Cardinality(Rows) + 1
             r == [obj[w] EXCEPT !.number = n]
  <2>1. obj[w] \in LoanRow /\ Applicant(obj[w])
    BY <1>2 DEF ApplyNumber, TypeInv, ReqTypeOK, InTurn, Grounded
  <2>2. Hold(w, "inserting", 0, r) /\ UNCHANGED dbVars
    BY <1>2 DEF ApplyNumber
  <2> HIDE DEF n
  <2>3. Applicant(r)
    BY <2>1 DEF Applicant, LoanRow
  <2> QED BY <2>2, <2>3, HoldTurn DEF Stages, RowStages
<1> QED BY <1>1, <1>2

(* The row of an application is the only open loan of its member.          *)
LEMMA InsertTurn ==
    ASSUME TypeInv, InTurn, NEW w \in Workers, ApplyInsert(w)
    PROVE  InTurn'
<1> DEFINE r == obj[w]
           n == nextPk
<1>1. /\ n \in Pks /\ loans[n] = NoRow
      /\ r \in LoanRow /\ r # NoRow /\ Applicant(r)
  BY ConstantsOK DEF ApplyInsert, TypeInv, DbTypeOK, ReqTypeOK, Pks, InTurn, AheadIsFree, Grounded
<1>2. /\ loans'[n] = r
      /\ \A q \in Pks \ {n} : loans'[q] = loans[q]
      /\ Rows' = Rows \cup {n} /\ n \notin Rows
  BY <1>1 DEF ApplyInsert, TypeInv, DbTypeOK, Rows
<1>3. OneOpenLoan'
  <2> SUFFICES ASSUME NEW p \in Rows', NEW q \in Rows',
                      loans'[p].member = loans'[q].member,
                      loans'[p].status \in Open, loans'[q].status \in Open
               PROVE  p = q
    BY DEF OneOpenLoan
  <2>1. CASE p \in Rows /\ q \in Rows
    BY <1>2, <2>1 DEF InTurn, OneOpenLoan, Rows
  <2>2. CASE p = n \/ q = n
    BY <1>1, <1>2, <2>2 DEF Applicant, Rows
  <2> QED BY <1>2, <2>1, <2>2
<1>4. AheadIsFree'
  <2>1. \A p \in Pks : p >= n + 1 => p >= n /\ p # n
    BY <1>1 DEF Pks
  <2> QED BY <1>2, <2>1 DEF ApplyInsert, InTurn, AheadIsFree
<1>5. RowsOwed'
  <2>1. Owed(r)
    BY <1>1 DEF Applicant, Owed, Serviced
  <2> QED BY <1>2, <2>1 DEF InTurn, RowsOwed, Rows
<1>6. stage[w] # "idle" /\ Respond(w)
  BY DEF ApplyInsert
<1> QED BY <1>3, <1>4, <1>5, <1>6, RespondTurn DEF InTurn

(* What the other requests write is still true of the row they write.      *)
LEMMA WriteTurn ==
    ASSUME TypeInv, InTurn, NEW w \in Workers,
           \/ Save(w) \/ DisburseCommit(w) \/ AgingSave(w) \/ RepayCommit(w)
           \/ SettleCommit(w) \/ DestroyCommit(w) \/ Abort(w)
    PROVE  InTurn'
<1> DEFINE p   == target[w]
           row == loans[p]
           r   == obj[w]
<1>1. stage[w] # "idle" /\ Respond(w)
  BY DEF Save, DisburseCommit, AgingSave, RepayCommit, SettleCommit, SaveRepaid,
     DestroyCommit, Abort
<1>2. ASSUME stage[w] \in RowStages
      PROVE  /\ p \in Pks /\ r \in LoanRow /\ row # NoRow /\ row \in LoanRow
             /\ Current(stage[w], row, r)
  BY <1>2 DEF TypeInv, DbTypeOK, ReqTypeOK, RowStages, InTurn, Grounded, Current
<1>3. CASE Save(w) \/ DisburseCommit(w) \/ RepayCommit(w) \/ SettleCommit(w)
  <2>1. /\ stage[w] \in RowStages /\ stage[w] # "marking" /\ stage[w] # "deleting"
        /\ loans' = [loans EXCEPT ![p] = r] /\ nextPk' = nextPk
    BY <1>3 DEF Save, DisburseCommit, RepayCommit, SettleCommit, SaveRepaid, RowStages
  <2>2. Owed(r) /\ r.member = row.member /\ (r.status \in Open => row.status \in Open)
    BY <1>2, <2>1 DEF Current
  <2> QED BY <1>1, <1>2, <2>1, <2>2, PutTurn
<1>4. CASE AgingSave(w)
  <2> DEFINE new == [row EXCEPT !.status = r.status]
  <2>1. stage[w] \in RowStages /\ stage[w] = "marking"
    BY <1>4 DEF AgingSave, RowStages
  <2>2. loans' = [loans EXCEPT ![p] = new] /\ nextPk' = nextPk
    BY <1>2, <1>4, <2>1 DEF AgingSave, TypeInv, DbTypeOK
  <2>3. row.status \in Serviced /\ r.status \in Serviced /\ r.status \in Status
    BY <1>2, <2>1 DEF Current, LoanRow
  <2>4. /\ new \in LoanRow /\ new.status = r.status
        /\ new.member = row.member /\ new.balance = row.balance
    BY <1>2, <2>1, <2>3 DEF LoanRow
  <2>5. row.balance > 0
    BY <1>2, <2>1, <2>3 DEF InTurn, RowsOwed, Owed, Rows
  <2>6. Owed(new) /\ (new.status \in Open => row.status \in Open)
    BY <2>3, <2>4, <2>5 DEF Owed, Serviced, Open
  <2> HIDE DEF new
  <2> QED BY <1>1, <1>2, <2>1, <2>2, <2>4, <2>6, PutTurn
<1>5. CASE DestroyCommit(w)
  <2>1. p \in Pks /\ loans' = [loans EXCEPT ![p] = NoRow] /\ nextPk' = nextPk
    BY <1>2, <1>5 DEF DestroyCommit, RowStages
  <2>2. Rows' = Rows \ {p} /\ \A q \in Pks \ {p} : loans'[q] = loans[q]
    BY <2>1 DEF TypeInv, DbTypeOK, Rows
  <2>3. OneOpenLoan' /\ RowsOwed'
    BY <2>2 DEF InTurn, OneOpenLoan, RowsOwed, Rows
  <2>4. AheadIsFree'
    BY <2>1 DEF InTurn, AheadIsFree, TypeInv, DbTypeOK
  <2> QED BY <1>1, <2>3, <2>4, RespondTurn DEF InTurn
<1>6. CASE Abort(w)
  <2>1. loans' = loans /\ nextPk' = nextPk
    BY <1>6 DEF Abort, dbVars
  <2> QED BY <1>1, <2>1, RespondTurn DEF InTurn, OneOpenLoan, AheadIsFree, RowsOwed, Rows
<1> QED BY <1>3, <1>4, <1>5, <1>6

(* The calendar and the voiding of a journal touch no loan and no request. *)
LEMMA OtherSteps ==
    ASSUME Next
    PROVE  (\E w \in Workers : Serve(w)) \/ UNCHANGED <<loans, nextPk, reqVars>>
<1>1. ASSUME NEW t \in journal, VoidJournal(t) PROVE UNCHANGED <<loans, nextPk, reqVars>>
  BY <1>1 DEF VoidJournal
<1>2. ASSUME NEW p \in Pks, DayPasses(p) PROVE UNCHANGED <<loans, nextPk, reqVars>>
  BY <1>2 DEF DayPasses, dbVars
<1>3. ASSUME NEW p \in Pks, Mature(p) PROVE UNCHANGED <<loans, nextPk, reqVars>>
  BY <1>3 DEF Mature, dbVars
<1> QED BY <1>1, <1>2, <1>3 DEF Next

LEMMA TurnInvariant == TurnSpec => [](TypeInv /\ TurnInv)
<1>1. TurnSpec => Spec
  <2>1. TurnInit => Init
    BY DEF TurnInit
  <2>2. [Next /\ Watch]_turnVars => [Next]_vars
    BY DEF turnVars
  <2> QED BY <2>1, <2>2, PTL DEF TurnSpec, Spec
<1>2. TurnInit => TurnInv
  BY DEF TurnInit, Init, TurnInv, InTurn, OneAtATime, OneOpenLoan, AheadIsFree, RowsOwed,
     Rows, Grounded, RowStages
<1>3. TypeInv /\ TurnInv /\ [Next /\ Watch]_turnVars => TurnInv'
  <2> SUFFICES ASSUME TypeInv, TurnInv, [Next /\ Watch]_turnVars, ~overlapped' PROVE InTurn'
    BY DEF TurnInv
  <2>1. ASSUME UNCHANGED <<loans, nextPk, reqVars>>, InTurn PROVE InTurn'
    BY <2>1 DEF InTurn, OneAtATime, OneOpenLoan, AheadIsFree, RowsOwed, Rows, Grounded,
       Applicant, reqVars
  <2>2. CASE UNCHANGED turnVars
    <3>1. InTurn
      BY <2>2 DEF turnVars, TurnInv
    <3> QED BY <2>1, <2>2, <3>1 DEF turnVars, vars, dbVars
  <2>3. CASE Next /\ Watch
    <3>1. InTurn /\ OneAtATime'
      BY <2>3 DEF Watch, TurnInv
    <3>2. ASSUME NEW w \in Workers, Serve(w) PROVE InTurn'
      BY <3>1, <3>2, ApplyTurn, InsertTurn, ReadTurn, WriteTurn DEF Serve
    <3> QED BY <2>1, <2>3, <3>1, <3>2, OtherSteps
  <2> QED BY <2>2, <2>3
<1> QED BY <1>1, <1>2, <1>3, TypeInvariant, PTL DEF TurnSpec

(* As long as each request is answered before the next one is served, a    *)
(* member has at most one open loan: the check of perform_create suffices. *)
THEOREM OneLoanInTurn == TurnSpec => []OneOpenLoanInTurn
<1>1. TurnInv => OneOpenLoanInTurn
  BY DEF TurnInv, InTurn, OneOpenLoanInTurn
<1> QED BY <1>1, TurnInvariant, PTL

(* In turn, a loan is serviced only while principal is owed, and closed    *)
(* only once none is.                                                      *)
THEOREM PortfolioOwedInTurn == TurnSpec => []OwedWhileServicedInTurn
<1>1. TurnInv => OwedWhileServicedInTurn
  BY DEF TurnInv, InTurn, RowsOwed, Owed, OwedWhileServicedInTurn, OwedWhileServiced
<1> QED BY <1>1, TurnInvariant, PTL

(* In turn, the row of a closed loan is never written with another value.  *)
THEOREM ClosedStaysInTurn == TurnSpec => ClosedIsFinalInTurn
<1> DEFINE A == \A p \in Pks :
                   ~overlapped' /\ loans[p] # NoRow /\ loans[p].status = "closed"
                       => loans'[p] = loans[p]
<1>1. TypeInv /\ TurnInv /\ [Next /\ Watch]_turnVars => [A]_turnVars
  <2> SUFFICES ASSUME TypeInv, TurnInv, Next, Watch, ~overlapped',
                      NEW p \in Pks, loans[p] # NoRow, loans[p].status = "closed"
               PROVE  loans'[p] = loans[p]
    OBVIOUS
  <2>1. InTurn
    BY DEF Watch, TurnInv
  <2>2. ASSUME NEW w \in Workers, Serve(w) PROVE loans'[p] = loans[p]
    <3>1. ASSUME stage[w] \in RowStages, p = target[w]
          PROVE  stage[w] = "settling" /\ obj[w] = loans[p]
      BY <2>1, <3>1 DEF InTurn, Grounded, Current
    <3>2. \/ UNCHANGED loans
          \/ ApplyInsert(w) \/ Save(w) \/ DisburseCommit(w)
          \/ RepayCommit(w) \/ SettleCommit(w) \/ AgingSave(w) \/ DestroyCommit(w)
      BY <2>2 DEF Serve, ApplyCheck, ApplyNumber, Appraise, Approve, Reject, Disburse,
         AgingRead, Repay, Settle, Destroy, Abort, dbVars
    <3>3. CASE ApplyInsert(w)
      <4>1. loans[nextPk] = NoRow
        BY <2>1, <3>3, ConstantsOK
           DEF ApplyInsert, InTurn, AheadIsFree, TypeInv, DbTypeOK, Pks
      <4> QED BY <3>3, <4>1 DEF ApplyInsert, TypeInv, DbTypeOK
    <3>4. CASE Save(w) \/ DisburseCommit(w) \/ RepayCommit(w) \/ AgingSave(w)
               \/ DestroyCommit(w)
      <4>1. stage[w] \in RowStages /\ stage[w] # "settling"
        BY <3>4 DEF Save, DisburseCommit, RepayCommit, AgingSave, DestroyCommit, RowStages
      <4>2. p # target[w]
        BY <3>1, <4>1
      <4> QED BY <3>4, <4>2 DEF Save, DisburseCommit, RepayCommit, SaveRepaid, AgingSave,
              DestroyCommit, TypeInv, DbTypeOK
    <3>5. CASE SettleCommit(w)
      <4>1. stage[w] \in RowStages /\ loans' = [loans EXCEPT ![target[w]] = obj[w]]
        BY <3>5 DEF SettleCommit, SaveRepaid, RowStages
      <4> QED BY <3>1, <4>1 DEF TypeInv, DbTypeOK
    <3> QED BY <3>2, <3>3, <3>4, <3>5
  <2> QED BY <2>2, OtherSteps
<1> QED BY <1>1, TurnInvariant, PTL DEF TurnSpec, ClosedIsFinalInTurn

-----------------------------------------------------------------------------
(* The loan header.                                                        *)

LEMMA ShareFacts ==
    ASSUME HeaderTypeOK, NEW a \in Payments, NEW due \in Dues
    PROVE  LET s == Share(a, due) IN
           /\ a \in Nat
           /\ s.rem \in Nat
           /\ s.alloc \in [Components -> Nat]
           /\ s.alloc["penalty"] + s.alloc["fees"] + s.alloc["interest"]
                 + s.alloc["principal"] + s.rem = a
           /\ NoRepeats(Order) => s.alloc["principal"] <= principal
           /\ s.rem > 0 => s.alloc["principal"] >= principal
<1> DEFINE d == [due EXCEPT !["principal"] = principal]
<1>1. a \in Nat /\ d \in [Components -> Nat] /\ Order \in Orders
  BY HeaderAssumption DEF HeaderTypeOK
<1>2. d["principal"] = principal
  BY HeaderAssumption DEF Components
<1>3. Share(a, due) = Allocate(a, d, Order)
  BY DEF Share
<1> HIDE DEF d
<1>4. /\ Allocate(a, d, Order) \in Partial
      /\ Distributed(Allocate(a, d, Order)) = a
  BY <1>1, WaterfallConserves
<1> QED BY <1>1, <1>2, <1>3, <1>4, WaterfallPrincipal DEF Partial, Distributed, Allocated

(* Every header and every total is a number of cents, of the right sign.   *)
THEOREM HeaderTypeCorrect == HeaderSpec => []HeaderTypeOK
<1>1. HeaderInit => HeaderTypeOK
  BY HeaderAssumption DEF HeaderInit, HeaderTypeOK, Nothing
<1>2. HeaderTypeOK /\ [HeaderNext]_headerVars => HeaderTypeOK'
  <2> SUFFICES ASSUME HeaderTypeOK, [HeaderNext]_headerVars
               PROVE  HeaderTypeOK'
    OBVIOUS
  <2>1. CASE UNCHANGED headerVars
    BY <2>1 DEF headerVars, HeaderTypeOK
  <2>2. ASSUME NEW a \in Payments, NEW due \in Dues, Enter(a, Share(a, due)),
               principal' \in Nat
        PROVE  HeaderTypeOK'
    <3>1. /\ a \in Nat
          /\ Share(a, due).rem \in Nat
          /\ Share(a, due).alloc \in [Components -> Nat]
      BY ShareFacts
    <3> QED BY <2>2, <3>1, HeaderAssumption DEF Enter, HeaderTypeOK
  <2>3. ASSUME NEW a \in Payments, NEW due \in Dues, Pay(a, due)
        PROVE  HeaderTypeOK'
    <3>1. Share(a, due).alloc["principal"] \in Nat
      BY ShareFacts DEF Components
    <3>2. principal' \in Nat
      BY <2>3, <3>1 DEF Pay, HeaderTypeOK
    <3> QED BY <2>2, <2>3, <3>2 DEF Pay
  <2>4. ASSUME NEW a \in Payments, NEW due \in Dues, SettleEarly(a, due)
        PROVE  HeaderTypeOK'
    BY <2>2, <2>4 DEF SettleEarly
  <2> QED BY <2>1, <2>3, <2>4 DEF HeaderNext
<1> QED BY <1>1, <1>2, PTL DEF HeaderSpec

(* The three invariants of the books, which hold together.                 *)
Books == EveryCentAccounted /\ PrincipalConserved /\ NoIdleMoney

LEMMA BooksInvariant == HeaderSpec => []Books
<1>1. HeaderInit => Books
  BY HeaderAssumption
     DEF HeaderInit, Books, EveryCentAccounted, PrincipalConserved, NoIdleMoney,
         Nothing, Components
<1>2. HeaderTypeOK /\ Books /\ [HeaderNext]_headerVars => Books'
  <2> SUFFICES ASSUME HeaderTypeOK, Books, [HeaderNext]_headerVars
               PROVE  Books'
    OBVIOUS
  <2>1. CASE UNCHANGED headerVars
    BY <2>1 DEF headerVars, Books, EveryCentAccounted, PrincipalConserved, NoIdleMoney
  <2>2. ASSUME NEW a \in Payments, NEW due \in Dues,
               Pay(a, due) \/ SettleEarly(a, due)
        PROVE  Books'
    <3> DEFINE s == Share(a, due)
    <3>1. /\ a \in Nat
          /\ s.rem \in Nat
          /\ s.alloc \in [Components -> Nat]
          /\ s.alloc["penalty"] + s.alloc["fees"] + s.alloc["interest"]
                + s.alloc["principal"] + s.rem = a
          /\ NoRepeats(Order) => s.alloc["principal"] <= principal
          /\ s.rem > 0 => s.alloc["principal"] >= principal
      BY ShareFacts
    <3>2. /\ received' = received + a
          /\ \A c \in Components : credited'[c] = credited[c] + s.alloc[c]
          /\ unallocated' = unallocated + s.rem
      BY <2>2 DEF Pay, SettleEarly, Enter
    <3>3. \/ /\ principal' = principal - s.alloc["principal"]
             /\ principal' > 1
          \/ principal' = 0
      BY <2>2 DEF Pay, SettleEarly
    <3> HIDE DEF s
    <3>4. \A c \in Components : credited[c] \in Nat /\ s.alloc[c] \in Nat
      BY <3>1 DEF HeaderTypeOK
    <3>5. EveryCentAccounted'
      BY <3>1, <3>2, <3>4 DEF EveryCentAccounted, Books, HeaderTypeOK, Components
    <3>6. PrincipalConserved'
      <4> SUFFICES ASSUME NoRepeats(Order)
                   PROVE  /\ principal' > 0 =>
                                principal' + credited'["principal"] = Disbursed
                          /\ credited'["principal"] <= Disbursed
        BY DEF PrincipalConserved, NoRepeats
      <4>1. /\ principal > 0 => principal + credited["principal"] = Disbursed
            /\ credited["principal"] <= Disbursed
        BY DEF Books, PrincipalConserved
      <4>2. /\ credited'["principal"] = credited["principal"] + s.alloc["principal"]
            /\ credited["principal"] \in Nat /\ s.alloc["principal"] \in Nat
        BY <3>2, <3>4 DEF Components
      <4> QED BY <3>1, <3>3, <4>1, <4>2, HeaderAssumption DEF HeaderTypeOK
    <3>7. NoIdleMoney'
      <4>1. s.alloc["principal"] \in Nat
        BY <3>4 DEF Components
      <4> QED BY <3>1, <3>2, <3>3, <4>1 DEF NoIdleMoney, Books, HeaderTypeOK
    <3> QED BY <3>5, <3>6, <3>7 DEF Books
  <2> QED BY <2>1, <2>2 DEF HeaderNext
<1> QED BY <1>1, <1>2, HeaderTypeCorrect, PTL DEF HeaderSpec

(* No cent of a payment is lost or made up, whatever the allocation order. *)
THEOREM CentsAccounted == HeaderSpec => []EveryCentAccounted
BY BooksInvariant, PTL DEF Books

(* The header owes exactly what was disbursed less what was credited to    *)
(* the principal, where the allocation order repeats no component.         *)
THEOREM PrincipalIsConserved == HeaderSpec => []PrincipalConserved
BY BooksInvariant, PTL DEF Books

(* Money is set aside as unallocated only once no principal is owed.       *)
THEOREM MoneyIsNotIdle == HeaderSpec => []NoIdleMoney
BY BooksInvariant, PTL DEF Books

=============================================================================
