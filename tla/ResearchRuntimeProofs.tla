----------------------- MODULE ResearchRuntimeProofs -----------------------
(***************************************************************************)
(* Theorems about ResearchRuntime, for every value of its constants: types *)
(* and the current owner, the ledger's steps, leases, checkpoints and      *)
(* tasks, the journal, and last the budget of the calls (RuntimeLedger),   *)
(* whose sums are folds over the calls.                                    *)
(*                                                                         *)
(* The fold is a sum over every subset of the calls (TotalSums).  What     *)
(* would be shown by induction over those subsets is shown of a smallest   *)
(* subset for which it fails: the naturals are well founded (WFMin).       *)
(***************************************************************************)
EXTENDS RuntimeLedger, FiniteSetTheorems, SequenceTheorems, WellFoundedInduction, TLAPS

USE NoOwnerAssumption, TimeAssumption, TokensAssumption, BoundAssumption
    DEF NoOwnerAssumption, TimeAssumption, TokensAssumption, BoundAssumption

(* The charge of a recovery is a number of tokens, and what it makes of    *)
(* the ledger is a ledger that charges at least as much as before.         *)
LEMMA RecoveryCharge ==
  ASSUME budget \in Ledger
  PROVE  /\ RecoveredBudget \in Ledger
         /\ RecoveredBudget.spent >= budget.spent
         /\ RecoveredBudget.retrieval = budget.retrieval
         /\ RecoveredBudget.limit = budget.limit
<1>1. IsFiniteSet(Unsettled)
  BY CallsAssumption, FS_Subset DEF CallsAssumption, Unsettled
<1>2. Cardinality(Unsettled) \in Nat
  BY <1>1, FS_CardinalityType
<1>3. Reservation * Cardinality(Unsettled) \in Nat
  BY <1>2, SMT
<1>4. QED
  BY <1>3 DEF RecoveredBudget, Ledger

(* A settled ledger is a ledger that charges the amount more. *)
LEMMA ChargedLedger ==
  ASSUME NEW l \in Ledger, NEW amount \in Nat
  PROVE  /\ Charged(l, amount) \in Ledger
         /\ Charged(l, amount).spent = l.spent + amount
         /\ Charged(l, amount).retrieval = l.retrieval
         /\ Charged(l, amount).limit = l.limit
BY DEF Charged, Ledger

(* Usage reported by retrieval leaves a ledger. *)
LEMMA UsedLedger ==
  ASSUME ledger \in [Executions -> Ledger], NEW e \in Executions, NEW amount \in Nat
  PROVE  /\ [ledger EXCEPT ![e].retrieval = @ + amount] \in [Executions -> Ledger]
         /\ [ledger[e] EXCEPT !.retrieval = @ + amount] \in Ledger
BY DEF Ledger

(* Holding or giving back a reservation leaves a ledger. *)
LEMMA ReservedLedger ==
  ASSUME ledger \in [Executions -> Ledger], NEW e \in Executions
  PROVE  /\ [ledger EXCEPT ![e].reserved = @ + Reservation] \in [Executions -> Ledger]
         /\ [ledger EXCEPT ![e].reserved = @ - Reservation] \in [Executions -> Ledger]
BY DEF Ledger

LEMMA TypeInit == Init => TypeOK
<1> SUFFICES ASSUME Init PROVE TypeOK
  OBVIOUS
<1>1. RowType
  <2>1. EmptyLedger \in Ledger
    BY DEF EmptyLedger, Ledger
  <2>2. -MaxWait \in -MaxWait .. TTL
    OBVIOUS
  <2>3. QED
    BY <2>1, <2>2 DEF Init, RowType
<1>2. TableType
  BY DEF Init, TableType, SessionRow
<1>3. ExecType
  BY DEF Init, ExecType, EmptyLedger, Ledger
<1>4. CallType
  BY DEF Init, CallType
<1>5. QED
  BY <1>1, <1>2, <1>3, <1>4 DEF TypeOK

(* What an action leaves unchanged keeps its type. *)
LEMMA RowUnchanged == RowType /\ UNCHANGED rowVars => RowType'
BY DEF RowType, rowVars
LEMMA TableUnchanged ==
  TableType /\ UNCHANGED <<taskVars, attempts, checkpoints, session>> => TableType'
BY DEF TableType, taskVars
LEMMA ExecUnchanged == ExecType /\ UNCHANGED execVars => ExecType'
BY DEF ExecType, execVars
LEMMA CallUnchanged == CallType /\ UNCHANGED callVars => CallType'
BY DEF CallType, callVars

(* The steps of the worker thread, of the heartbeat and of the process. *)
LEMMA TypeExecution ==
  ASSUME TypeOK, NEW e \in Executions, ExecutionStep(e)
  PROVE  TypeOK'
<1> USE DEF rowVars, taskVars, execVars, callVars
<1>0. RowType /\ TableType /\ ExecType /\ CallType
  BY DEF TypeOK
<1>1. CASE Acquire(e)
  <2>1. RowType'
    <3>1. budget' \in Ledger
      BY <1>0, <1>1, RecoveryCharge DEF Acquire, RowType
    <3>2. leaseLeft' \in -MaxWait .. TTL
      BY <1>1 DEF Acquire, GrantedLease
    <3>3. QED
      BY <1>0, <1>1, <3>1, <3>2 DEF Acquire, RowType
  <2>2. TableType'
    BY <1>0, <1>1 DEF Acquire, TableType
  <2>3. ExecType'
    BY <1>0, <1>1, RecoveryCharge DEF Acquire, RowType, ExecType
  <2>4. QED
    BY <1>0, <1>1, <2>1, <2>2, <2>3, CallUnchanged DEF Acquire, TypeOK
<1>2. CASE AcquireRefused(e)
  BY <1>0, <1>2, RowUnchanged, TableUnchanged, CallUnchanged
     DEF AcquireRefused, ExecType, TypeOK
<1>3. CASE Renew(e)
  <2>1. RowType'
    BY <1>0, <1>3 DEF Renew, RowType
  <2>2. ExecType'
    BY <1>0, <1>3 DEF Renew, ExecType
  <2>3. QED
    BY <1>0, <1>3, <2>1, <2>2, TableUnchanged, CallUnchanged DEF Renew, TypeOK
<1>4. ASSUME NEW k \in Tasks, BeginTask(e, k) PROVE TypeOK'
  <2>1. RowType' /\ TableType' /\ ExecType'
    BY <1>0, <1>4 DEF BeginTask, RowType, TableType, ExecType
  <2>2. QED
    BY <1>0, <1>4, <2>1, CallUnchanged DEF BeginTask, TypeOK
<1>5. CASE CompleteTask(e)
  <2>1. RowType' /\ TableType' /\ ExecType'
    BY <1>0, <1>5
       DEF CompleteTask, CommitCheckpoint, Checkpoint, RowType, TableType, ExecType
  <2>2. QED
    BY <1>0, <1>5, <2>1, CallUnchanged DEF CompleteTask, TypeOK
<1>6. CASE Snapshot(e)
  <2>1. RowType' /\ TableType' /\ ExecType'
    BY <1>0, <1>6
       DEF Snapshot, CommitCheckpoint, Checkpoint, RowType, TableType, ExecType
  <2>2. QED
    BY <1>0, <1>6, <2>1, CallUnchanged DEF Snapshot, TypeOK
<1>7. ASSUME NEW stored \in BOOLEAN, FailTask(e, stored) PROVE TypeOK'
  <2>1. RowType' /\ TableType' /\ ExecType'
    <3>1. RowType'
      BY <1>0, <1>7 DEF FailTask, RowType, ExecType
    <3>2. TableType'
      BY <1>0, <1>7 DEF FailTask, TableType, ExecType
    <3>3. ExecType'
      BY <1>0, <1>7 DEF FailTask, ExecType
    <3>4. QED
      BY <3>1, <3>2, <3>3
  <2>2. QED
    BY <1>0, <1>7, <2>1, CallUnchanged DEF FailTask, TypeOK
<1>8. CASE PersistBudget(e)
  <2>1. RowType'
    BY <1>0, <1>8 DEF PersistBudget, RowType, ExecType
  <2>2. QED
    BY <1>0, <1>8, <2>1, TableUnchanged, ExecUnchanged, CallUnchanged
       DEF PersistBudget, TypeOK
<1>9. ASSUME NEW status \in {"result", "stop"}, Publish(e, status) PROVE TypeOK'
  <2>1. TableType'
    BY <1>0, <1>9 DEF Publish, TableType, SessionRow, ExecType
  <2>2. QED
    BY <1>0, <1>9, <2>1, RowUnchanged, ExecUnchanged, CallUnchanged
       DEF Publish, TypeOK
<1>10. ASSUME NEW stored \in BOOLEAN, Release(e, stored) PROVE TypeOK'
  <2>1. RowType'
    BY <1>0, <1>10 DEF Release, RowType, ExecType
  <2>2. ExecType'
    BY <1>0, <1>10 DEF Release, ExecType
  <2>3. QED
    BY <1>0, <1>10, <2>1, <2>2, TableUnchanged, CallUnchanged DEF Release, TypeOK
<1>11. CASE Crash(e)
  <2>1. ExecType'
    BY <1>0, <1>11 DEF Crash, ExecType
  <2>2. QED
    BY <1>0, <1>11, <2>1, RowUnchanged, TableUnchanged, CallUnchanged
       DEF Crash, TypeOK
<1>12. ASSUME NEW amount \in Usages, RecordUsage(e, amount) PROVE TypeOK'
  <2>1. ledger \in [Executions -> Ledger] /\ amount \in Nat
    BY <1>0 DEF ExecType
  <2>2. /\ ledger' = [ledger EXCEPT ![e].retrieval = @ + amount]
        /\ \/ budget' = [ledger[e] EXCEPT !.retrieval = @ + amount]
           \/ budget' = budget
    BY <1>12, Zenon DEF RecordUsage
  <2>3. ledger' \in [Executions -> Ledger] /\ budget' \in Ledger
    BY <1>0, <2>1, <2>2, UsedLedger DEF RowType
  <2>4. RowType' /\ ExecType'
    BY <1>0, <1>12, <2>3 DEF RecordUsage, RowType, ExecType
  <2>5. QED
    BY <1>0, <1>12, <2>4, TableUnchanged, CallUnchanged DEF RecordUsage, TypeOK
<1>13. CASE RunOut(e)
  <2>1. ExecType'
    BY <1>0, <1>13 DEF RunOut, ExecType
  <2>2. QED
    BY <1>0, <1>13, <2>1, RowUnchanged, TableUnchanged, CallUnchanged
       DEF RunOut, TypeOK
<1>14. QED
  BY <1>1, <1>2, <1>3, <1>4, <1>5, <1>6, <1>7, <1>8, <1>9, <1>10, <1>11, <1>12, <1>13
     DEF ExecutionStep

(* The steps of the threads that call the provider. *)
LEMMA TypeCall ==
  ASSUME TypeOK, NEW e \in Executions, NEW c \in Calls, CallStep(e, c)
  PROVE  TypeOK'
<1> USE DEF rowVars, taskVars, execVars, callVars
<1>0. RowType /\ TableType /\ ExecType /\ CallType
  BY DEF TypeOK
<1>1. CASE StartCall(e, c)
  <2>1. CallType'
    BY <1>0, <1>1 DEF StartCall, CallType
  <2>2. QED
    BY <1>0, <1>1, <2>1, RowUnchanged, TableUnchanged, ExecUnchanged
       DEF StartCall, TypeOK
<1>2. CASE ReserveMemory(e, c)
  <2>1. ExecType'
    <3>1. ledger' \in [Executions -> Ledger]
      <4>1. ledger \in [Executions -> Ledger]
        BY <1>0 DEF ExecType
      <4>2. \/ ledger' = [ledger EXCEPT ![e].reserved = @ + Reservation]
            \/ ledger' = ledger
        BY <1>2, Zenon DEF ReserveMemory
      <4>3. QED
        BY <4>1, <4>2, ReservedLedger
    <3>2. phase' \in [Executions ->
                      {"new", "active", "exhausted", "done", "refused", "crashed"}]
      BY <1>0, <1>2 DEF ReserveMemory, ExecType
    <3>3. QED
      BY <1>0, <1>2, <3>1, <3>2 DEF ReserveMemory, ExecType
  <2>2. CallType'
    BY <1>0, <1>2 DEF ReserveMemory, CallType
  <2>3. QED
    BY <1>0, <1>2, <2>1, <2>2, RowUnchanged, TableUnchanged
       DEF ReserveMemory, TypeOK
<1>3. CASE ReserveAttempt(e, c)
  <2>1. RowType' /\ TableType' /\ CallType'
    BY <1>0, <1>3 DEF ReserveAttempt, RowType, TableType, ExecType, CallType
  <2>2. QED
    BY <1>0, <1>3, <2>1, ExecUnchanged DEF ReserveAttempt, TypeOK
<1>4. CASE Refund(e, c)
  <2>1. ExecType'
    BY <1>0, <1>4, ReservedLedger DEF Refund, ExecType
  <2>2. CallType'
    BY <1>0, <1>4 DEF Refund, CallType
  <2>3. QED
    BY <1>0, <1>4, <2>1, <2>2, RowUnchanged, TableUnchanged DEF Refund, TypeOK
<1>5. ASSUME NEW amount \in Nat, NEW result \in {"completed", "uncertain"},
             Settle(e, c, amount, result)
      PROVE  TypeOK'
  <2>1. Charged(ledger[e], amount) \in Ledger
    BY <1>0, ChargedLedger DEF ExecType
  <2>2. RowType'
    BY <1>0, <1>5, <2>1 DEF Settle, RowType
  <2>3. TableType'
    BY <1>0, <1>5 DEF Settle, TableType
  <2>4. ExecType'
    BY <1>0, <1>5, <2>1 DEF Settle, ExecType
  <2>5. CallType'
    BY <1>0, <1>5 DEF Settle, CallType
  <2>6. QED
    BY <2>2, <2>3, <2>4, <2>5 DEF TypeOK
<1>6. CASE Answered(e, c)
  BY <1>5, <1>6 DEF Answered
<1>7. CASE Unanswered(e, c)
  BY <1>5, <1>7 DEF Unanswered
<1>8. QED
  BY <1>1, <1>2, <1>3, <1>4, <1>6, <1>7 DEF CallStep

LEMMA TypeStep == TypeOK /\ [Next]_vars => TypeOK'
<1> SUFFICES ASSUME TypeOK, [Next]_vars PROVE TypeOK'
  OBVIOUS
<1> USE DEF rowVars, taskVars, execVars, callVars
<1>0. RowType /\ TableType /\ ExecType /\ CallType
  BY DEF TypeOK
<1>1. CASE Tick
  BY <1>0, <1>1, TableUnchanged, ExecUnchanged, CallUnchanged
     DEF Tick, RowType, TypeOK
<1>2. ASSUME NEW e \in Executions, ExecutionStep(e) PROVE TypeOK'
  BY <1>2, TypeExecution
<1>3. ASSUME NEW e \in Executions, NEW c \in Calls, CallStep(e, c) PROVE TypeOK'
  BY <1>3, TypeCall
<1>4. CASE CancelRuntime
  BY <1>0, <1>4, TableUnchanged, ExecUnchanged, CallUnchanged
     DEF CancelRuntime, RowType, TypeOK
<1>5. ASSUME NEW n \in Limits, UpdateTokenLimit(n) PROVE TypeOK'
  <2>1. [budget EXCEPT !.limit = n] \in Ledger
    BY <1>0 DEF RowType, Ledger
  <2>2. RowType'
    BY <1>0, <1>5, <2>1 DEF UpdateTokenLimit, RowType
  <2>3. QED
    BY <1>0, <1>5, <2>2, TableUnchanged, ExecUnchanged, CallUnchanged
       DEF UpdateTokenLimit, TypeOK
<1>6. CASE UNCHANGED vars
  BY <1>0, <1>6, RowUnchanged, TableUnchanged, ExecUnchanged, CallUnchanged
     DEF vars, TypeOK
<1>7. QED
  BY <1>1, <1>2, <1>3, <1>4, <1>5, <1>6 DEF Next

(* Every variable keeps its type: the row, the tables and the memory of    *)
(* the executions never hold a value the code could not store.             *)
THEOREM TypeCorrect == Spec => []TypeOK
BY TypeInit, TypeStep, PTL DEF Spec
-----------------------------------------------------------------------------
(* The holder knows the row.                                               *)

LEMMA CurrentExecution ==
  ASSUME TypeOK, OwnerCurrent, NEW e \in Executions, ExecutionStep(e)
  PROVE  OwnerCurrent'
<1> USE DEF OwnerCurrent, rowVars, taskVars, execVars, callVars
<1>0. RowType /\ ExecType
  BY DEF TypeOK
<1>1. CASE Acquire(e)
  BY <1>0, <1>1, RecoveryCharge DEF Acquire, ExecType, RowType, Ledger
<1>2. CASE AcquireRefused(e)
  BY <1>0, <1>2 DEF AcquireRefused, ExecType
<1>3. CASE Renew(e)
  BY <1>3 DEF Renew
<1>4. ASSUME NEW k \in Tasks, BeginTask(e, k) PROVE OwnerCurrent'
  BY <1>0, <1>4 DEF BeginTask, LiveOwner, ExecType, Ledger
<1>5. ASSUME NEW t, CommitCheckpoint(e, t), UNCHANGED <<owner, phase, ledger>>
      PROVE  OwnerCurrent'
  BY <1>0, <1>5 DEF CommitCheckpoint, SnapshotCAS, ExecType, Ledger
<1>6. CASE CompleteTask(e)
  BY <1>5, <1>6 DEF CompleteTask
<1>7. CASE Snapshot(e)
  BY <1>5, <1>7 DEF Snapshot
<1>8. ASSUME NEW stored \in BOOLEAN, FailTask(e, stored) PROVE OwnerCurrent'
  BY <1>0, <1>8 DEF FailTask, ExecType, Ledger
<1>9. CASE PersistBudget(e)
  BY <1>0, <1>9 DEF PersistBudget, LiveOwner, ExecType, Ledger
<1>10. ASSUME NEW status \in {"result", "stop"}, Publish(e, status) PROVE OwnerCurrent'
  BY <1>10 DEF Publish
<1>11. ASSUME NEW stored \in BOOLEAN, Release(e, stored) PROVE OwnerCurrent'
  BY <1>0, <1>11 DEF Release, ExecType, Ledger
<1>12. CASE Crash(e)
  BY <1>0, <1>12 DEF Crash, ExecType
<1>13. ASSUME NEW amount \in Usages, RecordUsage(e, amount) PROVE OwnerCurrent'
  <2>1. /\ ledger' = [ledger EXCEPT ![e].retrieval = @ + amount]
        /\ \/ owner = e /\ budget' = [ledger[e] EXCEPT !.retrieval = @ + amount]
           \/ budget' = budget
        /\ UNCHANGED <<owner, version, phase, myVersion>>
    BY <1>13, Zenon DEF RecordUsage, LiveOwner
  <2>2. amount \in Nat /\ ledger \in [Executions -> Ledger] /\ budget \in Ledger
    BY <1>0 DEF RowType, ExecType
  <2>3. \A f \in Executions :
          /\ ledger'[f].limit = ledger[f].limit
          /\ ledger'[f].spent = ledger[f].spent
          /\ ledger'[f].retrieval =
               IF f = e THEN ledger[f].retrieval + amount ELSE ledger[f].retrieval
    BY <2>1, <2>2 DEF Ledger
  <2>4. \/ budget' = budget
        \/ /\ owner = e
           /\ budget'.limit = ledger[e].limit
           /\ budget'.spent = ledger[e].spent
           /\ budget'.retrieval = ledger[e].retrieval + amount
    BY <2>1, <2>2 DEF Ledger
  <2>5. QED
    BY <2>1, <2>2, <2>3, <2>4 DEF Ledger
<1>14. CASE RunOut(e)
  BY <1>0, <1>14 DEF RunOut, ExecType
<1>15. QED
  BY <1>1, <1>2, <1>3, <1>4, <1>6, <1>7, <1>8, <1>9, <1>10, <1>11, <1>12, <1>13, <1>14
     DEF ExecutionStep

LEMMA CurrentCall ==
  ASSUME TypeOK, OwnerCurrent, NEW e \in Executions, NEW c \in Calls, CallStep(e, c)
  PROVE  OwnerCurrent'
<1> USE DEF OwnerCurrent, rowVars, taskVars, execVars, callVars
<1>0. RowType /\ ExecType
  BY DEF TypeOK
<1>1. CASE StartCall(e, c)
  BY <1>1 DEF StartCall
<1>2. CASE ReserveMemory(e, c)
  <2>1. \A f \in Executions :
          /\ ledger'[f].limit = ledger[f].limit
          /\ ledger'[f].spent = ledger[f].spent
          /\ ledger'[f].retrieval = ledger[f].retrieval
    BY <1>0, <1>2 DEF ReserveMemory, ExecType, Ledger
  <2>2. \A f \in Executions : phase'[f] \in {"new", "refused"} => phase'[f] = phase[f]
    BY <1>0, <1>2 DEF ReserveMemory, ExecType
  <2>3. QED
    BY <1>2, <2>1, <2>2 DEF ReserveMemory
<1>3. CASE ReserveAttempt(e, c)
  BY <1>0, <1>3 DEF ReserveAttempt, LiveOwner, ExecType, Ledger
<1>4. CASE Refund(e, c)
  <2>1. \A f \in Executions :
          /\ ledger'[f].limit = ledger[f].limit
          /\ ledger'[f].spent = ledger[f].spent
          /\ ledger'[f].retrieval = ledger[f].retrieval
    BY <1>0, <1>4 DEF Refund, ExecType, Ledger
  <2>2. QED
    BY <1>4, <2>1 DEF Refund
<1>5. ASSUME NEW amount \in Nat, NEW result, Settle(e, c, amount, result)
      PROVE  OwnerCurrent'
  <2>1. /\ Charged(ledger[e], amount).spent = ledger[e].spent + amount
        /\ Charged(ledger[e], amount).retrieval = ledger[e].retrieval
        /\ Charged(ledger[e], amount).limit = ledger[e].limit
    BY DEF Charged
  <2>2. /\ ledger' = [ledger EXCEPT ![e] = Charged(ledger[e], amount)]
        /\ budget' \in {budget, Charged(ledger[e], amount)}
        /\ budget' # budget => owner = e
        /\ UNCHANGED <<owner, version, phase, myVersion>>
    BY <1>5, Zenon DEF Settle, MaySettle
  <2>3. QED
    BY <1>0, <2>1, <2>2 DEF RowType, ExecType, Ledger
<1>6. CASE Answered(e, c)
  BY <1>5, <1>6 DEF Answered
<1>7. CASE Unanswered(e, c)
  BY <1>5, <1>7 DEF Unanswered
<1>8. QED
  BY <1>1, <1>2, <1>3, <1>4, <1>6, <1>7 DEF CallStep

LEMMA CurrentStep == TypeOK /\ OwnerCurrent /\ [Next]_vars => OwnerCurrent'
<1> SUFFICES ASSUME TypeOK, OwnerCurrent, [Next]_vars PROVE OwnerCurrent'
  OBVIOUS
<1> USE DEF OwnerCurrent, rowVars, taskVars, execVars, callVars
<1>1. CASE Tick
  BY <1>1 DEF Tick
<1>2. ASSUME NEW e \in Executions, ExecutionStep(e) PROVE OwnerCurrent'
  BY <1>2, CurrentExecution
<1>3. ASSUME NEW e \in Executions, NEW c \in Calls, CallStep(e, c) PROVE OwnerCurrent'
  BY <1>3, CurrentCall
<1>4. CASE CancelRuntime
  BY <1>4 DEF CancelRuntime
<1>5. ASSUME NEW n \in Limits, UpdateTokenLimit(n) PROVE OwnerCurrent'
  BY <1>5 DEF UpdateTokenLimit, Idle
<1>6. CASE UNCHANGED vars
  BY <1>6 DEF vars
<1>7. QED
  BY <1>1, <1>2, <1>3, <1>4, <1>5, <1>6 DEF Next

LEMMA CurrentInit == Init => OwnerCurrent
BY DEF Init, OwnerCurrent

(* The execution that holds the lease knows the row it writes to: nobody   *)
(* else moves the version or raises the charge while it holds it.          *)
THEOREM HolderIsCurrent == Spec => []OwnerCurrent
BY TypeInit, TypeStep, CurrentInit, CurrentStep, PTL DEF Spec
-----------------------------------------------------------------------------
(* What the row charges, and the limit it holds.                           *)

(* The steps that write the ledger of the row: the holder writes its own,  *)
(* a new holder recovers it, an administrator changes the limit of an idle *)
(* session.                                                                *)
LEMMA BudgetWrites ==
  ASSUME TypeOK, [Next]_vars
  PROVE  \/ budget' = budget
         \/ \E e \in Executions : owner = e /\ budget' = ledger[e]
         \/ \E e \in Executions, amount \in Nat :
              owner = e /\ budget' = Charged(ledger[e], amount)
         \/ \E e \in Executions, amount \in Usages :
              owner = e /\ budget' = [ledger[e] EXCEPT !.retrieval = @ + amount]
         \/ budget' = RecoveredBudget
         \/ \E n \in Limits : UpdateTokenLimit(n)
<1> USE DEF rowVars, taskVars, execVars, callVars
<1>1. CASE Tick
  BY <1>1 DEF Tick
<1>2. ASSUME NEW e \in Executions, ExecutionStep(e)
      PROVE  \/ budget' \in {budget, RecoveredBudget}
             \/ owner = e /\ budget' = ledger[e]
             \/ \E amount \in Usages :
                  owner = e /\ budget' = [ledger[e] EXCEPT !.retrieval = @ + amount]
  BY <1>2, Zenon
     DEF ExecutionStep, Acquire, AcquireRefused, Renew, BeginTask, LiveOwner,
         CompleteTask, Snapshot, CommitCheckpoint, SnapshotCAS, FailTask,
         PersistBudget, RecordUsage, RunOut, Publish, Release, Crash
<1>3. ASSUME NEW e \in Executions, NEW c \in Calls, CallStep(e, c)
      PROVE  \/ budget' = budget
             \/ owner = e /\ budget' = ledger[e]
             \/ owner = e /\ \E amount \in Nat : budget' = Charged(ledger[e], amount)
  <2>1. ASSUME NEW amount \in Nat, NEW result, Settle(e, c, amount, result)
        PROVE  budget' = budget \/ (owner = e /\ budget' = Charged(ledger[e], amount))
    BY <2>1 DEF Settle, MaySettle
  <2>2. CASE Answered(e, c) \/ Unanswered(e, c)
    BY <2>1, <2>2 DEF Answered, Unanswered
  <2>3. CASE StartCall(e, c) \/ ReserveMemory(e, c) \/ ReserveAttempt(e, c) \/ Refund(e, c)
    BY <2>3 DEF StartCall, ReserveMemory, ReserveAttempt, LiveOwner, Refund
  <2>4. QED
    BY <1>3, <2>2, <2>3 DEF CallStep
<1>4. CASE CancelRuntime
  BY <1>4 DEF CancelRuntime
<1>5. CASE UNCHANGED vars
  BY <1>5 DEF vars
<1>6. QED
  BY <1>1, <1>2, <1>3, <1>4, <1>5 DEF Next

LEMMA BudgetStep ==
  ASSUME TypeOK, OwnerCurrent, [Next]_vars
  PROVE  SpendStep /\ LimitStep
<1>0. budget \in Ledger /\ ledger \in [Executions -> Ledger]
  BY DEF TypeOK, RowType, ExecType
<1>1. ASSUME NEW e \in Executions, owner = e, NEW l, budget' = l,
             l.spent >= ledger[e].spent, l.spent \in Nat,
             l.retrieval >= ledger[e].retrieval, l.retrieval \in Nat,
             l.limit = ledger[e].limit
      PROVE  SpendStep /\ LimitStep
  BY <1>0, <1>1 DEF OwnerCurrent, SpendStep, LimitStep, Ledger
<1>2. CASE budget' = budget
  BY <1>0, <1>2 DEF SpendStep, LimitStep, Ledger
<1>3. ASSUME NEW e \in Executions, owner = e, budget' = ledger[e]
      PROVE  SpendStep /\ LimitStep
  BY <1>3 DEF OwnerCurrent, SpendStep, LimitStep
<1>4. ASSUME NEW e \in Executions, NEW amount \in Nat,
             owner = e, budget' = Charged(ledger[e], amount)
      PROVE  SpendStep /\ LimitStep
  <2>1. ledger[e] \in Ledger
    BY <1>0
  <2>2. QED
    BY <1>1, <1>4, <2>1 DEF Charged, Ledger
<1>5. ASSUME NEW e \in Executions, NEW amount \in Usages, owner = e,
             budget' = [ledger[e] EXCEPT !.retrieval = @ + amount]
      PROVE  SpendStep /\ LimitStep
  <2>1. ledger[e] \in Ledger /\ amount \in Nat
    BY <1>0
  <2>2. QED
    BY <1>1, <1>5, <2>1 DEF Ledger
<1>6. CASE budget' = RecoveredBudget
  BY <1>0, <1>6, RecoveryCharge DEF SpendStep, LimitStep, Ledger
<1>7. ASSUME NEW n \in Limits, UpdateTokenLimit(n)
      PROVE  SpendStep /\ LimitStep
  BY <1>0, <1>7 DEF UpdateTokenLimit, SpendStep, LimitStep, Ledger
<1>8. QED
  BY <1>2, <1>3, <1>4, <1>5, <1>6, <1>7, BudgetWrites

(* The tokens a session is charged for never fall: neither the ledger copy *)
(* of an old execution nor a recovery overwrites recorded spending.        *)
THEOREM SpendingKept == Spec => SpendKept
<1>1. TypeOK /\ OwnerCurrent /\ [Next]_vars => [SpendStep]_vars
  BY BudgetStep
<1>2. QED
  BY <1>1, TypeCorrect, HolderIsCurrent, PTL DEF Spec, SpendKept

(* Only update_token_limit() on an idle session changes the limit.         *)
THEOREM LimitIsKept == Spec => LimitKept
<1>1. TypeOK /\ OwnerCurrent /\ [Next]_vars => [LimitStep]_vars
  BY BudgetStep
<1>2. QED
  BY <1>1, TypeCorrect, HolderIsCurrent, PTL DEF Spec, LimitKept
-----------------------------------------------------------------------------
(* The lease and the fence.                                                *)

(* What the steps do to the lease, the cancel bit and the phases: the row  *)
(* is taken by a new execution, renewed or given up by its holder,         *)
(* cancelled, or ages.                                                     *)
LEMMA LeaseWrites ==
  ASSUME TypeOK, [Next]_vars
  PROVE  \/ \E e \in Executions : Acquire(e)
         \/ /\ owner' = owner /\ (cancelled => cancelled')
            /\ leaseLeft' > leaseLeft => \E e \in Executions : Running(e) /\ RenewCAS(e)
            /\ \A e \in Executions :
                 phase'[e] \in {"new", "refused"} <=> phase[e] \in {"new", "refused"}
         \/ /\ owner' = NoOwner /\ owner \in Executions
            /\ \A e \in Executions :
                 phase'[e] \in {"new", "refused"} <=> phase[e] \in {"new", "refused"}
<1> DEFINE SamePhases ==
             \A e \in Executions :
               phase'[e] \in {"new", "refused"} <=> phase[e] \in {"new", "refused"}
           LeaseKept == UNCHANGED <<owner, leaseLeft, cancelled>> /\ SamePhases
           Taken == \E e \in Executions : Acquire(e)
           Held0 == /\ owner' = owner /\ (cancelled => cancelled')
                    /\ leaseLeft' > leaseLeft => \E e \in Executions : Running(e) /\ RenewCAS(e)
                    /\ SamePhases
           Given == owner' = NoOwner /\ owner \in Executions /\ SamePhases
<1> USE DEF rowVars, taskVars, execVars, callVars
<1>0. /\ leaseLeft \in Int
      /\ phase \in [Executions -> {"new", "active", "exhausted", "done", "refused", "crashed"}]
  BY DEF TypeOK, RowType, ExecType
<1>1. LeaseKept => Held0
  BY <1>0
<1>2. CASE Tick
  <2>1. Held0
    BY <1>0, <1>2 DEF Tick
  <2>2. QED
    BY <2>1
<1>3. ASSUME NEW e \in Executions, ExecutionStep(e) PROVE Taken \/ Held0 \/ Given
  <2>1. CASE Acquire(e)
    BY <2>1
  <2>2. CASE AcquireRefused(e)
    <3>1. LeaseKept
      BY <1>0, <2>2 DEF AcquireRefused
    <3>2. QED
      BY <1>1, <3>1
  <2>3. CASE Renew(e)
    <3>1. Held0
      BY <1>0, <2>3 DEF Renew
    <3>2. QED
      BY <3>1
  <2>4. CASE \/ \E k \in Tasks : BeginTask(e, k)
             \/ CompleteTask(e) \/ Snapshot(e) \/ PersistBudget(e)
             \/ \E amount \in Usages : RecordUsage(e, amount)
             \/ \E stored \in BOOLEAN : FailTask(e, stored)
             \/ \E status \in {"result", "stop"} : Publish(e, status)
    <3>1. UNCHANGED <<owner, leaseLeft, cancelled, phase>>
      BY <2>4
         DEF BeginTask, CompleteTask, Snapshot, PersistBudget, RecordUsage, FailTask, Publish
    <3>2. QED
      BY <1>1, <3>1
  <2>5. ASSUME NEW stored \in BOOLEAN, Release(e, stored) PROVE Held0 \/ Given
    <3>1. SamePhases
      BY <1>0, <2>5 DEF Release, Running
    <3>2. QED
      BY <1>0, <2>5, <3>1 DEF Release
  <2>6. CASE Crash(e) \/ RunOut(e)
    <3>1. LeaseKept
      BY <1>0, <2>6 DEF Crash, RunOut, Running
    <3>2. QED
      BY <1>1, <3>1
  <2>7. QED
    BY <1>3, <2>1, <2>2, <2>3, <2>4, <2>5, <2>6 DEF ExecutionStep
<1>4. ASSUME NEW e \in Executions, NEW c \in Calls, CallStep(e, c) PROVE Held0
  <2>1. CASE ReserveMemory(e, c)
    <3>1. LeaseKept
      BY <1>0, <2>1 DEF ReserveMemory, Running
    <3>2. QED
      BY <1>1, <3>1
  <2>2. CASE StartCall(e, c) \/ ReserveAttempt(e, c) \/ Refund(e, c)
    BY <1>1, <2>2 DEF StartCall, ReserveAttempt, Refund
  <2>3. CASE Answered(e, c) \/ Unanswered(e, c)
    BY <1>1, <2>3 DEF Answered, Unanswered, Settle
  <2>4. QED
    BY <1>4, <2>1, <2>2, <2>3 DEF CallStep
<1>5. CASE CancelRuntime
  <2>1. Held0
    BY <1>0, <1>5 DEF CancelRuntime
  <2>2. QED
    BY <2>1
<1>6. ASSUME NEW n \in Limits, UpdateTokenLimit(n) PROVE Held0
  BY <1>1, <1>6 DEF UpdateTokenLimit
<1>7. CASE UNCHANGED vars
  <2>1. Held0
    BY <1>1, <1>7 DEF vars
  <2>2. QED
    BY <2>1
<1>8. QED
  BY <1>2, <1>3, <1>4, <1>5, <1>6, <1>7 DEF Next

LEMMA LeaseStepHolds ==
  ASSUME TypeOK, OwnerCurrent, [Next]_vars
  PROVE  LeaseStep
<1>0. leaseLeft \in Int /\ leaseLeft' \in Int
  BY TypeStep DEF TypeOK, RowType
<1>1. ASSUME NEW e \in Executions, Acquire(e) PROVE LeaseStep
  <2>1. PICK w \in 0 .. MaxWait : LeaseFree(w)
    BY <1>1 DEF Acquire
  <2>2. owner # e
    BY <1>1 DEF Acquire, OwnerCurrent
  <2>3. QED
    BY <1>0, <1>1, <2>1, <2>2 DEF Acquire, LeaseFree, LeaseStep
<1>2. CASE /\ owner' = owner
           /\ leaseLeft' > leaseLeft => \E e \in Executions : Running(e) /\ RenewCAS(e)
  BY <1>0, <1>2 DEF LeaseStep, RenewCAS
<1>3. CASE owner' = NoOwner
  BY <1>3 DEF LeaseStep
<1>4. QED
  BY <1>1, <1>2, <1>3, LeaseWrites

(* A lease changes hands only after it ran out and is never revived.       *)
THEOREM LeaseIsRespected == Spec => LeaseRespected
<1>1. TypeOK /\ OwnerCurrent /\ [Next]_vars => [LeaseStep]_vars
  BY LeaseStepHolds
<1>2. QED
  BY <1>1, TypeCorrect, HolderIsCurrent, PTL DEF Spec, LeaseRespected

LEMMA DrainStepHolds ==
  ASSUME TypeOK, OwnerCurrent, [Next]_vars
  PROVE  DrainStep
<1>0. leaseLeft \in Int /\ leaseLeft' \in Int
  BY TypeStep DEF TypeOK, RowType
<1>1. ASSUME NEW e \in Executions, Acquire(e) PROVE DrainStep
  <2>1. owner # e /\ owner' = e
    BY <1>1 DEF Acquire, OwnerCurrent
  <2>2. QED
    BY <2>1 DEF DrainStep, Abandoned
<1>2. CASE /\ owner' = owner
           /\ leaseLeft' > leaseLeft => \E e \in Executions : Running(e) /\ RenewCAS(e)
  BY <1>0, <1>2 DEF DrainStep, Abandoned, RenewCAS
<1>3. CASE owner' = NoOwner
  BY <1>3, NoOwnerAssumption DEF DrainStep
<1>4. QED
  BY <1>1, <1>2, <1>3, LeaseWrites

(* The lease of an execution that is over is never extended.               *)
THEOREM AbandonedLeaseDrains == Spec => LeaseDrains
<1>1. TypeOK /\ OwnerCurrent /\ [Next]_vars => [DrainStep]_vars
  BY DrainStepHolds
<1>2. QED
  BY <1>1, TypeCorrect, HolderIsCurrent, PTL DEF Spec, LeaseDrains
-----------------------------------------------------------------------------
(* The checkpoints.                                                        *)

(* Checkpoints are written by the two forms of snapshot() only.            *)
LEMMA OnlyCommits ==
  ASSUME [Next]_vars
  PROVE  \/ UNCHANGED <<version, checkpoints>>
         \/ \E e \in Executions : CompleteTask(e) \/ Snapshot(e)
<1> USE DEF rowVars, taskVars, execVars, callVars
<1>1. ASSUME NEW e \in Executions, ExecutionStep(e)
      PROVE  UNCHANGED <<version, checkpoints>> \/ CompleteTask(e) \/ Snapshot(e)
  BY <1>1, Zenon
     DEF ExecutionStep, Acquire, AcquireRefused, Renew, BeginTask, FailTask,
         PersistBudget, RecordUsage, RunOut, Publish, Release, Crash
<1>2. ASSUME NEW e \in Executions, NEW c \in Calls, CallStep(e, c)
      PROVE  UNCHANGED <<version, checkpoints>>
  BY <1>2
     DEF CallStep, StartCall, ReserveMemory, ReserveAttempt, Refund, Answered,
         Unanswered, Settle
<1>3. QED
  BY <1>1, <1>2 DEF Next, Tick, CancelRuntime, UpdateTokenLimit, vars

LEMMA ContiguousStep ==
  TypeOK /\ CheckpointsContiguous /\ [Next]_vars => CheckpointsContiguous'
<1> SUFFICES ASSUME TypeOK, CheckpointsContiguous, [Next]_vars
             PROVE  CheckpointsContiguous'
  OBVIOUS
<1>0. version \in Nat /\ checkpoints \in Seq(Checkpoint)
  BY DEF TypeOK, RowType, TableType
<1>1. ASSUME NEW e \in Executions, NEW t \in Tasks \cup {NoTask}, CommitCheckpoint(e, t)
      PROVE  CheckpointsContiguous'
  <2>1. /\ version' = version + 1
        /\ checkpoints' =
             Append(checkpoints, [version |-> version + 1, by |-> e, task |-> t])
    BY <1>1 DEF CommitCheckpoint, SnapshotCAS
  <2>2. [version |-> version + 1, by |-> e, task |-> t] \in Checkpoint
    BY <1>0 DEF Checkpoint
  <2>3. QED
    BY <1>0, <2>1, <2>2 DEF CheckpointsContiguous
<1>2. CASE UNCHANGED <<version, checkpoints>>
  BY <1>2 DEF CheckpointsContiguous
<1>3. ASSUME NEW e \in Executions, CompleteTask(e) \/ Snapshot(e)
      PROVE  CheckpointsContiguous'
  <2>1. task[e] \in Tasks \cup {NoTask}
    BY DEF TypeOK, ExecType
  <2>2. QED
    BY <1>1, <1>3, <2>1 DEF CompleteTask, Snapshot
<1>4. QED
  BY <1>2, <1>3, OnlyCommits

(* Checkpoints are numbered without gap or repetition, whatever executions *)
(* wrote them, and the row carries the number of the last one.             *)
THEOREM CheckpointsAreContiguous == Spec => []CheckpointsContiguous
<1>1. Init => CheckpointsContiguous
  BY DEF Init, CheckpointsContiguous
<1>2. QED
  BY <1>1, ContiguousStep, TypeCorrect, PTL DEF Spec

(* A commit adds one index to those of its task and none to the others.    *)
LEMMA CommittedIndices ==
  ASSUME TypeOK, NEW e \in Executions, NEW t \in Tasks \cup {NoTask},
         CommitCheckpoint(e, t), CheckpointsContiguous, NEW k \in Tasks
  PROVE  CheckpointsOf(k)' =
           IF k = t THEN CheckpointsOf(k) \cup {version + 1} ELSE CheckpointsOf(k)
<1>0. version \in Nat /\ checkpoints \in Seq(Checkpoint)
  BY DEF TypeOK, RowType, TableType
<1> DEFINE entry == [version |-> myVersion[e] + 1, by |-> e, task |-> t]
<1>1. checkpoints' = Append(checkpoints, entry)
  BY DEF CommitCheckpoint
<1>2. entry \in Checkpoint
  BY DEF TypeOK, ExecType, Checkpoint
<1>3. DOMAIN checkpoints = 1 .. version
  BY <1>0 DEF CheckpointsContiguous
<1>4. /\ DOMAIN checkpoints' = 1 .. version + 1
      /\ \A i \in 1 .. version : checkpoints'[i] = checkpoints[i]
      /\ checkpoints'[version + 1].task = t
  BY <1>0, <1>1, <1>2 DEF CheckpointsContiguous
<1>5. QED
  BY <1>0, <1>3, <1>4 DEF CheckpointsOf

LEMMA CommittedStep ==
  TypeOK /\ CheckpointsContiguous /\ TaskCommitted /\ [Next]_vars => TaskCommitted'
<1> SUFFICES ASSUME TypeOK, CheckpointsContiguous, TaskCommitted, [Next]_vars,
                    NEW k \in Tasks
             PROVE  IF taskStatus'[k] = "completed"
                    THEN \E i \in DOMAIN checkpoints' :
                           CheckpointsOf(k)' = {i} /\ i = expected'[k] + 1
                    ELSE CheckpointsOf(k)' = {}
  BY DEF TaskCommitted
<1> USE DEF rowVars, taskVars, execVars, callVars
<1>0. /\ version \in Nat
      /\ checkpoints \in Seq(Checkpoint)
      /\ expected \in [Tasks -> Nat]
      /\ taskStatus \in [Tasks -> {"none", "running", "completed", "failed", "interrupted"}]
      /\ \A e \in Executions : task[e] \in Tasks \cup {NoTask}
  BY DEF TypeOK, RowType, TableType, ExecType
<1>1. DOMAIN checkpoints = 1 .. version
  BY <1>0 DEF CheckpointsContiguous
<1>2. ASSUME NEW e \in Executions, NEW t \in Tasks \cup {NoTask}, CommitCheckpoint(e, t)
      PROVE  /\ version' = version + 1
             /\ myVersion[e] = version
             /\ DOMAIN checkpoints' = 1 .. version + 1
             /\ CheckpointsOf(k)' = IF k = t THEN CheckpointsOf(k) \cup {version + 1}
                                             ELSE CheckpointsOf(k)
  <2>1. Len(checkpoints') = Len(checkpoints) + 1
    <3>1. [version |-> myVersion[e] + 1, by |-> e, task |-> t] \in Checkpoint
      BY DEF TypeOK, ExecType, Checkpoint
    <3>2. QED
      BY <1>0, <1>2, <3>1 DEF CommitCheckpoint
  <2>2. checkpoints' \in Seq(Checkpoint)
    BY TypeStep DEF TypeOK, TableType
  <2>3. version' = version + 1 /\ myVersion[e] = version
    BY <1>2 DEF CommitCheckpoint, SnapshotCAS
  <2>4. DOMAIN checkpoints' = 1 .. version + 1
    BY <1>0, <2>1, <2>2 DEF CheckpointsContiguous
  <2>5. QED
    BY <1>2, <2>3, <2>4, CommittedIndices
<1>3. ASSUME NEW e \in Executions, CompleteTask(e)
      PROVE  IF taskStatus'[k] = "completed"
             THEN \E i \in DOMAIN checkpoints' :
                    CheckpointsOf(k)' = {i} /\ i = expected'[k] + 1
             ELSE CheckpointsOf(k)' = {}
  <2>1. /\ task[e] \in Tasks
        /\ taskStatus[task[e]] = "running"
        /\ expected[task[e]] = myVersion[e]
        /\ CommitCheckpoint(e, task[e])
        /\ taskStatus' = [taskStatus EXCEPT ![task[e]] = "completed"]
        /\ expected' = expected
    BY <1>0, <1>3 DEF CompleteTask
  <2>2. CASE k = task[e]
    <3>1. CheckpointsOf(k) = {}
      BY <2>1, <2>2 DEF TaskCommitted
    <3>2. CheckpointsOf(k)' = {version + 1}
      BY <1>2, <2>1, <2>2, <3>1
    <3>3. version + 1 \in DOMAIN checkpoints' /\ version + 1 = expected'[k] + 1
      BY <1>0, <1>2, <2>1, <2>2
    <3>4. QED
      BY <1>0, <2>1, <2>2, <3>2, <3>3
  <2>3. CASE k # task[e]
    <3>1. CheckpointsOf(k)' = CheckpointsOf(k)
      BY <1>2, <2>1, <2>3
    <3>2. taskStatus'[k] = taskStatus[k] /\ DOMAIN checkpoints \subseteq DOMAIN checkpoints'
      BY <1>0, <1>1, <1>2, <2>1, <2>3
    <3>3. QED
      BY <2>1, <3>1, <3>2 DEF TaskCommitted
  <2>4. QED
    BY <2>2, <2>3
<1>4. ASSUME NEW e \in Executions, Snapshot(e)
      PROVE  IF taskStatus'[k] = "completed"
             THEN \E i \in DOMAIN checkpoints' :
                    CheckpointsOf(k)' = {i} /\ i = expected'[k] + 1
             ELSE CheckpointsOf(k)' = {}
  <2>1. CommitCheckpoint(e, NoTask) /\ UNCHANGED <<taskStatus, expected>> /\ k # NoTask
    BY <1>4 DEF Snapshot
  <2>2. CheckpointsOf(k)' = CheckpointsOf(k) /\ DOMAIN checkpoints \subseteq DOMAIN checkpoints'
    BY <1>0, <1>1, <1>2, <2>1
  <2>3. QED
    BY <2>1, <2>2 DEF TaskCommitted
<1>5. ASSUME UNCHANGED checkpoints,
             taskStatus'[k] = "completed" <=> taskStatus[k] = "completed",
             taskStatus[k] = "completed" => expected'[k] = expected[k]
      PROVE  IF taskStatus'[k] = "completed"
             THEN \E i \in DOMAIN checkpoints' :
                    CheckpointsOf(k)' = {i} /\ i = expected'[k] + 1
             ELSE CheckpointsOf(k)' = {}
  BY <1>5 DEF TaskCommitted, CheckpointsOf
<1>6. ASSUME NEW e \in Executions, ExecutionStep(e), ~CompleteTask(e), ~Snapshot(e)
      PROVE  /\ UNCHANGED checkpoints
             /\ taskStatus'[k] = "completed" <=> taskStatus[k] = "completed"
             /\ taskStatus[k] = "completed" => expected'[k] = expected[k]
  <2>1. CASE Acquire(e)
    BY <1>0, <2>1 DEF Acquire
  <2>2. ASSUME NEW j \in Tasks, BeginTask(e, j)
        PROVE  /\ UNCHANGED checkpoints
               /\ taskStatus'[k] = "completed" <=> taskStatus[k] = "completed"
               /\ taskStatus[k] = "completed" => expected'[k] = expected[k]
    BY <1>0, <2>2 DEF BeginTask, Unstarted
  <2>3. ASSUME NEW stored \in BOOLEAN, FailTask(e, stored)
        PROVE  /\ UNCHANGED checkpoints
               /\ taskStatus'[k] = "completed" <=> taskStatus[k] = "completed"
               /\ taskStatus[k] = "completed" => expected'[k] = expected[k]
    BY <1>0, <2>3 DEF FailTask
  <2>4. CASE \/ AcquireRefused(e) \/ Renew(e) \/ PersistBudget(e) \/ Crash(e) \/ RunOut(e)
             \/ \E amount \in Usages : RecordUsage(e, amount)
             \/ \E status \in {"result", "stop"} : Publish(e, status)
             \/ \E stored \in BOOLEAN : Release(e, stored)
    BY <2>4
       DEF AcquireRefused, Renew, PersistBudget, RecordUsage, RunOut, Crash, Publish, Release
  <2>5. QED
    BY <1>6, <2>1, <2>2, <2>3, <2>4 DEF ExecutionStep
<1>7. ASSUME NEW e \in Executions, NEW c \in Calls, CallStep(e, c)
      PROVE  UNCHANGED <<checkpoints, taskStatus, expected>>
  BY <1>7
     DEF CallStep, StartCall, ReserveMemory, ReserveAttempt, Refund, Answered,
         Unanswered, Settle
<1>8. CASE \/ Tick \/ CancelRuntime \/ UNCHANGED vars
           \/ \E n \in Limits : UpdateTokenLimit(n)
  BY <1>5, <1>8 DEF Tick, CancelRuntime, UpdateTokenLimit, vars
<1>9. QED
  BY <1>3, <1>4, <1>5, <1>6, <1>7, <1>8 DEF Next

(* A completed task has exactly one checkpoint, right after the version it *)
(* started from; a task that is not completed has none.                    *)
THEOREM TasksCommitOnce == Spec => []TaskCommitted
<1>1. Init => TaskCommitted
  BY DEF Init, TaskCommitted, CheckpointsOf
<1>2. QED
  BY <1>1, CommittedStep, TypeCorrect, CheckpointsAreContiguous, PTL DEF Spec
-----------------------------------------------------------------------------
(* A fenced execution stays fenced.                                        *)

LEMMA FenceKept ==
  ASSUME TypeOK, [Next]_vars, NEW e \in Executions, Fenced(e)
  PROVE  Fenced(e)'
<1>0. phase \in [Executions -> {"new", "active", "exhausted", "done", "refused", "crashed"}]
  BY DEF TypeOK, ExecType
<1>1. ASSUME NEW f \in Executions, Acquire(f) PROVE Fenced(e)'
  BY <1>0, <1>1 DEF Acquire, Fenced
<1>2. CASE /\ owner' = owner /\ (cancelled => cancelled')
           /\ phase'[e] \in {"new", "refused"} <=> phase[e] \in {"new", "refused"}
  BY <1>2 DEF Fenced
<1>3. CASE /\ owner' = NoOwner
           /\ phase'[e] \in {"new", "refused"} <=> phase[e] \in {"new", "refused"}
  BY <1>3 DEF Fenced
<1>4. QED
  BY <1>1, <1>2, <1>3, LeaseWrites

LEMMA FenceBlocksCommits ==
  ASSUME TypeOK, [Next]_vars, NEW e \in Executions, Fenced(e)
  PROVE  CommitsOf(e)' = CommitsOf(e)
<1>1. ASSUME NEW f \in Executions, NEW t \in Tasks \cup {NoTask}, CommitCheckpoint(f, t)
      PROVE  CommitsOf(e)' = CommitsOf(e)
  <2> DEFINE entry == [version |-> myVersion[f] + 1, by |-> f, task |-> t]
  <2>1. checkpoints \in Seq(Checkpoint) /\ entry \in Checkpoint
    BY DEF TypeOK, TableType, ExecType, Checkpoint
  <2>2. checkpoints' = Append(checkpoints, entry)
    BY <1>1 DEF CommitCheckpoint
  <2>3. f # e
    BY <1>1 DEF CommitCheckpoint, SnapshotCAS, Fenced
  <2>4. /\ DOMAIN checkpoints' = DOMAIN checkpoints \cup {Len(checkpoints) + 1}
        /\ \A i \in DOMAIN checkpoints : checkpoints'[i] = checkpoints[i]
        /\ checkpoints'[Len(checkpoints) + 1] = entry
        /\ Len(checkpoints) + 1 \notin DOMAIN checkpoints
    BY <2>1, <2>2
  <2>5. QED
    BY <2>3, <2>4 DEF CommitsOf
<1>2. CASE UNCHANGED checkpoints
  BY <1>2 DEF CommitsOf
<1>3. ASSUME NEW f \in Executions, CompleteTask(f) \/ Snapshot(f)
      PROVE  CommitsOf(e)' = CommitsOf(e)
  <2>1. task[f] \in Tasks \cup {NoTask}
    BY DEF TypeOK, ExecType
  <2>2. QED
    BY <1>1, <1>3, <2>1 DEF CompleteTask, Snapshot
<1>4. QED
  BY <1>2, <1>3, OnlyCommits

LEMMA FenceBlocksResults ==
  ASSUME TypeOK, [Next]_vars, NEW e \in Executions, Fenced(e),
         session' # session, session'.by = e
  PROVE  session'.status = "stop"
<1> USE DEF rowVars, taskVars, execVars, callVars
<1>1. ASSUME NEW f \in Executions, ExecutionStep(f)
      PROVE  \E status \in {"result", "stop"} : Publish(f, status)
  BY <1>1, Zenon
     DEF ExecutionStep, Acquire, AcquireRefused, Renew, BeginTask, CompleteTask,
         Snapshot, FailTask, PersistBudget, RecordUsage, RunOut, Release, Crash
<1>2. ASSUME NEW f \in Executions, NEW c \in Calls, CallStep(f, c) PROVE FALSE
  BY <1>2
     DEF CallStep, StartCall, ReserveMemory, ReserveAttempt, Refund, Answered,
         Unanswered, Settle
<1>3. PICK f \in Executions, status \in {"result", "stop"} : Publish(f, status)
  BY <1>1, <1>2 DEF Next, Tick, CancelRuntime, UpdateTokenLimit, vars
<1>4. session' = [status |-> status, version |-> myVersion[f], by |-> f] /\ f = e
  BY <1>3 DEF Publish
<1>5. QED
  BY <1>3, <1>4 DEF Publish, MayPublish, Fenced

(* An execution that lost the lease or was cancelled is fenced for ever:   *)
(* it commits nothing and saves no result, whoever holds the lease later.  *)
THEOREM FencedIsForever == Spec => FencedForever
<1>1. TypeOK /\ [Next]_vars => [FencedStep]_vars
  BY FenceKept, FenceBlocksCommits, FenceBlocksResults DEF FencedStep
<1>2. QED
  BY <1>1, TypeCorrect, PTL DEF Spec, FencedForever
-----------------------------------------------------------------------------
(* The ledger implements the journal.                                      *)

Opened == {e \in Executions : phase[e] \notin {"new", "refused"}}
Entries == [i \in DOMAIN checkpoints |->
              [by |-> checkpoints[i].by, task |-> checkpoints[i].task]]

LEMMA JournalCommit ==
  ASSUME TypeOK, OwnerCurrent, TaskCommitted, NEW e \in Executions,
         NEW t \in Tasks \cup {NoTask}, CommitCheckpoint(e, t),
         t # NoTask => taskStatus[t] = "running",
         UNCHANGED <<owner, cancelled, phase>>
  PROVE  Journal!Commit(t)
<1> DEFINE entry == [version |-> myVersion[e] + 1, by |-> e, task |-> t]
<1>1. checkpoints \in Seq(Checkpoint) /\ entry \in Checkpoint
  BY DEF TypeOK, TableType, ExecType, Checkpoint
<1>2. checkpoints' = Append(checkpoints, entry)
  BY DEF CommitCheckpoint
<1>3. owner = e /\ ~cancelled /\ owner # NoOwner
  BY DEF CommitCheckpoint, SnapshotCAS
<1>4. \A i \in DOMAIN Entries : t # NoTask => Entries[i].task # t
  BY DEF TaskCommitted, CheckpointsOf, Entries
<1>5. /\ DOMAIN checkpoints' = DOMAIN checkpoints \cup {Len(checkpoints) + 1}
      /\ \A i \in DOMAIN checkpoints : checkpoints'[i] = checkpoints[i]
      /\ checkpoints'[Len(checkpoints) + 1] = entry
      /\ DOMAIN checkpoints = 1 .. Len(checkpoints)
      /\ Len(checkpoints) \in Nat
  BY <1>1, <1>2
<1>6. Entries \in Seq([by : Executions, task : Tasks \cup {NoTask}])
      /\ Len(Entries) = Len(checkpoints)
  <2> DEFINE S == [by : Executions, task : Tasks \cup {NoTask}]
  <2>1. \A i \in DOMAIN checkpoints :
          [by |-> checkpoints[i].by, task |-> checkpoints[i].task] \in S
    <3>1. \A i \in DOMAIN checkpoints : checkpoints[i] \in Checkpoint
      BY <1>1
    <3>2. QED
      BY <3>1 DEF Checkpoint
  <2>2. Entries \in [1 .. Len(checkpoints) -> S]
    BY <1>5, <2>1 DEF Entries
  <2>3. Entries \in Seq(S)
    <3> HIDE DEF S
    <3> DEFINE n == Len(checkpoints)
    <3>1. Seq(S) = UNION {[1 .. m -> S] : m \in Nat}
      BY SeqDef
    <3>2. n \in Nat /\ Entries \in [1 .. n -> S]
      BY <1>5, <2>2
    <3> HIDE DEF n
    <3>3. QED
      BY <3>1, <3>2, Zenon
  <2>4. QED
    BY <1>5, <2>2, <2>3
<1>7. Entries' = Append(Entries, [by |-> e, task |-> t])
  BY <1>5, <1>6 DEF Entries
<1>8. QED
  BY <1>3, <1>4, <1>7 DEF Journal!Commit, Entries, Opened

LEMMA JournalStep ==
  ASSUME TypeOK, OwnerCurrent, TaskCommitted, [Next]_vars
  PROVE  [Journal!Next]_(Journal!vars)
<1> USE DEF rowVars, taskVars, execVars, callVars
<1>0. /\ phase \in [Executions ->
                     {"new", "active", "exhausted", "done", "refused", "crashed"}]
      /\ cancelled \in BOOLEAN
  BY DEF TypeOK, RowType, ExecType
<1>1. ASSUME UNCHANGED <<owner, cancelled, checkpoints>>,
             \A e \in Executions :
               phase'[e] \in {"new", "refused"} <=> phase[e] \in {"new", "refused"}
      PROVE  UNCHANGED Journal!vars
  BY <1>1 DEF Journal!vars
<1>2. ASSUME NEW e \in Executions, ExecutionStep(e)
      PROVE  Journal!Next \/ UNCHANGED Journal!vars
  <2>1. CASE Acquire(e)
    <3>1. Opened' = Opened \cup {e} /\ e \notin Opened
      BY <1>0, <2>1 DEF Acquire, Opened
    <3>2. Journal!Open(e)
      BY <2>1, <3>1 DEF Acquire, Journal!Open, Opened
    <3>3. QED
      BY <3>2 DEF Journal!Next
  <2>2. CASE AcquireRefused(e)
    BY <1>0, <1>1, <2>2 DEF AcquireRefused
  <2>3. CASE Crash(e) \/ RunOut(e)
    BY <1>0, <1>1, <2>3 DEF Crash, RunOut, Running
  <2>4. CASE \/ Renew(e) \/ PersistBudget(e)
             \/ \E amount \in Usages : RecordUsage(e, amount)
             \/ \E k \in Tasks : BeginTask(e, k)
             \/ \E stored \in BOOLEAN : FailTask(e, stored)
             \/ \E status \in {"result", "stop"} : Publish(e, status)
    BY <1>1, <2>4 DEF Renew, PersistBudget, RecordUsage, BeginTask, FailTask, Publish
  <2>5. CASE CompleteTask(e) \/ Snapshot(e)
    <3>1. PICK t \in Tasks \cup {NoTask} :
            /\ CommitCheckpoint(e, t)
            /\ t # NoTask => taskStatus[t] = "running"
            /\ UNCHANGED <<owner, cancelled, phase>>
      <4>1. task[e] \in Tasks \cup {NoTask}
        BY DEF TypeOK, ExecType
      <4>2. QED
        BY <2>5, <4>1 DEF CompleteTask, Snapshot
    <3>2. Journal!Commit(t)
      BY <3>1, JournalCommit
    <3>3. QED
      BY <3>2 DEF Journal!Next
  <2>6. ASSUME NEW stored \in BOOLEAN, Release(e, stored)
        PROVE  Journal!Next \/ UNCHANGED Journal!vars
    <3>1. Opened' = Opened
      BY <1>0, <2>6 DEF Release, Running, Opened
    <3>2. CASE owner' = NoOwner /\ owner = e
      <4>1. Journal!Close
        BY <2>6, <3>1, <3>2 DEF Release, Journal!Close, Opened
      <4>2. QED
        BY <4>1 DEF Journal!Next
    <3>3. CASE owner' = owner
      BY <2>6, <3>1, <3>3 DEF Release, Journal!vars, Opened
    <3>4. QED
      BY <2>6, <3>2, <3>3 DEF Release
  <2>7. QED
    BY <1>2, <2>1, <2>2, <2>3, <2>4, <2>5, <2>6 DEF ExecutionStep
<1>3. ASSUME NEW e \in Executions, NEW c \in Calls, CallStep(e, c)
      PROVE  UNCHANGED Journal!vars
  <2>1. CASE ReserveMemory(e, c)
    BY <1>0, <1>1, <2>1 DEF ReserveMemory, Running
  <2>2. CASE \/ StartCall(e, c) \/ ReserveAttempt(e, c) \/ Refund(e, c)
             \/ Answered(e, c) \/ Unanswered(e, c)
    BY <1>1, <2>2
       DEF StartCall, ReserveAttempt, Refund, Answered, Unanswered, Settle
  <2>3. QED
    BY <1>3, <2>1, <2>2 DEF CallStep
<1>4. CASE CancelRuntime
  BY <1>4 DEF CancelRuntime, Journal!Stop, Journal!Next
<1>5. CASE Tick \/ UNCHANGED vars \/ \E n \in Limits : UpdateTokenLimit(n)
  BY <1>1, <1>5 DEF Tick, UpdateTokenLimit, vars
<1>6. QED
  BY <1>2, <1>3, <1>4, <1>5 DEF Next

(* The repository implements the journal: one writer at a time, a session  *)
(* opened at most once by an execution, a task committed at most once, and *)
(* nothing written after a stop.                                           *)
THEOREM ImplementsJournal == Spec => JournalSpec
<1>1. Init => Journal!Init
  <2>1. ASSUME Init PROVE Opened = {} /\ Entries = << >>
    BY <2>1 DEF Init, Opened, Entries
  <2>2. QED
    BY <2>1 DEF Init, Journal!Init, Opened, Entries
<1>2. TypeOK /\ OwnerCurrent /\ TaskCommitted /\ [Next]_vars
        => [Journal!Next]_(Journal!vars)
  BY JournalStep
<1>3. QED
  BY <1>1, <1>2, TypeCorrect, HolderIsCurrent, TasksCommitOnce, PTL
     DEF Spec, JournalSpec, Journal!Spec

-----------------------------------------------------------------------------
(* Sums over a finite set.                                                 *)

(* A set of naturals that is not empty has a smallest element.            *)
LEMMA SmallestNumber ==
  ASSUME NEW N, N \subseteq Nat, N # {}
  PROVE  \E n \in N : \A k \in N : ~(k < n)
<1>1. PICK n \in N : \A k \in N : ~(<<k, n>> \in OpToRel(<, Nat))
  BY NatLessThanWellFounded, WFMin
<1>2. \A k \in N : ~(k < n)
  BY <1>1 DEF OpToRel
<1> QED
  BY <1>2

(* Among some subsets of a finite set there is one from which no element   *)
(* can be taken without leaving them.                                      *)
LEMMA Smallest ==
  ASSUME NEW S, IsFiniteSet(S), NEW W, W \subseteq SUBSET S, W # {}
  PROVE  \E s \in W : \A x \in s : s \ {x} \notin W
<1> DEFINE Sizes == {Cardinality(s) : s \in W}
<1>1. ASSUME NEW s \in W PROVE IsFiniteSet(s) /\ Cardinality(s) \in Nat
  <2>1. s \subseteq S
    OBVIOUS
  <2>2. IsFiniteSet(s)
    BY <2>1, FS_Subset
  <2> QED
    BY <2>2, FS_CardinalityType
<1>2. Sizes \subseteq Nat /\ Sizes # {}
  BY <1>1
<1>4. PICK n \in Sizes : \A k \in Sizes : ~(k < n)
  <2> HIDE DEF Sizes
  <2> QED
    BY <1>2, SmallestNumber
<1>5. PICK s \in W : n = Cardinality(s)
  BY <1>4
<1>6. ASSUME NEW x \in s PROVE s \ {x} \notin W
  <2>1. IsFiniteSet(s) /\ Cardinality(s) \in Nat
    BY <1>1
  <2>2. Cardinality(s \ {x}) = Cardinality(s) - 1
    BY <2>1, FS_RemoveElement
  <2>3. Cardinality(s \ {x}) < n
    BY <1>5, <2>1, <2>2
  <2>4. Cardinality(s \ {x}) \notin Sizes
    BY <1>4, <2>3
  <2> QED
    BY <2>4
<1> QED
  BY <1>6

(* m is the sum of f over every subset of S.                               *)
Sums(m, f, S) ==
  /\ m \in [SUBSET S -> Int]
  /\ m[{}] = 0
  /\ \A s \in SUBSET S : \A x \in s : m[s] = f[x] + m[s \ {x}]

LEMMA SumsExist ==
  ASSUME NEW S, IsFiniteSet(S), NEW f \in [S -> Int]
  PROVE  \E m : Sums(m, f, S)
<1> DEFINE W == {s \in SUBSET S : ~\E m : Sums(m, f, s)}
<1> SUFFICES ASSUME W # {} PROVE FALSE
  OBVIOUS
<1>1. PICK s \in W : \A x \in s : s \ {x} \notin W
  <2>1. W \subseteq SUBSET S
    OBVIOUS
  <2> HIDE DEF W
  <2> QED
    BY <2>1, Smallest
<1>2. s # {}
  <2>1. Sums([t \in SUBSET {} |-> 0], f, {})
    BY DEF Sums
  <2> QED
    BY <2>1
<1>3. PICK x \in s : TRUE
  BY <1>2
<1>4. PICK m : Sums(m, f, s \ {x})
  BY <1>1, <1>3
<1>5. PICK g : g = [t \in SUBSET s |-> IF x \in t THEN f[x] + m[t \ {x}] ELSE m[t]]
  OBVIOUS
<1>6. Sums(g, f, s)
  <2>1. /\ m \in [SUBSET (s \ {x}) -> Int]
        /\ \A t \in SUBSET (s \ {x}) : \A y \in t : m[t] = f[y] + m[t \ {y}]
        /\ m[{}] = 0
    BY <1>4 DEF Sums
  <2>2. \A t \in SUBSET s : /\ t \ {x} \in SUBSET (s \ {x})
                           /\ x \notin t => t \in SUBSET (s \ {x})
    OBVIOUS
  <2>3. f[x] \in Int
    BY <1>3
  <2>4. g \in [SUBSET s -> Int] /\ g[{}] = 0
    BY <1>5, <2>1, <2>2, <2>3
  <2>5. ASSUME NEW t \in SUBSET s, NEW y \in t PROVE g[t] = f[y] + g[t \ {y}]
    <3>1. t \ {y} \in SUBSET s /\ f[y] \in Int
      OBVIOUS
    <3>2. CASE y = x
      BY <1>5, <3>1, <3>2
    <3>3. CASE y # x /\ x \in t
      <4>1. y \in t \ {x} /\ (t \ {y}) \ {x} = (t \ {x}) \ {y} /\ x \in t \ {y}
        BY <3>3
      <4>2. m[t \ {x}] = f[y] + m[(t \ {x}) \ {y}]
        BY <2>1, <2>2, <4>1
      <4>3. m[(t \ {x}) \ {y}] \in Int
        BY <2>1, <2>2, <3>1, <4>1
      <4>4. g[t] = f[x] + m[t \ {x}] /\ g[t \ {y}] = f[x] + m[(t \ {x}) \ {y}]
        BY <1>5, <3>1, <3>3, <4>1
      <4> QED
        BY <2>3, <3>1, <4>2, <4>3, <4>4
    <3>4. CASE x \notin t
      <4>1. x \notin t \ {y} /\ t \in SUBSET (s \ {x})
        BY <3>4
      <4>2. g[t] = m[t] /\ g[t \ {y}] = m[t \ {y}]
        BY <1>5, <3>1, <3>4, <4>1
      <4> QED
        BY <2>1, <4>1, <4>2
    <3> QED
      BY <3>2, <3>3, <3>4
  <2> QED
    BY <2>4, <2>5 DEF Sums
<1> QED
  BY <1>1, <1>6

(* A sum of larger values is larger. *)
LEMMA SumsOrdered ==
  ASSUME NEW S, IsFiniteSet(S), NEW f \in [S -> Int], NEW g \in [S -> Int],
         \A x \in S : f[x] <= g[x],
         NEW m, NEW n, Sums(m, f, S), Sums(n, g, S)
  PROVE  m[S] <= n[S]
<1> DEFINE W == {s \in SUBSET S : ~(m[s] <= n[s])}
<1> SUFFICES ASSUME W # {} PROVE FALSE
  OBVIOUS
<1>1. PICK s \in W : \A x \in s : s \ {x} \notin W
  <2>1. W \subseteq SUBSET S
    OBVIOUS
  <2> HIDE DEF W
  <2> QED
    BY <2>1, Smallest
<1>2. PICK x \in s : TRUE
  <2>1. m[{}] = 0 /\ n[{}] = 0
    BY DEF Sums
  <2>2. ~(m[s] <= n[s])
    BY <1>1
  <2>3. s # {}
    BY <2>1, <2>2
  <2> QED
    BY <2>3
<1>3. /\ m[s] = f[x] + m[s \ {x}] /\ n[s] = g[x] + n[s \ {x}]
      /\ m[s \ {x}] \in Int /\ n[s \ {x}] \in Int
  BY DEF Sums
<1>4. m[s \ {x}] <= n[s \ {x}]
  BY <1>1
<1>5. f[x] \in Int /\ g[x] \in Int /\ f[x] <= g[x]
  OBVIOUS
<1> QED
  BY <1>3, <1>4, <1>5

(* The elements the folds of the community modules take first.             *)
Any(s) == CHOOSE x \in s : TRUE

(* The fold over the calls is such a sum. *)
LEMMA TotalSums ==
  ASSUME NEW f \in [Calls -> Int]
  PROVE  \E m : Sums(m, f, Calls) /\ Total(f) = m[Calls]
<1> DEFINE Fold(g) ==
             g = [s \in SUBSET Calls |->
                    IF s = {} THEN 0 ELSE f[Any(s)] + g[s \ {Any(s)}]]
<1>1. PICK m : Sums(m, f, Calls)
  BY CallsAssumption, SumsExist DEF CallsAssumption
<1>2. Fold(m)
  <2>1. ASSUME NEW s \in SUBSET Calls
        PROVE  m[s] = IF s = {} THEN 0 ELSE f[Any(s)] + m[s \ {Any(s)}]
    BY <1>1 DEF Sums, Any
  <2> QED
    BY <1>1, <2>1 DEF Sums
<1>3. PICK g : g = CHOOSE h : Fold(h)
  OBVIOUS
<1>4. Fold(g)
  BY <1>2, <1>3
<1>5. Total(f) = g[Calls]
  BY <1>3 DEF Total, MapThenSumSet, MapThenFoldSet, Any
<1>6. g[Calls] = m[Calls]
  <2> DEFINE W == {s \in SUBSET Calls : g[s] # m[s]}
  <2> SUFFICES ASSUME W # {} PROVE FALSE
    OBVIOUS
  <2>1. PICK s \in W : \A x \in s : s \ {x} \notin W
    <3>1. W \subseteq SUBSET Calls
      OBVIOUS
    <3> HIDE DEF W
    <3> QED
      BY <3>1, CallsAssumption, Smallest DEF CallsAssumption
  <2>2. s # {}
    BY <1>2, <1>4
  <2>3. Any(s) \in s
    BY <2>2 DEF Any
  <2>4. g[s \ {Any(s)}] = m[s \ {Any(s)}]
    BY <2>1, <2>3
  <2> QED
    BY <1>2, <1>4, <2>2, <2>4
<1> QED
  BY <1>1, <1>5, <1>6

LEMMA TotalOrdered ==
  ASSUME NEW f \in [Calls -> Int], NEW g \in [Calls -> Int],
         \A c \in Calls : f[c] <= g[c]
  PROVE  Total(f) <= Total(g)
<1>1. PICK m : Sums(m, f, Calls) /\ Total(f) = m[Calls]
  BY TotalSums
<1>2. PICK n : Sums(n, g, Calls) /\ Total(g) = n[Calls]
  BY TotalSums
<1>3. m[Calls] <= n[Calls]
  BY <1>1, <1>2, CallsAssumption, SumsOrdered DEF CallsAssumption
<1> QED
  BY <1>1, <1>2, <1>3

(* Whatever sums f has the total of f. *)
LEMMA TotalUnique ==
  ASSUME NEW f \in [Calls -> Int], NEW n, Sums(n, f, Calls)
  PROVE  Total(f) = n[Calls]
<1>1. PICK m : Sums(m, f, Calls) /\ Total(f) = m[Calls]
  BY TotalSums
<1>2. m[Calls] <= n[Calls] /\ n[Calls] <= m[Calls]
  <2>1. \A c \in Calls : f[c] <= f[c]
    OBVIOUS
  <2> QED
    BY <1>1, <2>1, CallsAssumption, SumsOrdered DEF CallsAssumption
<1>3. m[Calls] \in Int /\ n[Calls] \in Int
  BY <1>1 DEF Sums
<1> QED
  BY <1>1, <1>2, <1>3

LEMMA TotalType ==
  ASSUME NEW f \in [Calls -> Int]
  PROVE  Total(f) \in Int
<1>1. PICK m : Sums(m, f, Calls) /\ Total(f) = m[Calls]
  BY TotalSums
<1> QED
  BY <1>1 DEF Sums

(* Adding up two values of each call. *)
LEMMA TotalAdds ==
  ASSUME NEW f \in [Calls -> Int], NEW g \in [Calls -> Int], NEW h \in [Calls -> Int],
         \A c \in Calls : h[c] = f[c] + g[c]
  PROVE  Total(h) = Total(f) + Total(g)
<1>1. PICK m : Sums(m, f, Calls) /\ Total(f) = m[Calls]
  BY TotalSums
<1>2. PICK n : Sums(n, g, Calls) /\ Total(g) = n[Calls]
  BY TotalSums
<1>3. PICK k : k = [s \in SUBSET Calls |-> m[s] + n[s]]
  OBVIOUS
<1>4. Sums(k, h, Calls)
  <2>1. /\ m \in [SUBSET Calls -> Int] /\ m[{}] = 0
        /\ n \in [SUBSET Calls -> Int] /\ n[{}] = 0
    BY <1>1, <1>2 DEF Sums
  <2>2. k \in [SUBSET Calls -> Int] /\ k[{}] = 0
    BY <1>3, <2>1
  <2>3. ASSUME NEW s \in SUBSET Calls, NEW x \in s
        PROVE  k[s] = h[x] + k[s \ {x}]
    <3>1. /\ m[s] = f[x] + m[s \ {x}] /\ n[s] = g[x] + n[s \ {x}]
          /\ s \ {x} \in SUBSET Calls
      BY <1>1, <1>2 DEF Sums
    <3>2. m[s \ {x}] \in Int /\ n[s \ {x}] \in Int /\ h[x] = f[x] + g[x]
      BY <2>1, <3>1
    <3>3. f[x] \in Int /\ g[x] \in Int
      OBVIOUS
    <3>4. k[s] = m[s] + n[s] /\ k[s \ {x}] = m[s \ {x}] + n[s \ {x}]
      BY <1>3, <3>1
    <3> QED
      BY <3>1, <3>2, <3>3, <3>4
  <2> QED
    BY <2>2, <2>3 DEF Sums
<1>5. Total(h) = k[Calls]
  BY <1>4, TotalUnique
<1> QED
  BY <1>1, <1>2, <1>3, <1>5

(* Changing the value of one call. *)
LEMMA TotalChanges ==
  ASSUME NEW f \in [Calls -> Int], NEW g \in [Calls -> Int], NEW c \in Calls,
         \A d \in Calls : d # c => g[d] = f[d]
  PROVE  Total(g) = Total(f) + g[c] - f[c]
<1>1. PICK m : Sums(m, f, Calls) /\ Total(f) = m[Calls]
  BY TotalSums
<1>2. PICK k : k = [s \in SUBSET Calls |->
                      IF c \in s THEN m[s] + (g[c] - f[c]) ELSE m[s]]
  OBVIOUS
<1>3. Sums(k, g, Calls)
  <2>1. m \in [SUBSET Calls -> Int] /\ m[{}] = 0
    BY <1>1 DEF Sums
  <2>2. k \in [SUBSET Calls -> Int] /\ k[{}] = 0
    BY <1>2, <2>1
  <2>3. ASSUME NEW s \in SUBSET Calls, NEW x \in s PROVE k[s] = g[x] + k[s \ {x}]
    <3>1. s \ {x} \in SUBSET Calls /\ m[s] = f[x] + m[s \ {x}] /\ m[s \ {x}] \in Int
      BY <1>1, <2>1 DEF Sums
    <3>2. CASE x = c
      BY <1>2, <3>1, <3>2
    <3>3. CASE x # c
      BY <1>2, <3>1, <3>3
    <3> QED
      BY <3>2, <3>3
  <2> QED
    BY <2>2, <2>3 DEF Sums
<1>4. Total(g) = k[Calls]
  BY <1>3, TotalUnique
<1>5. m[Calls] \in Int
  BY <1>1 DEF Sums
<1> QED
  BY <1>1, <1>2, <1>4, <1>5

(* The same value for the calls of a set. *)
LEMMA TotalCounts ==
  ASSUME NEW A \in SUBSET Calls, NEW r \in Nat
  PROVE  Total([c \in Calls |-> IF c \in A THEN r ELSE 0]) = r * Cardinality(A)
<1>1. PICK f : f = [c \in Calls |-> IF c \in A THEN r ELSE 0]
  OBVIOUS
<1>2. PICK k : k = [s \in SUBSET Calls |-> r * Cardinality(s \cap A)]
  OBVIOUS
<1>3. \A s \in SUBSET Calls : IsFiniteSet(s \cap A) /\ Cardinality(s \cap A) \in Nat
  BY CallsAssumption, FS_Subset, FS_CardinalityType DEF CallsAssumption
<1>4. Sums(k, f, Calls)
  <2>1. \A s \in SUBSET Calls : k[s] \in Int
    <3> SUFFICES ASSUME NEW s \in SUBSET Calls PROVE k[s] \in Int
      OBVIOUS
    <3>1. PICK n \in Nat : n = Cardinality(s \cap A)
      BY <1>3
    <3> QED
      BY <1>2, <3>1
  <2>2. k[{}] = 0
    <3>1. Cardinality({} \cap A) = 0
      BY FS_EmptySet
    <3> QED
      BY <1>2, <3>1
  <2>3. ASSUME NEW s \in SUBSET Calls, NEW x \in s PROVE k[s] = f[x] + k[s \ {x}]
    <3>1. PICK n \in Nat : n = Cardinality(s \cap A)
      BY <1>3
    <3>2. PICK o \in Nat : o = Cardinality((s \ {x}) \cap A)
      BY <1>3
    <3>3. n = (IF x \in A THEN o + 1 ELSE o)
      <4>1. (s \ {x}) \cap A = (s \cap A) \ {x}
        OBVIOUS
      <4>2. CASE x \in A
        <5>1. x \in s \cap A /\ IsFiniteSet(s \cap A)
          BY <1>3, <4>2
        <5>2. Cardinality((s \cap A) \ {x}) = Cardinality(s \cap A) - 1
          BY <5>1, FS_RemoveElement
        <5>3. o = n - 1
          BY <3>1, <3>2, <4>1, <5>2
        <5> QED
          BY <4>2, <5>3
      <4>3. CASE x \notin A
        <5>1. (s \cap A) \ {x} = s \cap A
          BY <4>3
        <5> QED
          BY <3>1, <3>2, <4>1, <4>3, <5>1
      <4> QED
        BY <4>2, <4>3
    <3>4. r * (o + 1) = r + r * o
      OBVIOUS
    <3>5. k[s] = r * n /\ k[s \ {x}] = r * o /\ f[x] = IF x \in A THEN r ELSE 0
      BY <1>1, <1>2, <3>1, <3>2
    <3>6. r * o \in Int
      OBVIOUS
    <3> QED
      BY <3>3, <3>4, <3>5, <3>6
  <2>4. k = [s \in SUBSET Calls |-> k[s]]
    BY <1>2
  <2> QED
    BY <2>1, <2>2, <2>3, <2>4 DEF Sums
<1>5. Calls \cap A = A
  OBVIOUS
<1>6. f \in [Calls -> Int]
  BY <1>1
<1>7. Total(f) = k[Calls]
  BY <1>4, <1>6, TotalUnique
<1> QED
  BY <1>1, <1>2, <1>5, <1>7

-----------------------------------------------------------------------------
(* The budget of the calls.                                                *)

(* Each sum is one of numbers of tokens. *)
Tokens(f) == f \in [Calls -> Nat]

LEMMA TokensType ==
  ASSUME TypeOK
  PROVE  /\ Tokens(Due) /\ Tokens(Closed) /\ Tokens(InFlight)
         /\ Tokens(Kept) /\ Tokens(Charge) /\ Tokens(Past) /\ Tokens(Overrun)
<1>1. /\ attempts \in [Calls -> {"none", "running", "completed", "uncertain"}]
      /\ cost \in [Calls -> Nat]
  BY DEF TypeOK, TableType, CallType
<1>2. Tokens(Closed) /\ Tokens(InFlight) /\ Tokens(Kept)
  BY <1>1 DEF Tokens, Closed, InFlight, Kept
<1>3. Tokens(Charge)
  BY <1>1, <1>2 DEF Tokens, Charge
<1>4. Tokens(Due)
  BY <1>1 DEF Tokens, Due, Lesser
<1>5. \A c \in Calls : Excess(c) \in Nat
  BY <1>1 DEF Excess
<1>6. Tokens(Past) /\ Tokens(Overrun)
  BY <1>5 DEF Tokens, Past, Overrun
<1> QED
  BY <1>2, <1>3, <1>4, <1>6

(* The same of the next state. *)
LEMMA TokensTypeNext ==
  ASSUME TypeOK'
  PROVE  /\ Tokens(Due') /\ Tokens(Closed') /\ Tokens(InFlight')
         /\ Tokens(Kept') /\ Tokens(Charge') /\ Tokens(Past')
<1>1. /\ attempts' \in [Calls -> {"none", "running", "completed", "uncertain"}]
      /\ cost' \in [Calls -> Nat]
  BY DEF TypeOK, TableType, CallType
<1>2. Tokens(Closed') /\ Tokens(InFlight') /\ Tokens(Kept')
  BY <1>1 DEF Tokens, Closed, InFlight, Kept
<1>3. Tokens(Charge')
  BY <1>1, <1>2 DEF Tokens, Charge
<1>4. Tokens(Due')
  BY <1>1 DEF Tokens, Due, Lesser
<1>5. \A c \in Calls : Excess(c)' \in Nat
  BY <1>1 DEF Excess
<1>6. Tokens(Past')
  BY <1>5 DEF Tokens, Past
<1> QED
  BY <1>2, <1>3, <1>4, <1>6

(* A sum of tokens is a number of tokens. *)
LEMMA TotalNat ==
  ASSUME NEW f, Tokens(f)
  PROVE  Total(f) \in Nat
<1>1. PICK z : z = [c \in Calls |-> IF c \in {} THEN 0 ELSE 0]
  OBVIOUS
<1>2. Total(z) = 0 * Cardinality({})
  BY <1>1, TotalCounts
<1>3. Cardinality({}) = 0
  BY FS_EmptySet
<1>4. f \in [Calls -> Int] /\ z \in [Calls -> Int] /\ \A c \in Calls : z[c] <= f[c]
  BY <1>1 DEF Tokens
<1>5. Total(f) \in Int /\ Total(z) <= Total(f)
  BY <1>4, TotalType, TotalOrdered
<1> QED
  BY <1>2, <1>3, <1>5

(* Tokens of which no call has more in the first are no more in total.     *)
LEMMA NoMore ==
  ASSUME NEW f, NEW g, Tokens(f), Tokens(g), \A c \in Calls : f[c] <= g[c]
  PROVE  Total(f) <= Total(g)
<1>1. f \in [Calls -> Int] /\ g \in [Calls -> Int]
  BY DEF Tokens
<1> QED
  BY <1>1, TotalOrdered

(* When the tokens of one call change, the total changes by as much.       *)
LEMMA OneChanges ==
  ASSUME NEW f, NEW g, Tokens(f), Tokens(g), NEW c \in Calls,
         \A d \in Calls : d # c => g[d] = f[d]
  PROVE  Total(g) = Total(f) + g[c] - f[c]
<1>1. f \in [Calls -> Int] /\ g \in [Calls -> Int]
  BY DEF Tokens
<1> QED
  BY <1>1, TotalChanges

(* A step of one call changes the sums by what it changes of that call.    *)
LEMMA OneCall ==
  ASSUME TypeOK, TypeOK', NEW c \in Calls, owner' = owner,
         \A d \in Calls : d # c =>
           /\ attempts'[d] = attempts[d] /\ step'[d] = step[d]
           /\ caller'[d] = caller[d] /\ cost'[d] = cost[d]
  PROVE  /\ Total(Due)' = Total(Due) + Due'[c] - Due[c]
         /\ Total(Closed)' = Total(Closed) + Closed'[c] - Closed[c]
         /\ Total(InFlight)' = Total(InFlight) + InFlight'[c] - InFlight[c]
         /\ Total(Kept)' = Total(Kept) + Kept'[c] - Kept[c]
         /\ Total(Charge)' = Total(Charge) + Charge'[c] - Charge[c]
         /\ Total(Past)' = Total(Past) + Past'[c] - Past[c]
<1>1. ASSUME NEW d \in Calls, d # c
      PROVE  /\ Due'[d] = Due[d] /\ Closed'[d] = Closed[d] /\ InFlight'[d] = InFlight[d]
             /\ Kept'[d] = Kept[d] /\ Past'[d] = Past[d] /\ Charge'[d] = Charge[d]
  <2>1. /\ attempts'[d] = attempts[d] /\ step'[d] = step[d]
        /\ caller'[d] = caller[d] /\ cost'[d] = cost[d]
        /\ attempts[d] \in {"none", "running", "completed", "uncertain"}
    BY <1>1 DEF TypeOK, TableType
  <2>2. Closed'[d] = Closed[d] /\ InFlight'[d] = InFlight[d] /\ Kept'[d] = Kept[d]
    BY <2>1 DEF Closed, InFlight, Kept
  <2>3. Due'[d] = Due[d]
    BY <2>1 DEF Due
  <2>4. Past'[d] = Past[d]
    BY <2>1 DEF Past, Excess
  <2>5. Charge'[d] = Charge[d]
    BY <2>1, <2>2 DEF Charge
  <2> QED
    BY <2>2, <2>3, <2>4, <2>5
<1> QED
  BY <1>1, TokensType, TokensTypeNext, OneChanges

(* A step that no call takes leaves the sums alone. *)
LEMMA SameSums ==
  ASSUME UNCHANGED <<owner, attempts, callVars>>
  PROVE  /\ Total(Due)' = Total(Due) /\ Total(Closed)' = Total(Closed)
         /\ Total(InFlight)' = Total(InFlight) /\ Total(Kept)' = Total(Kept)
         /\ Total(Charge)' = Total(Charge) /\ Total(Past)' = Total(Past)
<1>1. /\ Due' = Due /\ Closed' = Closed /\ InFlight' = InFlight
      /\ Kept' = Kept /\ Past' = Past
  BY DEF callVars, Due, Closed, InFlight, Kept, Past, Excess
<1>2. Charge' = Charge
  BY <1>1 DEF callVars, Charge
<1> QED
  BY <1>1, <1>2

LEMMA SumsType ==
  ASSUME TypeOK
  PROVE  /\ Total(Due) \in Nat /\ Total(Closed) \in Nat /\ Total(InFlight) \in Nat
         /\ Total(Kept) \in Nat /\ Total(Charge) \in Nat /\ Total(Past) \in Nat
         /\ Total(Overrun) \in Nat
BY TokensType, TotalNat

LEMMA SumsTypeNext ==
  ASSUME TypeOK'
  PROVE  /\ Total(Due)' \in Nat /\ Total(Closed)' \in Nat /\ Total(InFlight)' \in Nat
         /\ Total(Kept)' \in Nat /\ Total(Charge)' \in Nat /\ Total(Past)' \in Nat
BY TokensTypeNext, TotalNat

LEMMA LedgersType ==
  ASSUME TypeOK
  PROVE  /\ budget.spent \in Nat /\ budget.reserved \in Int /\ budget.limit \in Nat
         /\ \A e \in Executions :
              /\ ledger[e].spent \in Nat /\ ledger[e].retrieval \in Nat
              /\ ledger[e].reserved \in Int /\ ledger[e].limit \in Nat
BY DEF TypeOK, RowType, ExecType, Ledger

(* What the memory of the execution that holds the lease covers, the row   *)
(* covers when that memory is written to it.                               *)
LEMMA RowOfMemory ==
  ASSUME TypeOK, CallsSound, NEW e \in Executions, owner = e
  PROVE  Total(Due) <= Total(Charge) /\ Total(InFlight) <= Total(Kept)
<1>1. ASSUME NEW c \in Calls
      PROVE  InFlight[c] <= Kept[c] /\ Due[c] <= Charge[c]
  <2>1. CallSound(c)
    BY DEF CallsSound
  <2>2. /\ attempts[c] \in {"none", "running", "completed", "uncertain"}
        /\ cost[c] \in Nat
        /\ step[c] \in {"new", "checked", "held", "sent", "over", "lost"}
    BY DEF TypeOK, TableType, CallType
  <2>3. attempts[c] = "running" =>
          step[c] = "lost" \/ (step[c] = "sent" /\ caller[c] = owner)
    BY <2>1, <2>2 DEF CallSound
  <2>4. Kept[c] \in Nat /\ InFlight[c] <= Kept[c]
    BY <2>3 DEF Kept, InFlight
  <2>5. Due[c] <= Charge[c]
    BY <2>2, <2>3, <2>4 DEF Due, Lesser, Charge, Kept
  <2> QED
    BY <2>4, <2>5
<1> QED
  BY <1>1, TokensType, NoMore

LEMMA RowOfMemoryNext ==
  ASSUME TypeOK', CallsSound', NEW e \in Executions, owner' = e
  PROVE  Total(Due)' <= Total(Charge)' /\ Total(InFlight)' <= Total(Kept)'
<1>1. ASSUME NEW c \in Calls
      PROVE  InFlight'[c] <= Kept'[c] /\ Due'[c] <= Charge'[c]
  <2>1. CallSound(c)'
    BY DEF CallsSound
  <2>2. /\ attempts'[c] \in {"none", "running", "completed", "uncertain"}
        /\ cost'[c] \in Nat
        /\ step'[c] \in {"new", "checked", "held", "sent", "over", "lost"}
    BY DEF TypeOK, TableType, CallType
  <2>3. attempts'[c] = "running" =>
          step'[c] = "lost" \/ (step'[c] = "sent" /\ caller'[c] = owner')
    BY <2>1, <2>2 DEF CallSound
  <2>4. Kept'[c] \in Nat /\ InFlight'[c] <= Kept'[c]
    BY <2>3 DEF Kept, InFlight
  <2>5. Due'[c] <= Charge'[c]
    BY <2>2, <2>3, <2>4 DEF Due, Lesser, Charge, Kept
  <2> QED
    BY <2>4, <2>5
<1> QED
  BY <1>1, TokensTypeNext, NoMore

LEMMA LedgerInit == Init => LedgerInv
<1> SUFFICES ASSUME Init PROVE LedgerInv
  OBVIOUS
<1>1. TypeOK
  BY TypeInit
<1>2. CallsSound
  BY DEF Init, CallsSound, CallSound
<1>3. \A c \in Calls : Due[c] = 0 /\ Closed[c] = 0 /\ InFlight[c] = 0
  BY DEF Init, Due, Closed, InFlight
<1>4. PICK z : z = [c \in Calls |-> IF c \in {} THEN 0 ELSE 0]
  OBVIOUS
<1>5. Total(z) = 0
  <2>1. Total(z) = 0 * Cardinality({})
    BY <1>4, TotalCounts
  <2>2. Cardinality({}) = 0
    BY FS_EmptySet
  <2> QED
    BY <2>1, <2>2
<1>6. Due = z /\ Closed = z /\ InFlight = z
  BY <1>3, <1>4 DEF Due, Closed, InFlight
<1>7. RowCovers
  BY <1>1, <1>5, <1>6, SumsType DEF Init, EmptyLedger, RowCovers, Covers
<1>8. MemoryCovers
  BY DEF Init, MemoryCovers
<1> QED
  BY <1>2, <1>7, <1>8 DEF LedgerInv

(* A step that only moves tokens to the retrieval counter, or none.        *)
LEMMA LedgerIdle ==
  ASSUME LedgerInv, UNCHANGED <<owner, attempts, callVars>>,
         \A e \in Executions : phase[e] \notin {"new", "refused"} =>
           phase'[e] \notin {"new", "refused"},
         /\ budget'.spent = budget.spent /\ budget'.reserved = budget.reserved
         /\ budget'.limit = budget.limit,
         \A e \in Executions : owner = e =>
           /\ ledger'[e].spent = ledger[e].spent
           /\ ledger'[e].reserved = ledger[e].reserved
           /\ ledger'[e].limit = ledger[e].limit
  PROVE  LedgerInv'
<1>1. CallsSound'
  BY DEF LedgerInv, CallsSound, CallSound, callVars
<1>2. RowCovers'
  BY SameSums DEF LedgerInv, RowCovers, Covers
<1>3. MemoryCovers'
  BY SameSums DEF LedgerInv, MemoryCovers, Covers
<1> QED
  BY <1>1, <1>2, <1>3 DEF LedgerInv

(* Writing the memory of the execution that holds the lease to the row.    *)
LEMMA LedgerWritten ==
  ASSUME TypeOK, LedgerInv, UNCHANGED <<attempts, callVars, phase, ledger>>,
         NEW e \in Executions, owner = e, owner' = e, budget' = ledger[e]
  PROVE  LedgerInv'
<1>1. CallsSound'
  BY DEF LedgerInv, CallsSound, CallSound, callVars
<1>2. RowCovers'
  <2>1. Covers(ledger[e], Charge, Kept)
    BY DEF LedgerInv, MemoryCovers
  <2>2. Total(Due) <= Total(Charge) /\ Total(InFlight) <= Total(Kept)
    BY RowOfMemory DEF LedgerInv
  <2> QED
    BY <2>1, <2>2, SameSums, SumsType, LedgersType DEF RowCovers, Covers
<1>3. MemoryCovers'
  BY SameSums DEF LedgerInv, MemoryCovers, Covers
<1> QED
  BY <1>1, <1>2, <1>3 DEF LedgerInv

(* The last write of an execution that leaves: it has no request in flight. *)
LEMMA LedgerReleased ==
  ASSUME TypeOK, LedgerInv, NEW e \in Executions, Release(e, TRUE), owner = e,
         owner' = NoOwner
  PROVE  LedgerInv'
<1>1. ASSUME NEW c \in Calls PROVE CallSound(c)'
  <2>1. CallSound(c) /\ (caller[c] = e => step[c] \notin {"checked", "held", "sent"})
    BY DEF LedgerInv, CallsSound, Release, Quiet
  <2>2. step'[c] = step[c] /\ caller'[c] = caller[c] /\ cost'[c] = cost[c]
        /\ attempts'[c] = attempts[c]
    BY DEF Release, callVars
  <2>3. step[c] # "new" => phase'[caller[c]] \notin {"new", "refused"}
    BY <2>1 DEF Release, CallSound, TypeOK, ExecType
  <2> QED
    BY <2>1, <2>2, <2>3 DEF CallSound
<1>2. RowCovers'
  <2>1. Covers(ledger[e], Charge, Kept)
    BY DEF LedgerInv, MemoryCovers
  <2>2. Total(Due) <= Total(Charge) /\ Total(InFlight) <= Total(Kept)
    BY RowOfMemory DEF LedgerInv
  <2>3. /\ Due' = Due /\ Closed' = Closed /\ InFlight' = InFlight /\ Past' = Past
    BY DEF Release, callVars, Due, Closed, InFlight, Past, Excess
  <2>4. budget' = ledger[e]
    BY DEF Release
  <2> QED
    BY <2>1, <2>2, <2>3, <2>4, SumsType, LedgersType DEF RowCovers, Covers
<1>3. MemoryCovers'
  BY DEF MemoryCovers
<1> QED
  BY <1>1, <1>2, <1>3 DEF LedgerInv, CallsSound

(* A recovery closes the requests left in flight at their reservation: the *)
(* row loses no due and exceeds its limit by the lost answers only.        *)
LEMMA LedgerRecovered ==
  ASSUME TypeOK, TypeOK', LedgerInv, NEW e \in Executions, Acquire(e)
  PROVE  LedgerInv'
<1>1. ASSUME NEW c \in Calls PROVE CallSound(c)'
  <2>1. CallSound(c)
    BY DEF LedgerInv, CallsSound
  <2>2. /\ step'[c] = step[c] /\ caller'[c] = caller[c] /\ cost'[c] = cost[c]
        /\ attempts'[c] = IF attempts[c] = "running" THEN "uncertain" ELSE attempts[c]
        /\ owner' = e
    BY DEF Acquire, callVars, Unsettled
  <2>3. step[c] # "new" => caller[c] # e /\ phase'[caller[c]] = phase[caller[c]]
    BY <2>1 DEF Acquire, CallSound, TypeOK, ExecType
  <2> QED
    BY <2>1, <2>2, <2>3 DEF CallSound
<1> DEFINE u    == [c \in Calls |-> IF c \in Unsettled THEN Reservation ELSE 0]
           lost == [c \in Calls |-> IF c \in Unsettled /\ step[c] = "lost"
                                     THEN Reservation ELSE 0]
           n    == Cardinality(Unsettled)
<1>2. Total(u) = Reservation * n /\ Tokens(u) /\ Tokens(lost)
  <2>1. Unsettled \in SUBSET Calls
    BY DEF Unsettled
  <2> QED
    BY <2>1, TotalCounts DEF Tokens
<1>3. Total(u) \in Nat /\ Total(lost) \in Nat
  BY <1>2, TotalNat
<1>4. ASSUME NEW c \in Calls
      PROVE  /\ Closed'[c] = Closed[c] + u[c] /\ Due'[c] = Closed'[c]
             /\ Charge'[c] = Closed'[c] /\ InFlight'[c] = 0 /\ Kept'[c] = 0
             /\ u[c] = InFlight[c] + lost[c] /\ Past'[c] = Past[c] + lost[c]
  <2>1. CallSound(c)
    BY DEF LedgerInv, CallsSound
  <2>2. /\ step'[c] = step[c] /\ caller'[c] = caller[c] /\ cost'[c] = cost[c]
        /\ attempts'[c] = IF attempts[c] = "running" THEN "uncertain" ELSE attempts[c]
        /\ owner' = e /\ (c \in Unsettled <=> attempts[c] = "running")
    BY DEF Acquire, callVars, Unsettled
  <2>3. /\ attempts[c] \in {"none", "running", "completed", "uncertain"}
        /\ step[c] \in {"new", "checked", "held", "sent", "over", "lost"}
        /\ cost[c] \in Nat
    BY DEF TypeOK, TableType, CallType
  <2>4. step[c] # "new" => caller[c] # e
    BY <2>1 DEF Acquire, CallSound
  <2>5. Closed'[c] = Closed[c] + u[c]
    BY <2>2, <2>3 DEF Closed
  <2>6. Due'[c] = Closed'[c] /\ InFlight'[c] = 0
    BY <2>2, <2>3 DEF Due, Closed, InFlight
  <2>7. Kept'[c] = 0
    BY <2>2, <2>4 DEF Kept
  <2>8. Charge'[c] = Closed'[c]
    BY <2>2, <2>3, <2>7 DEF Charge, Closed
  <2>9. u[c] = InFlight[c] + lost[c]
    <3>1. attempts[c] = "running" => step[c] \in {"sent", "lost"}
      BY <2>1, <2>3 DEF CallSound
    <3> QED
      BY <2>2, <3>1 DEF InFlight
  <2>10. Past'[c] = Past[c] + lost[c]
    <3>1. Excess(c)' = Excess(c) /\ Excess(c) \in Nat
      BY <2>2, <2>3 DEF Excess
    <3> QED
      BY <2>2, <2>3, <3>1 DEF Past
  <2> QED
    BY <2>5, <2>6, <2>7, <2>8, <2>9, <2>10
<1> HIDE DEF u, lost, n
<1>5. /\ Total(Closed)' = Total(Closed) + Total(u)
      /\ Total(u) = Total(InFlight) + Total(lost)
      /\ Total(Past)' = Total(Past) + Total(lost)
  <2>1. \A f, g : Tokens(f) /\ Tokens(g) => f \in [Calls -> Int] /\ g \in [Calls -> Int]
    BY DEF Tokens
  <2> QED
    BY <1>2, <1>4, <2>1, TokensType, TokensTypeNext, TotalAdds
<1>6. /\ Total(Due)' <= Total(Closed)' /\ Total(Charge)' <= Total(Closed)'
      /\ Total(InFlight)' = 0 /\ Total(Kept)' = 0
  <2>1. \A c \in Calls : Due'[c] <= Closed'[c] /\ Charge'[c] <= Closed'[c]
    <3>1. \A c \in Calls : Closed'[c] \in Nat
      BY TokensTypeNext DEF Tokens
    <3> QED
      BY <1>4, <3>1
  <2>2. PICK z : z = [c \in Calls |-> IF c \in {} THEN 0 ELSE 0]
    OBVIOUS
  <2>3. Total(z) = 0
    <3>1. Total(z) = 0 * Cardinality({})
      BY <2>2, TotalCounts
    <3> QED
      BY <3>1, FS_EmptySet
  <2>4. InFlight' = z /\ Kept' = z
    <3>1. InFlight' \in [Calls -> Nat] /\ Kept' \in [Calls -> Nat]
      BY TokensTypeNext DEF Tokens
    <3> QED
      BY <1>4, <2>2, <3>1
  <2> QED
    BY <2>1, <2>3, <2>4, TokensTypeNext, NoMore
<1>7. /\ budget'.spent = budget.spent + Total(u)
      /\ budget'.limit = budget.limit
      /\ budget'.reserved = IF budget.reserved - Total(u) > 0
                            THEN budget.reserved - Total(u) ELSE 0
  <2>1. budget' = RecoveredBudget
    BY DEF Acquire
  <2>2. Unsettled = {} => n = 0
    BY FS_EmptySet DEF n
  <2>3. budget.reserved >= 0 /\ budget.reserved \in Int
    BY SumsType, LedgersType DEF LedgerInv, RowCovers, Covers
  <2>4. CASE Unsettled = {}
    <3>1. Total(u) = 0
      BY <1>2, <2>2, <2>4
    <3> QED
      BY <1>2, <2>1, <2>3, <2>4, <3>1 DEF RecoveredBudget, n
  <2>5. CASE Unsettled # {}
    BY <1>2, <2>1, <2>5 DEF RecoveredBudget, n
  <2> QED
    BY <2>4, <2>5
<1>8. Covers(budget, Due, InFlight)
  BY DEF LedgerInv, RowCovers
<1>9. RowCovers' /\ Covers(budget, Charge, Kept)'
  BY <1>3, <1>5, <1>6, <1>7, <1>8, SumsType, SumsTypeNext, LedgersType
     DEF RowCovers, Covers
<1>10. MemoryCovers'
  <2>1. owner' = e /\ ledger'[e] = budget'
    BY DEF Acquire, TypeOK, ExecType
  <2> QED
    BY <1>9, <2>1 DEF MemoryCovers, Covers
<1> QED
  BY <1>1, <1>9, <1>10 DEF LedgerInv, CallsSound

(* What a step of one call needs not touch: the record of the other calls, *)
(* the lease and the phases, but for the execution that is told to end.    *)
OnlyCall(c) ==
  /\ owner' = owner
  /\ \A d \in Calls : d # c =>
       /\ attempts'[d] = attempts[d] /\ step'[d] = step[d]
       /\ caller'[d] = caller[d] /\ cost'[d] = cost[d]
  /\ \A e \in Executions :
       phase[e] \notin {"new", "refused"} => phase'[e] \notin {"new", "refused"}

LEMMA OtherCalls ==
  ASSUME CallsSound, NEW c \in Calls, OnlyCall(c), CallSound(c)'
  PROVE  CallsSound'
<1>1. ASSUME NEW d \in Calls, d # c PROVE CallSound(d)'
  BY <1>1 DEF OnlyCall, CallsSound, CallSound
<1> QED
  BY <1>1 DEF CallsSound

(* Nothing was reserved yet: the thread of a call checks the execution.    *)
LEMMA LedgerStarted ==
  ASSUME TypeOK, TypeOK', LedgerInv, NEW e \in Executions, NEW c \in Calls,
         StartCall(e, c)
  PROVE  LedgerInv'
<1>1. /\ step[c] = "new" /\ step'[c] = "checked" /\ caller'[c] = e
      /\ attempts'[c] = attempts[c] /\ cost'[c] = cost[c] /\ cost[c] \in Nat
      /\ CallSound(c) /\ budget' = budget /\ ledger' = ledger
      /\ phase'[e] = "active"
  BY DEF StartCall, rowVars, execVars, CheckExecution, LedgerInv, CallsSound,
         TypeOK, CallType
<1>2. OnlyCall(c)
  BY DEF OnlyCall, StartCall, rowVars, execVars, TypeOK, CallType
<1>3. CallSound(c)'
  BY <1>1 DEF CallSound
<1>4. /\ Due'[c] = Due[c] /\ Closed'[c] = Closed[c] /\ InFlight'[c] = InFlight[c]
      /\ Kept'[c] = Kept[c] /\ Past'[c] = Past[c] /\ Charge'[c] = Charge[c]
  <2>1. attempts[c] = "none"
    BY <1>1 DEF CallSound
  <2>2. /\ Due'[c] = Due[c] /\ Closed'[c] = Closed[c] /\ InFlight'[c] = InFlight[c]
        /\ Kept'[c] = Kept[c]
    BY <1>1, <2>1 DEF Due, Closed, InFlight, Kept
  <2>3. Past'[c] = Past[c]
    BY <1>1 DEF Past, Excess
  <2> QED
    BY <1>1, <2>1, <2>2, <2>3 DEF Charge
<1>5. /\ Total(Due)' = Total(Due) /\ Total(Closed)' = Total(Closed)
      /\ Total(InFlight)' = Total(InFlight) /\ Total(Kept)' = Total(Kept)
      /\ Total(Charge)' = Total(Charge) /\ Total(Past)' = Total(Past)
  <2>1. \A f : Tokens(f) => f[c] \in Nat
    BY DEF Tokens
  <2> QED
    BY <1>2, <1>4, <2>1, OneCall, SumsType, TokensType DEF OnlyCall
<1> QED
  BY <1>1, <1>2, <1>3, <1>5, OtherCalls
     DEF LedgerInv, RowCovers, MemoryCovers, Covers, OnlyCall

(* A reservation in memory that fits is kept; one that does not tells the  *)
(* execution to end.                                                       *)
LEMMA LedgerReserved ==
  ASSUME TypeOK, TypeOK', LedgerInv, NEW e \in Executions, NEW c \in Calls,
         ReserveMemory(e, c)
  PROVE  LedgerInv'
<1>1. /\ step[c] = "checked" /\ step'[c] \in {"held", "over"}
      /\ caller[c] = e /\ caller'[c] = e
      /\ attempts'[c] = attempts[c] /\ cost'[c] = cost[c] /\ cost[c] \in Nat
      /\ CallSound(c) /\ budget' = budget /\ owner' = owner
      /\ step'[c] = "held" => /\ Fits(ledger[e])
                              /\ ledger'[e].spent = ledger[e].spent
                              /\ ledger'[e].reserved = ledger[e].reserved + Reservation
                              /\ ledger'[e].limit = ledger[e].limit
      /\ step'[c] = "over" => ledger' = ledger
      /\ \A o \in Executions : o # e => ledger'[o] = ledger[o]
  BY DEF ReserveMemory, rowVars, LedgerInv, CallsSound, TypeOK, CallType, ExecType,
         Ledger
<1>2. OnlyCall(c)
  BY DEF OnlyCall, ReserveMemory, rowVars, TypeOK, CallType, ExecType
<1>3. CallSound(c)'
  BY <1>1, <1>2 DEF CallSound, OnlyCall
<1>4. attempts[c] = "none"
  BY <1>1 DEF CallSound
<1>5. /\ Due'[c] = Due[c] /\ Closed'[c] = Closed[c] /\ InFlight'[c] = InFlight[c]
      /\ Past'[c] = Past[c] /\ Kept[c] = 0 /\ Charge[c] = 0
      /\ Kept'[c] = (IF owner = e /\ step'[c] = "held" THEN Reservation ELSE 0)
      /\ Charge'[c] = Kept'[c]
  <2>1. /\ Due'[c] = Due[c] /\ Closed'[c] = Closed[c] /\ InFlight'[c] = InFlight[c]
        /\ Kept[c] = 0
        /\ Kept'[c] = (IF owner = e /\ step'[c] = "held" THEN Reservation ELSE 0)
    BY <1>1, <1>4 DEF Due, Closed, InFlight, Kept
  <2>2. Past'[c] = Past[c]
    BY <1>1, <1>4 DEF Past, Excess
  <2>3. Charge[c] = Kept[c] /\ Charge'[c] = Kept'[c]
    BY <1>1, <1>4 DEF Charge
  <2> QED
    BY <2>1, <2>2, <2>3
<1>6. /\ Total(Due)' = Total(Due) /\ Total(Closed)' = Total(Closed)
      /\ Total(InFlight)' = Total(InFlight) /\ Total(Past)' = Total(Past)
      /\ Total(Kept)' = Total(Kept) + Kept'[c]
      /\ Total(Charge)' = Total(Charge) + Kept'[c]
  <2>1. \A f : Tokens(f) => f[c] \in Nat
    BY DEF Tokens
  <2> QED
    BY <1>2, <1>5, <2>1, OneCall, SumsType, TokensType, TokensTypeNext DEF OnlyCall
<1>7. RowCovers'
  BY <1>1, <1>6 DEF LedgerInv, RowCovers, Covers
<1>8. ASSUME NEW o \in Executions, owner' = o
      PROVE  Covers(ledger[o], Charge, Kept)'
  <2>1. Covers(ledger[o], Charge, Kept)
    BY <1>1, <1>8 DEF LedgerInv, MemoryCovers
  <2>2. CASE o = e /\ step'[c] = "held"
    <3>1. ledger[e].spent + ledger[e].reserved + Reservation <= ledger[e].limit
      BY <1>1, <2>2, LedgersType DEF Fits, Used
    <3>2. Kept'[c] = Reservation
      BY <1>1, <1>5, <1>8, <2>2
    <3> QED
      BY <1>1, <1>6, <2>1, <2>2, <3>1, <3>2, LedgersType, SumsType DEF Covers
  <2>3. CASE ~(o = e /\ step'[c] = "held")
    <3>1. Kept'[c] = 0 /\ ledger'[o] = ledger[o]
      BY <1>1, <1>5, <1>8, <2>3
    <3> QED
      BY <1>6, <2>1, <3>1, SumsType DEF Covers
  <2> QED
    BY <2>2, <2>3
<1> QED
  BY <1>2, <1>3, <1>7, <1>8, OtherCalls DEF LedgerInv, MemoryCovers

(* The request is recorded before it is sent: the row takes the memory,    *)
(* which has the reservation already.                                      *)
LEMMA LedgerSent ==
  ASSUME TypeOK, TypeOK', LedgerInv, NEW e \in Executions, NEW c \in Calls,
         ReserveAttempt(e, c)
  PROVE  LedgerInv'
<1>1. /\ step[c] = "held" /\ step'[c] = "sent" /\ caller[c] = e /\ caller'[c] = e
      /\ attempts'[c] = "running" /\ cost'[c] = cost[c] /\ cost[c] = 0
      /\ CallSound(c) /\ attempts[c] = "none" /\ budget' = ledger[e]
      /\ ledger' = ledger /\ phase' = phase /\ owner = e /\ owner' = e
  <2>1. /\ step[c] = "held" /\ caller[c] = e /\ caller' = caller /\ cost' = cost
        /\ attempts' = [attempts EXCEPT ![c] = "running"]
        /\ step' = [step EXCEPT ![c] = "sent"]
        /\ budget' = ledger[e] /\ ledger' = ledger /\ phase' = phase
        /\ owner = e /\ owner' = owner
    BY DEF ReserveAttempt, LiveOwner, execVars
  <2>2. CallSound(c)
    BY DEF LedgerInv, CallsSound
  <2>3. attempts'[c] = "running" /\ step'[c] = "sent"
    BY <2>1 DEF TypeOK, TableType, CallType
  <2>4. cost[c] = 0 /\ attempts[c] = "none"
    BY <2>1, <2>2 DEF CallSound
  <2> QED
    BY <2>1, <2>2, <2>3, <2>4
<1>2. OnlyCall(c)
  BY <1>1 DEF OnlyCall, ReserveAttempt, TypeOK, TableType, CallType
<1>3. CallSound(c)'
  BY <1>1 DEF CallSound
<1>4. /\ Closed'[c] = Closed[c] /\ Past'[c] = Past[c] /\ Kept'[c] = Kept[c]
      /\ Charge'[c] = Charge[c]
  <2>1. Closed'[c] = Closed[c] /\ Kept'[c] = Kept[c]
    BY <1>1 DEF Closed, Kept
  <2>2. Past'[c] = Past[c]
    BY <1>1 DEF Past, Excess
  <2> QED
    BY <1>1, <2>1, <2>2 DEF Charge
<1>5. /\ Total(Closed)' = Total(Closed) /\ Total(Past)' = Total(Past)
      /\ Total(Kept)' = Total(Kept) /\ Total(Charge)' = Total(Charge)
  <2>1. \A f : Tokens(f) => f[c] \in Nat
    BY DEF Tokens
  <2> QED
    BY <1>2, <1>4, <2>1, OneCall, SumsType, TokensType DEF OnlyCall
<1>6. CallsSound'
  BY <1>2, <1>3, OtherCalls DEF LedgerInv
<1>7. MemoryCovers'
  BY <1>1, <1>5 DEF LedgerInv, MemoryCovers, Covers
<1>8. RowCovers'
  <2>1. Covers(ledger[e], Charge, Kept)'
    BY <1>1, <1>7 DEF MemoryCovers
  <2>2. Total(Due)' <= Total(Charge)' /\ Total(InFlight)' <= Total(Kept)'
    BY <1>1, <1>6, RowOfMemoryNext
  <2> QED
    BY <1>1, <2>1, <2>2, SumsTypeNext, LedgersType DEF RowCovers, Covers
<1> QED
  BY <1>6, <1>7, <1>8 DEF LedgerInv

(* Nothing was sent: the reservation goes back to the memory.              *)
LEMMA LedgerRefunded ==
  ASSUME TypeOK, TypeOK', LedgerInv, NEW e \in Executions, NEW c \in Calls,
         Refund(e, c)
  PROVE  LedgerInv'
<1>1. /\ step[c] = "held" /\ step'[c] = "over" /\ caller[c] = e /\ caller'[c] = e
      /\ attempts'[c] = attempts[c] /\ cost'[c] = cost[c] /\ cost[c] = 0
      /\ CallSound(c) /\ attempts[c] = "none" /\ budget' = budget
      /\ phase' = phase /\ owner' = owner
      /\ ledger'[e].spent = ledger[e].spent
      /\ ledger'[e].reserved = ledger[e].reserved - Reservation
      /\ ledger'[e].limit = ledger[e].limit
      /\ \A o \in Executions : o # e => ledger'[o] = ledger[o]
  BY DEF Refund, rowVars, LedgerInv, CallsSound, CallSound, TypeOK, CallType, ExecType,
         Ledger
<1>2. OnlyCall(c)
  BY <1>1 DEF OnlyCall, Refund, TypeOK, CallType
<1>3. CallSound(c)'
  BY <1>1 DEF CallSound
<1>4. /\ Due'[c] = Due[c] /\ Closed'[c] = Closed[c] /\ InFlight'[c] = InFlight[c]
      /\ Past'[c] = Past[c] /\ Kept'[c] = 0 /\ Charge'[c] = 0
      /\ Kept[c] = (IF owner = e THEN Reservation ELSE 0) /\ Charge[c] = Kept[c]
  <2>1. /\ Due'[c] = Due[c] /\ Closed'[c] = Closed[c] /\ InFlight'[c] = InFlight[c]
        /\ Kept'[c] = 0 /\ Kept[c] = (IF owner = e THEN Reservation ELSE 0)
    BY <1>1 DEF Due, Closed, InFlight, Kept
  <2>2. Past'[c] = Past[c]
    BY <1>1 DEF Past, Excess
  <2>3. Charge[c] = Kept[c] /\ Charge'[c] = Kept'[c]
    BY <1>1 DEF Charge
  <2> QED
    BY <2>1, <2>2, <2>3
<1>5. /\ Total(Due)' = Total(Due) /\ Total(Closed)' = Total(Closed)
      /\ Total(InFlight)' = Total(InFlight) /\ Total(Past)' = Total(Past)
      /\ Total(Kept)' = Total(Kept) - Kept[c]
      /\ Total(Charge)' = Total(Charge) - Kept[c]
  <2>1. \A f : Tokens(f) => f[c] \in Nat
    BY DEF Tokens
  <2> QED
    BY <1>2, <1>4, <2>1, OneCall, SumsType, TokensType, TokensTypeNext DEF OnlyCall
<1>6. RowCovers'
  BY <1>1, <1>5 DEF LedgerInv, RowCovers, Covers
<1>7. ASSUME NEW o \in Executions, owner' = o
      PROVE  Covers(ledger[o], Charge, Kept)'
  <2>1. Covers(ledger[o], Charge, Kept)
    BY <1>1, <1>7 DEF LedgerInv, MemoryCovers
  <2>2. CASE o = e
    <3>1. Kept[c] = Reservation
      BY <1>1, <1>4, <1>7, <2>2
    <3> QED
      BY <1>1, <1>5, <2>1, <2>2, <3>1, LedgersType, SumsType DEF Covers
  <2>3. CASE o # e
    <3>1. Kept[c] = 0 /\ ledger'[o] = ledger[o]
      BY <1>1, <1>4, <1>7, <2>3
    <3> QED
      BY <1>5, <2>1, <3>1, SumsType DEF Covers
  <2> QED
    BY <2>2, <2>3
<1> QED
  BY <1>2, <1>3, <1>6, <1>7, OtherCalls DEF LedgerInv, MemoryCovers

(* What an answer changes of its call, whoever holds the lease.            *)
LEMMA AnswerFacts ==
  ASSUME TypeOK, LedgerInv, NEW e \in Executions, NEW c \in Calls, NEW amount \in Nat,
         NEW result \in {"completed", "uncertain"},
         result = "uncertain" => amount = Reservation, Settle(e, c, amount, result)
  PROVE  /\ step[c] = "sent" /\ caller[c] = e /\ caller'[c] = e
         /\ cost[c] = 0 /\ cost'[c] = amount /\ CallSound(c) /\ OnlyCall(c)
         /\ owner' = owner /\ phase' = phase
         /\ ledger'[e] = Charged(ledger[e], amount)
         /\ \A o \in Executions : o # e => ledger'[o] = ledger[o]
         /\ IF owner = e
            THEN /\ attempts[c] = "running"
                 /\ \/ /\ step'[c] = "over" /\ attempts'[c] = result
                       /\ budget' = ledger'[e]
                    \/ /\ step'[c] = "lost" /\ attempts'[c] = "running"
                       /\ budget' = budget
            ELSE /\ attempts[c] = "uncertain" /\ attempts'[c] = "uncertain"
                 /\ step'[c] = "over" /\ budget' = budget
<1>1. CallSound(c)
  BY DEF LedgerInv, CallsSound
<1>2. /\ step[c] = "sent" /\ caller[c] = e /\ caller' = caller
      /\ owner' = owner /\ phase' = phase
      /\ ledger' = [ledger EXCEPT ![e] = Charged(ledger[e], amount)]
      /\ cost' = [cost EXCEPT ![c] = amount]
  BY DEF Settle
<1>3. /\ attempts \in [Calls -> {"none", "running", "completed", "uncertain"}]
      /\ step \in [Calls -> {"new", "checked", "held", "sent", "over", "lost"}]
      /\ cost \in [Calls -> Nat] /\ ledger \in [Executions -> Ledger]
  BY DEF TypeOK, TableType, CallType, ExecType
<1>4. /\ cost[c] = 0 /\ cost'[c] = amount /\ caller'[c] = e
      /\ ledger'[e] = Charged(ledger[e], amount)
      /\ \A o \in Executions : o # e => ledger'[o] = ledger[o]
      /\ attempts[c] = IF owner = e THEN "running" ELSE "uncertain"
  BY <1>1, <1>2, <1>3 DEF CallSound
<1>5. \/ /\ owner = e
         /\ attempts' = [attempts EXCEPT ![c] = result]
         /\ budget' = Charged(ledger[e], amount)
         /\ step' = [step EXCEPT ![c] = "over"]
      \/ /\ owner # e
         /\ step' = [step EXCEPT ![c] = "over"]
         /\ attempts' = attempts /\ budget' = budget
      \/ /\ owner = e
         /\ step' = [step EXCEPT ![c] = "lost"]
         /\ attempts' = attempts /\ budget' = budget
  BY <1>4 DEF Settle, MaySettle
<1>6. OnlyCall(c)
  BY <1>2, <1>3, <1>5 DEF OnlyCall
<1> QED
  BY <1>1, <1>2, <1>3, <1>4, <1>5, <1>6

(* A late answer, of an execution that lost the lease, is charged to the   *)
(* memory of that execution only.                                          *)
LEMMA LedgerLate ==
  ASSUME TypeOK, TypeOK', LedgerInv, NEW e \in Executions, NEW c \in Calls,
         NEW amount \in Nat, NEW result \in {"completed", "uncertain"},
         result = "uncertain" => amount = Reservation, Settle(e, c, amount, result),
         owner # e
  PROVE  LedgerInv'
<1>1. /\ step[c] = "sent" /\ caller[c] = e /\ caller'[c] = e
      /\ cost[c] = 0 /\ cost'[c] = amount /\ CallSound(c) /\ OnlyCall(c)
      /\ owner' = owner /\ phase' = phase
      /\ \A o \in Executions : o # e => ledger'[o] = ledger[o]
      /\ attempts[c] = "uncertain" /\ attempts'[c] = "uncertain"
      /\ step'[c] = "over" /\ budget' = budget
  BY AnswerFacts
<1>2. CallSound(c)'
  BY <1>1 DEF CallSound
<1>3. /\ Due'[c] = Due[c] /\ Closed'[c] = Closed[c] /\ InFlight'[c] = InFlight[c]
      /\ Kept'[c] = Kept[c] /\ Charge'[c] = Charge[c] /\ Past[c] = 0
  BY <1>1 DEF Due, Closed, InFlight, Kept, Charge, Past, Excess
<1>4. /\ Total(Due)' = Total(Due) /\ Total(Closed)' = Total(Closed)
      /\ Total(InFlight)' = Total(InFlight) /\ Total(Kept)' = Total(Kept)
      /\ Total(Charge)' = Total(Charge) /\ Total(Past)' >= Total(Past)
  <2>1. \A f : Tokens(f) => f[c] \in Nat
    BY DEF Tokens
  <2> QED
    BY <1>1, <1>3, <2>1, OneCall, SumsType, TokensType, TokensTypeNext DEF OnlyCall
<1>5. RowCovers'
  BY <1>1, <1>4, SumsType, SumsTypeNext, LedgersType DEF LedgerInv, RowCovers, Covers
<1>6. ASSUME NEW o \in Executions, owner' = o
      PROVE  Covers(ledger[o], Charge, Kept)'
  <2>1. Covers(ledger[o], Charge, Kept) /\ ledger'[o] = ledger[o]
    BY <1>1, <1>6 DEF LedgerInv, MemoryCovers
  <2> QED
    BY <1>4, <2>1, SumsType, SumsTypeNext, LedgersType DEF Covers
<1> QED
  BY <1>1, <1>2, <1>5, <1>6, OtherCalls DEF LedgerInv, MemoryCovers

(* An answer to the execution that holds the lease is charged to its       *)
(* memory; what is above the reservation is an overrun.                    *)
LEMMA LedgerAnswered ==
  ASSUME TypeOK, TypeOK', LedgerInv, NEW e \in Executions, NEW c \in Calls,
         NEW amount \in Nat, NEW result \in {"completed", "uncertain"},
         result = "uncertain" => amount = Reservation, Settle(e, c, amount, result),
         owner = e
  PROVE  LedgerInv'
<1>1. /\ step[c] = "sent" /\ caller[c] = e /\ caller'[c] = e
      /\ cost[c] = 0 /\ cost'[c] = amount /\ CallSound(c) /\ OnlyCall(c)
      /\ owner' = owner /\ phase' = phase /\ attempts[c] = "running"
      /\ ledger'[e] = Charged(ledger[e], amount)
      /\ \/ /\ step'[c] = "over" /\ attempts'[c] = result /\ budget' = ledger'[e]
         \/ /\ step'[c] = "lost" /\ attempts'[c] = "running" /\ budget' = budget
  BY AnswerFacts
<1> DEFINE over == IF amount > Reservation THEN amount - Reservation ELSE 0
           closed == IF step'[c] = "over" THEN amount ELSE 0
<1>2. CallSound(c)'
  BY <1>1 DEF CallSound
<1>3. CallsSound'
  BY <1>1, <1>2, OtherCalls DEF LedgerInv
<1>4. /\ Closed[c] = 0 /\ Closed'[c] = closed /\ Kept[c] = Reservation /\ Kept'[c] = 0
      /\ Charge[c] = Reservation /\ Charge'[c] = amount
      /\ Past[c] = 0 /\ Past'[c] = over
  <2>1. Closed[c] = 0 /\ Closed'[c] = closed
    BY <1>1 DEF Closed
  <2>2. Kept[c] = Reservation /\ Kept'[c] = 0
    BY <1>1 DEF Kept
  <2>3. Charge[c] = Reservation /\ Charge'[c] = amount
    BY <1>1, <2>2 DEF Charge
  <2>4. Past[c] = 0 /\ Past'[c] = over
    BY <1>1 DEF Past, Excess
  <2> QED
    BY <2>1, <2>2, <2>3, <2>4
<1>5. /\ Total(Closed)' = Total(Closed) + closed
      /\ Total(Kept)' = Total(Kept) - Reservation
      /\ Total(Charge)' = Total(Charge) + amount - Reservation
      /\ Total(Past)' = Total(Past) + over
  <2>1. closed \in Nat /\ over \in Nat
    OBVIOUS
  <2> HIDE DEF closed, over
  <2> QED
    BY <1>1, <1>4, <2>1, OneCall, SumsType DEF OnlyCall
<1>6. /\ closed <= amount /\ closed \in Nat /\ amount - Reservation <= over
      /\ over \in Nat
  OBVIOUS
<1> HIDE DEF closed, over
<1>7. ASSUME NEW o \in Executions, owner' = o
      PROVE  Covers(ledger[o], Charge, Kept)'
  <2>1. o = e
    BY <1>1, <1>7
  <2>2. Covers(ledger[e], Charge, Kept)
    BY DEF LedgerInv, MemoryCovers
  <2>3. /\ ledger'[e].spent = ledger[e].spent + amount
        /\ ledger'[e].reserved = ledger[e].reserved - Reservation
        /\ ledger'[e].limit = ledger[e].limit
    BY <1>1 DEF Charged
  <2> QED
    BY <1>5, <1>6, <2>1, <2>2, <2>3, SumsType, LedgersType DEF Covers
<1>8. MemoryCovers'
  BY <1>7 DEF MemoryCovers
<1>9. CASE step'[c] = "over"
  <2>1. Covers(ledger[e], Charge, Kept)' /\ budget' = ledger'[e] /\ owner' = e
    BY <1>1, <1>7, <1>9
  <2>2. Total(Due)' <= Total(Charge)' /\ Total(InFlight)' <= Total(Kept)'
    BY <1>3, <2>1, RowOfMemoryNext
  <2>3. /\ ledger'[e].spent \in Nat /\ ledger'[e].reserved \in Int
    BY DEF TypeOK, ExecType, Ledger
  <2>4. RowCovers'
    BY <2>1, <2>2, <2>3, SumsTypeNext DEF RowCovers, Covers
  <2> QED
    BY <1>3, <1>8, <2>4 DEF LedgerInv
<1>10. CASE step'[c] = "lost"
  <2>1. attempts'[c] = "running" /\ budget' = budget /\ closed = 0
    BY <1>1, <1>10 DEF closed
  <2>2. /\ Due[c] = Reservation /\ Due'[c] <= Reservation /\ Due'[c] \in Nat
        /\ InFlight[c] = Reservation /\ InFlight'[c] = 0
    <3>1. InFlight[c] = Reservation /\ InFlight'[c] = 0
      BY <1>1, <1>10 DEF InFlight
    <3>2. Due[c] = Reservation
      BY <1>1 DEF Due
    <3>3. Due'[c] = Lesser(amount, Reservation)
      BY <1>1, <1>10, <2>1 DEF Due, Lesser
    <3> QED
      BY <3>1, <3>2, <3>3 DEF Lesser
  <2>3. /\ Total(Due)' <= Total(Due) /\ Total(InFlight)' <= Total(InFlight)
    BY <1>1, <2>2, OneCall, SumsType DEF OnlyCall
  <2>4. RowCovers'
    BY <1>5, <1>6, <2>1, <2>3, SumsType, SumsTypeNext, LedgersType
       DEF LedgerInv, RowCovers, Covers
  <2> QED
    BY <1>3, <1>8, <2>4 DEF LedgerInv
<1> QED
  BY <1>1, <1>9, <1>10

(* The steps of the worker thread, of the heartbeat and of the process. *)
LEMMA LedgerExecution ==
  ASSUME TypeOK, TypeOK', LedgerInv, NEW e \in Executions, ExecutionStep(e)
  PROVE  LedgerInv'
<1> USE DEF rowVars, taskVars, execVars
<1>1. CASE Acquire(e)
  BY <1>1, LedgerRecovered
<1>2. CASE AcquireRefused(e)
  <2>1. \A o \in Executions : phase[o] \notin {"new", "refused"} =>
                               phase'[o] \notin {"new", "refused"}
    BY <1>2 DEF AcquireRefused, TypeOK, ExecType
  <2> QED
    BY <1>2, <2>1, LedgerIdle DEF AcquireRefused
<1>3. CASE Renew(e)
  BY <1>3, LedgerIdle DEF Renew
<1>4. ASSUME NEW k \in Tasks, BeginTask(e, k) PROVE LedgerInv'
  BY <1>4, LedgerWritten DEF BeginTask, LiveOwner
<1>5. CASE CompleteTask(e)
  BY <1>5, LedgerWritten DEF CompleteTask, CommitCheckpoint, SnapshotCAS
<1>6. CASE Snapshot(e)
  BY <1>6, LedgerWritten DEF Snapshot, CommitCheckpoint, SnapshotCAS
<1>7. ASSUME NEW stored \in BOOLEAN, FailTask(e, stored) PROVE LedgerInv'
  <2>1. CASE owner = e /\ budget' = ledger[e]
    BY <1>7, <2>1, LedgerWritten DEF FailTask
  <2>2. CASE budget' = budget
    BY <1>7, <2>2, LedgerIdle DEF FailTask
  <2> QED
    BY <1>7, <2>1, <2>2 DEF FailTask
<1>8. CASE PersistBudget(e)
  BY <1>8, LedgerWritten DEF PersistBudget, LiveOwner
<1>9. ASSUME NEW amount \in Usages, RecordUsage(e, amount) PROVE LedgerInv'
  <2>1. \A o \in Executions :
          /\ ledger'[o].spent = ledger[o].spent
          /\ ledger'[o].reserved = ledger[o].reserved
          /\ ledger'[o].limit = ledger[o].limit
    BY <1>9 DEF RecordUsage, TypeOK, ExecType, Ledger
  <2>2. CASE budget' = budget
    BY <1>9, <2>1, <2>2, LedgerIdle DEF RecordUsage
  <2>3. CASE LiveOwner(e) /\ budget' = [ledger[e] EXCEPT !.retrieval = @ + amount]
    <3>1. CallsSound'
      BY <1>9 DEF RecordUsage, LedgerInv, CallsSound, CallSound, callVars
    <3>2. UNCHANGED <<owner, attempts, callVars>> /\ owner = e
      BY <1>9, <2>3 DEF RecordUsage, LiveOwner
    <3>3. MemoryCovers'
      BY <2>1, <3>2, SameSums DEF LedgerInv, MemoryCovers, Covers
    <3>4. /\ budget'.spent = ledger[e].spent /\ budget'.reserved = ledger[e].reserved
          /\ budget'.limit = ledger[e].limit
      BY <2>3 DEF TypeOK, ExecType, Ledger
    <3>5. Covers(ledger[e], Charge, Kept)
      BY <3>2 DEF LedgerInv, MemoryCovers
    <3>6. Total(Due) <= Total(Charge) /\ Total(InFlight) <= Total(Kept)
      BY <3>2, RowOfMemory DEF LedgerInv
    <3>7. RowCovers'
      BY <3>2, <3>4, <3>5, <3>6, SameSums, SumsType, LedgersType DEF RowCovers, Covers
    <3> QED
      BY <3>1, <3>3, <3>7 DEF LedgerInv
  <2> QED
    BY <1>9, <2>2, <2>3 DEF RecordUsage
<1>10. CASE RunOut(e)
  <2>1. \A o \in Executions : phase[o] \notin {"new", "refused"} =>
                               phase'[o] \notin {"new", "refused"}
    BY <1>10 DEF RunOut, TypeOK, ExecType
  <2> QED
    BY <1>10, <2>1, LedgerIdle DEF RunOut
<1>11. ASSUME NEW status \in {"result", "stop"}, Publish(e, status) PROVE LedgerInv'
  BY <1>11, LedgerIdle DEF Publish
<1>12. ASSUME NEW stored \in BOOLEAN, Release(e, stored) PROVE LedgerInv'
  <2>1. \A o \in Executions : phase[o] \notin {"new", "refused"} =>
                               phase'[o] \notin {"new", "refused"}
    BY <1>12 DEF Release, TypeOK, ExecType
  <2>2. CASE stored /\ owner = e
    <3>1. Release(e, TRUE) /\ owner' = NoOwner
      BY <1>12, <2>2 DEF Release
    <3> QED
      BY <2>2, <3>1, LedgerReleased
  <2>3. CASE ~(stored /\ owner = e)
    BY <1>12, <2>1, <2>3, LedgerIdle DEF Release
  <2> QED
    BY <2>2, <2>3
<1>13. CASE Crash(e)
  <2>1. \A o \in Executions : phase[o] \notin {"new", "refused"} =>
                               phase'[o] \notin {"new", "refused"}
    BY <1>13 DEF Crash, TypeOK, ExecType
  <2> QED
    BY <1>13, <2>1, LedgerIdle DEF Crash
<1> QED
  BY <1>1, <1>2, <1>3, <1>4, <1>5, <1>6, <1>7, <1>8, <1>9, <1>10, <1>11, <1>12, <1>13
     DEF ExecutionStep

LEMMA LedgerCall ==
  ASSUME TypeOK, TypeOK', LedgerInv, NEW e \in Executions, NEW c \in Calls,
         CallStep(e, c)
  PROVE  LedgerInv'
<1>1. CASE StartCall(e, c)
  BY <1>1, LedgerStarted
<1>2. CASE ReserveMemory(e, c)
  BY <1>2, LedgerReserved
<1>3. CASE ReserveAttempt(e, c)
  BY <1>3, LedgerSent
<1>4. CASE Refund(e, c)
  BY <1>4, LedgerRefunded
<1>5. CASE Answered(e, c)
  <2>1. PICK amount \in Costs : Settle(e, c, amount, "completed")
    BY <1>5 DEF Answered
  <2>2. amount \in Nat
    OBVIOUS
  <2> QED
    BY <2>1, <2>2, LedgerLate, LedgerAnswered
<1>6. CASE Unanswered(e, c)
  <2>1. Settle(e, c, Reservation, "uncertain") /\ Reservation \in Nat
    BY <1>6 DEF Unanswered
  <2> QED
    BY <2>1, LedgerLate, LedgerAnswered
<1> QED
  BY <1>1, <1>2, <1>3, <1>4, <1>5, <1>6 DEF CallStep

LEMMA LedgerStep == TypeOK /\ LedgerInv /\ [Next]_vars => LedgerInv'
<1> SUFFICES ASSUME TypeOK, LedgerInv, [Next]_vars PROVE LedgerInv'
  OBVIOUS
<1>0. TypeOK'
  BY TypeStep
<1>1. CASE Tick
  BY <1>1, LedgerIdle DEF Tick, execVars
<1>2. ASSUME NEW e \in Executions, ExecutionStep(e) PROVE LedgerInv'
  BY <1>0, <1>2, LedgerExecution
<1>3. ASSUME NEW e \in Executions, NEW c \in Calls, CallStep(e, c) PROVE LedgerInv'
  BY <1>0, <1>3, LedgerCall
<1>4. CASE CancelRuntime
  BY <1>4, LedgerIdle DEF CancelRuntime, execVars
<1>5. ASSUME NEW n \in Limits, UpdateTokenLimit(n) PROVE LedgerInv'
  <2>1. /\ UNCHANGED <<owner, attempts, callVars, phase, ledger>> /\ owner = NoOwner
        /\ n \in Nat /\ n >= budget.spent + budget.reserved
        /\ budget'.spent = budget.spent /\ budget'.reserved = budget.reserved
        /\ budget'.limit = n
    BY <1>5 DEF UpdateTokenLimit, Idle, execVars, TypeOK, RowType, Ledger
  <2>2. CallsSound'
    BY <2>1 DEF LedgerInv, CallsSound, CallSound, callVars
  <2>3. RowCovers'
    BY <2>1, SameSums, SumsType, LedgersType DEF LedgerInv, RowCovers, Covers
  <2>4. MemoryCovers'
    BY <2>1 DEF MemoryCovers
  <2> QED
    BY <2>2, <2>3, <2>4 DEF LedgerInv
<1>6. CASE UNCHANGED vars
  BY <1>6, LedgerIdle DEF vars, rowVars, execVars
<1> QED
  BY <1>1, <1>2, <1>3, <1>4, <1>5, <1>6 DEF Next

(* The overruns so far are among those BudgetHeld allows. *)
LEMMA LedgerHeld == TypeOK /\ LedgerInv => BudgetHeld
<1> SUFFICES ASSUME TypeOK, LedgerInv PROVE BudgetHeld
  OBVIOUS
<1>1. Total(Past) <= Total(Overrun)
  <2>1. ASSUME NEW c \in Calls PROVE Past[c] <= Overrun[c]
    <3>1. Excess(c) \in Nat
      BY DEF Excess, TypeOK, CallType
    <3> QED
      BY <3>1 DEF Past, Overrun
  <2> QED
    BY <2>1, TokensType, NoMore
<1>2. LedgerCoversSpend
  BY DEF LedgerInv, RowCovers, Covers, LedgerCoversSpend
<1>3. HardBudget
  BY <1>1, SumsType, LedgersType DEF LedgerInv, MemoryCovers, Covers, HardBudget
<1> QED
  BY <1>2, <1>3 DEF BudgetHeld

(* The budget of a session is held by every number of executions and of    *)
(* calls, whatever providers report and whichever writes are lost.         *)
THEOREM BudgetIsHeld == Spec => []BudgetHeld
<1>1. Init => TypeOK /\ LedgerInv
  BY TypeInit, LedgerInit
<1>2. TypeOK /\ LedgerInv /\ [Next]_vars => (TypeOK /\ LedgerInv)'
  BY TypeStep, LedgerStep
<1>3. TypeOK /\ LedgerInv => BudgetHeld
  BY LedgerHeld
<1> QED
  BY <1>1, <1>2, <1>3, PTL DEF Spec
=============================================================================
