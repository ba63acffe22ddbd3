-------------------------- MODULE ResearchRuntime --------------------------
(***************************************************************************)
(* The durable execution ledger of one research session:                   *)
(* app/database/runtime_repository.py with the in-memory token ledger of   *)
(* app/agent/execution_budget.py and the scope that opens and closes it    *)
(* (durable_execution_service.py).                                         *)
(*                                                                         *)
(* An execution is one ResearchRuntimeRepository: a uuid owner, used once, *)
(* with the worker thread that drives it, a heartbeat thread and the       *)
(* threads that call the model provider.  Several executions, of one       *)
(* process or of several, meet only in the database.  Every transaction of *)
(* the repository starts with the conditional UPDATE that takes SQLite's   *)
(* write lock, so a transaction is one action; what the code does between  *)
(* two transactions or two holds of its in-process lock is interleaved.    *)
(*                                                                         *)
(* Time is relative: leaseLeft is lease_until minus the wall clock, so it  *)
(* falls as time passes.  A transaction that computed its time before it   *)
(* waited for the write lock is w ticks late (only acquire does that).     *)
(***************************************************************************)
EXTENDS Integers, Sequences, FiniteSets

CONSTANTS
  Executions,    \* owners, each used by one execution
  Tasks,         \* idempotency keys of the actions of the session
  Calls,         \* provider requests (a retry is another call)
  NoOwner,       \* the database NULL of owner
  NoTask,        \* no task is being executed
  NoExecution,   \* no execution has made this call, or saved the session yet
  TTL,           \* ticks a lease lasts
  MaxWait,       \* BOUND: the longest wait for the write lock, in ticks
  Reservation,   \* tokens reserved for a call: the bound the code computes
  Costs,         \* usage a provider may report for a call
  Limits,        \* BOUND: the token limits an administrator sets
  DefaultLimit,  \* token_limit of a new ledger
  Usages,        \* usage the embedding and rerank service may report
  MaxRetrieval,  \* BOUND: retrieval tokens beyond which no usage is reported
  MaxVersion     \* BOUND: checkpoints a run may commit

ASSUME NoOwnerAssumption ==
  /\ NoOwner \notin Executions
  /\ NoExecution \notin Executions
  /\ NoTask \notin Tasks
ASSUME TimeAssumption == TTL \in Nat \ {0} /\ MaxWait \in Nat
ASSUME CallsAssumption == IsFiniteSet(Calls)
ASSUME TokensAssumption ==
  /\ Reservation \in Nat \ {0}
  /\ Costs \subseteq Nat
  /\ Limits \subseteq Nat
  /\ DefaultLimit \in Nat
  /\ Usages \subseteq Nat
ASSUME BoundAssumption == MaxVersion \in Nat /\ MaxRetrieval \in Nat

VARIABLES
  \* The row of research_runtime.
  owner,         \* the execution that holds the lease, or NoOwner
  leaseLeft,     \* ticks until lease_until; not positive when expired
  cancelled,     \* the persisted cancel bit
  version,       \* number of the last checkpoint
  budget,        \* budget_json: tokens spent, used by retrieval, reserved; limit
  \* The other tables.
  taskStatus,    \* research_tasks.status, "none" when there is no row
  expected,      \* research_tasks.expected_version
  attempts,      \* research_attempts.status, "none" when there is no row
  checkpoints,   \* research_checkpoints, oldest first; by: history
  session,       \* the public research_sessions row; by: history
  \* The memory of each execution.
  phase,         \* new, active, exhausted (told to end), done, refused, crashed
  myVersion,     \* self.version
  ledger,        \* the ledger shared by the threads of the execution
  beating,       \* the heartbeat thread is running
  task,          \* the task between begin_task and its commit or failure
  \* The provider calls.
  step,          \* where its thread stands in budgeted_create
  caller,        \* the execution whose thread makes the call
  cost           \* tokens charged in memory when the call returned

rowVars  == <<owner, leaseLeft, cancelled, version, budget>>
taskVars == <<taskStatus, expected>>
execVars == <<phase, myVersion, ledger, beating, task>>
callVars == <<step, caller, cost>>
vars == <<rowVars, taskVars, attempts, checkpoints, session, execVars, callVars>>

Ledger == [spent : Nat, retrieval : Nat, reserved : Int, limit : Nat]
EmptyLedger == [spent |-> 0, retrieval |-> 0, reserved |-> 0, limit |-> DefaultLimit]

(* The tokens used: by the model and by retrieval. *)
Used(l) == l.spent + l.retrieval
Checkpoint == [version : Nat, by : Executions, task : Tasks \cup {NoTask}]
SessionRow ==
  [status : {"created", "result", "stop"}, version : Nat,
   by : Executions \cup {NoExecution}]

RowType ==
  /\ owner \in Executions \cup {NoOwner}
  /\ leaseLeft \in -MaxWait .. TTL
  /\ cancelled \in BOOLEAN
  /\ version \in Nat
  /\ budget \in Ledger
TableType ==
  /\ taskStatus \in [Tasks -> {"none", "running", "completed", "failed", "interrupted"}]
  /\ expected \in [Tasks -> Nat]
  /\ attempts \in [Calls -> {"none", "running", "completed", "uncertain"}]
  /\ checkpoints \in Seq(Checkpoint)
  /\ session \in SessionRow
ExecType ==
  /\ phase \in [Executions -> {"new", "active", "exhausted", "done", "refused", "crashed"}]
  /\ myVersion \in [Executions -> Nat]
  /\ ledger \in [Executions -> Ledger]
  /\ beating \in [Executions -> BOOLEAN]
  /\ task \in [Executions -> Tasks \cup {NoTask}]
CallType ==
  /\ step \in [Calls -> {"new", "checked", "held", "sent", "over", "lost"}]
  /\ caller \in [Calls -> Executions \cup {NoExecution}]
  /\ cost \in [Calls -> Nat]

TypeOK == RowType /\ TableType /\ ExecType /\ CallType

Init ==
  /\ owner = NoOwner
  /\ leaseLeft = -MaxWait
  /\ cancelled = FALSE
  /\ version = 0
  /\ budget = EmptyLedger
  /\ taskStatus = [k \in Tasks |-> "none"]
  /\ expected = [k \in Tasks |-> 0]
  /\ attempts = [c \in Calls |-> "none"]
  /\ checkpoints = << >>
  /\ session = [status |-> "created", version |-> 0, by |-> NoExecution]
  /\ phase = [e \in Executions |-> "new"]
  /\ myVersion = [e \in Executions |-> 0]
  /\ ledger = [e \in Executions |-> EmptyLedger]
  /\ beating = [e \in Executions |-> FALSE]
  /\ task = [e \in Executions |-> NoTask]
  /\ step = [c \in Calls |-> "new"]
  /\ caller = [c \in Calls |-> NoExecution]
  /\ cost = [c \in Calls |-> 0]
-----------------------------------------------------------------------------
(* The worker thread of e is inside durable_scope. *)
Running(e) == phase[e] \in {"active", "exhausted"}

(* The tools join their thread pools before they return, so the worker     *)
(* thread commits, fails a task or leaves only when no call is pending.    *)
Quiet(e) == \A c \in Calls : caller[c] = e => step[c] \notin {"checked", "held", "sent"}

(* _owned_row_for_write(live=True): the UPDATE on the owner, then check()  *)
(* and the version test, all under the write lock.                         *)
LiveOwner(e) ==
  /\ owner = e
  /\ leaseLeft > 0
  /\ ~cancelled
  /\ version = myVersion[e]

(* FAULT: the UPDATE of snapshot() relies on the version alone. *)
SnapshotByVersion(e) ==
  /\ version = myVersion[e]
  /\ ~cancelled
  /\ leaseLeft > 0

(* FAULT: the UPDATE of snapshot() forgets the cancel bit. *)
SnapshotUncancelled(e) ==
  /\ version = myVersion[e]
  /\ owner = e
  /\ leaseLeft > 0

(* The condition of the one UPDATE that snapshot() issues. *)
SnapshotCAS(e) ==
  /\ version = myVersion[e]
  /\ owner = e
  /\ ~cancelled
  /\ leaseLeft > 0

(* The condition of authorize_session_save(status). *)
MayPublish(e, status) ==
  /\ owner = e
  /\ version = myVersion[e]
  /\ leaseLeft > 0
  /\ status = "stop" \/ ~cancelled

(* check_execution(): lease, cancellation, overspend, latch or deadline. *)
CheckExecution(e) ==
  /\ phase[e] = "active"
  /\ owner = e
  /\ leaseLeft > 0
  /\ ~cancelled
  /\ Used(ledger[e]) <= ledger[e].limit
-----------------------------------------------------------------------------
(* Wall-clock time passes.  Below -MaxWait no transaction can tell.        *)
Tick ==
  /\ leaseLeft > -MaxWait
  /\ leaseLeft' = leaseLeft - 1
  /\ UNCHANGED <<owner, cancelled, version, budget, taskVars, attempts,
                 checkpoints, session, execVars, callVars>>

(* The lease is free to take for a transaction whose clock is w ticks old. *)
LeaseFree(w) == owner = NoOwner \/ leaseLeft <= -w

(* lease_until counts from the clock read before the wait. *)
GrantedLease(w) == TTL - w

Unsettled == {c \in Calls : attempts[c] = "running"}

(* Requests in flight whose result is unknown: their reservation is        *)
(* charged as if it had been used, and never refunded below zero.          *)
RecoveredBudget ==
  LET charge == Reservation * Cardinality(Unsettled)
      left   == budget.reserved - charge
  IN  [spent     |-> budget.spent + charge,
       retrieval |-> budget.retrieval,
       reserved  |-> IF Unsettled = {} THEN budget.reserved
                     ELSE IF left > 0 THEN left ELSE 0,
       limit     |-> budget.limit]

(* acquire(): the lease CAS, recovery of what the previous owner left, and *)
(* the start of the heartbeat.                                             *)
Acquire(e) ==
  /\ phase[e] = "new"
  /\ \E w \in 0 .. MaxWait :
       /\ LeaseFree(w)
       /\ leaseLeft' = GrantedLease(w)
  /\ owner' = e
  /\ cancelled' = FALSE
  /\ myVersion' = [myVersion EXCEPT ![e] = version]
  /\ attempts' = [c \in Calls |->
                    IF c \in Unsettled THEN "uncertain" ELSE attempts[c]]
  /\ taskStatus' = [k \in Tasks |->
                    IF taskStatus[k] = "running" THEN "interrupted" ELSE taskStatus[k]]
  /\ budget' = RecoveredBudget
  /\ ledger' = [ledger EXCEPT ![e] = RecoveredBudget]
  /\ phase' = [phase EXCEPT ![e] = "active"]
  /\ beating' = [beating EXCEPT ![e] = TRUE]
  /\ UNCHANGED <<version, expected, checkpoints, session, task, callVars>>

(* acquire() raises RuntimeConflict: the session is taken. *)
AcquireRefused(e) ==
  /\ phase[e] = "new"
  /\ \E w \in 0 .. MaxWait : ~LeaseFree(w)
  /\ phase' = [phase EXCEPT ![e] = "refused"]
  /\ UNCHANGED <<rowVars, taskVars, attempts, checkpoints, session,
                 myVersion, ledger, beating, task, callVars>>

(* FAULT: the heartbeat revives a lease that ran out. *)
RenewExpired(e) ==
  /\ owner = e
  /\ ~cancelled

(* FAULT: the heartbeat goes on after a cancellation. *)
RenewCancelled(e) ==
  /\ owner = e
  /\ leaseLeft > 0

(* The condition of the UPDATE in _renew_lease(). *)
RenewCAS(e) ==
  /\ owner = e
  /\ ~cancelled
  /\ leaseLeft > 0

(* One heartbeat: a CAS on a connection of its own; a miss ends the thread *)
(* for good (an exception only delays it to the next beat).                *)
Renew(e) ==
  /\ Running(e)
  /\ beating[e]
  /\ \/ /\ RenewCAS(e)
        /\ leaseLeft' = TTL
        /\ UNCHANGED beating
     \/ /\ ~RenewCAS(e)
        /\ beating' = [beating EXCEPT ![e] = FALSE]
        /\ UNCHANGED leaseLeft
  /\ UNCHANGED <<owner, cancelled, version, budget, taskVars, attempts,
                 checkpoints, session, phase, myVersion, ledger, task, callVars>>
-----------------------------------------------------------------------------
(* FAULT: an action that ended may be started again under its key. *)
NotRunning(k) == taskStatus[k] # "running"

(* The unique constraint on the idempotency key. *)
Unstarted(k) == taskStatus[k] = "none"

(* begin_task(): the row that makes the action known before it runs; a     *)
(* second row with the same idempotency key is refused.                    *)
BeginTask(e, k) ==
  /\ CheckExecution(e)
  /\ task[e] = NoTask
  /\ Quiet(e)
  /\ LiveOwner(e)
  /\ Unstarted(k)
  /\ taskStatus' = [taskStatus EXCEPT ![k] = "running"]
  /\ expected' = [expected EXCEPT ![k] = myVersion[e]]
  /\ budget' = ledger[e]
  /\ task' = [task EXCEPT ![e] = k]
  /\ UNCHANGED <<owner, leaseLeft, cancelled, version, attempts, checkpoints,
                 session, phase, myVersion, ledger, beating, callVars>>

(* FAULT: the execution does not follow the version it committed. *)
CommitForgotten(e, t) ==
  /\ SnapshotCAS(e)
  /\ version < MaxVersion
  /\ version' = version + 1
  /\ checkpoints' = Append(checkpoints, [version |-> version + 1, by |-> e, task |-> t])
  /\ budget' = ledger[e]
  /\ UNCHANGED myVersion

(* The part of snapshot() every commit shares: new version, new row of     *)
(* research_checkpoints, the ledger, and the execution's own version.      *)
CommitCheckpoint(e, t) ==
  /\ SnapshotCAS(e)
  /\ version < MaxVersion
  /\ version' = version + 1
  /\ checkpoints' = Append(checkpoints,
                           [version |-> myVersion[e] + 1, by |-> e, task |-> t])
  /\ budget' = ledger[e]
  /\ myVersion' = [myVersion EXCEPT ![e] = @ + 1]

(* snapshot(task=...): the task CAS and the checkpoint are one transaction. *)
CompleteTask(e) ==
  /\ CheckExecution(e)
  /\ Quiet(e)
  /\ task[e] # NoTask
  /\ taskStatus[task[e]] = "running"
  /\ expected[task[e]] = myVersion[e]
  /\ CommitCheckpoint(e, task[e])
  /\ taskStatus' = [taskStatus EXCEPT ![task[e]] = "completed"]
  /\ task' = [task EXCEPT ![e] = NoTask]
  /\ UNCHANGED <<owner, leaseLeft, cancelled, expected, attempts, session,
                 phase, ledger, beating, callVars>>

(* snapshot() without a task: context, delegation and final checkpoints. *)
Snapshot(e) ==
  /\ Running(e)
  /\ Quiet(e)
  /\ task[e] = NoTask
  /\ CommitCheckpoint(e, NoTask)
  /\ UNCHANGED <<owner, leaseLeft, cancelled, taskVars, attempts, session,
                 phase, ledger, beating, task, callVars>>

(* fail_task(): allowed to an expired or cancelled owner, not to one that  *)
(* was replaced; a store error loses the write.  The execution forgets the *)
(* task in any case.                                                       *)
FailTask(e, stored) ==
  /\ Running(e)
  /\ Quiet(e)
  /\ task[e] # NoTask
  /\ \/ /\ stored
        /\ owner = e
        /\ taskStatus[task[e]] = "running"
        /\ taskStatus' = [taskStatus EXCEPT ![task[e]] = "failed"]
        /\ budget' = ledger[e]
     \/ /\ ~(stored /\ owner = e /\ taskStatus[task[e]] = "running")
        /\ UNCHANGED <<taskStatus, budget>>
  /\ task' = [task EXCEPT ![e] = NoTask]
  /\ UNCHANGED <<owner, leaseLeft, cancelled, version, expected, attempts,
                 checkpoints, session, phase, myVersion, ledger, beating, callVars>>

(* consume() and record_retrieval_request(): a counter goes up and the     *)
(* whole ledger is written.                                                *)
PersistBudget(e) ==
  /\ CheckExecution(e)
  /\ LiveOwner(e)
  /\ budget # ledger[e]
  /\ budget' = ledger[e]
  /\ UNCHANGED <<owner, leaseLeft, cancelled, version, taskVars, attempts,
                 checkpoints, session, execVars, callVars>>

(* record_retrieval_usage(): no reservation precedes it and nothing is     *)
(* checked first; the memory keeps the usage even when the write fails.    *)
RecordUsage(e, amount) ==
  /\ Running(e)
  /\ ledger[e].retrieval + amount <= MaxRetrieval
  /\ ledger' = [ledger EXCEPT ![e].retrieval = @ + amount]
  /\ \/ LiveOwner(e) /\ budget' = [ledger[e] EXCEPT !.retrieval = @ + amount]
     \/ UNCHANGED budget
  /\ UNCHANGED <<owner, leaseLeft, cancelled, version, taskVars, attempts, checkpoints,
                 session, phase, myVersion, beating, task, callVars>>

(* The execution is told to end: a counter is at its limit (the latch of   *)
(* consume() and record_retrieval_request()) or the deadline passed.       *)
RunOut(e) ==
  /\ phase[e] = "active"
  /\ phase' = [phase EXCEPT ![e] = "exhausted"]
  /\ UNCHANGED <<rowVars, taskVars, attempts, checkpoints, session,
                 myVersion, ledger, beating, task, callVars>>

(* The public session row, saved after authorize_session_save(). *)
Publish(e, status) ==
  /\ Running(e)
  /\ Quiet(e)
  /\ task[e] = NoTask
  /\ MayPublish(e, status)
  /\ session' = [status |-> status, version |-> myVersion[e], by |-> e]
  /\ UNCHANGED <<rowVars, taskVars, attempts, checkpoints, execVars, callVars>>
-----------------------------------------------------------------------------
(* budgeted_create(), one action per hold of the in-process lock.          *)

(* check_execution() before anything is reserved. *)
StartCall(e, c) ==
  /\ step[c] = "new"
  /\ CheckExecution(e)
  /\ step' = [step EXCEPT ![c] = "checked"]
  /\ caller' = [caller EXCEPT ![c] = e]
  /\ UNCHANGED <<rowVars, taskVars, attempts, checkpoints, session, execVars, cost>>

(* FAULT: what other threads reserved is not counted. *)
FitsSpent(l) == Used(l) + Reservation <= l.limit

(* The reservation fits into what is neither used nor reserved. *)
Fits(l) == Used(l) + l.reserved + Reservation <= l.limit

(* First hold of the lock: reserve in memory, or latch exhaustion. *)
ReserveMemory(e, c) ==
  /\ step[c] = "checked"
  /\ caller[c] = e
  /\ Running(e)
  /\ \/ /\ Fits(ledger[e])
        /\ ledger' = [ledger EXCEPT ![e].reserved = @ + Reservation]
        /\ step' = [step EXCEPT ![c] = "held"]
        /\ UNCHANGED phase
     \/ /\ ~Fits(ledger[e])
        /\ phase' = [phase EXCEPT ![e] = "exhausted"]
        /\ step' = [step EXCEPT ![c] = "over"]
        /\ UNCHANGED ledger
  /\ UNCHANGED <<rowVars, taskVars, attempts, checkpoints, session,
                 myVersion, beating, task, caller, cost>>

(* Second hold: reserve_attempt() records the call before it is sent.  It  *)
(* writes the whole shared ledger, reservations of other threads included. *)
ReserveAttempt(e, c) ==
  /\ step[c] = "held"
  /\ caller[c] = e
  /\ Running(e)
  /\ LiveOwner(e)
  /\ attempts' = [attempts EXCEPT ![c] = "running"]
  /\ budget' = ledger[e]
  /\ step' = [step EXCEPT ![c] = "sent"]
  /\ UNCHANGED <<owner, leaseLeft, cancelled, version, taskVars, checkpoints,
                 session, execVars, caller, cost>>

(* reserve_attempt() raised (lost lease, cancellation, a store error):     *)
(* nothing was sent and the reservation is given back.                     *)
Refund(e, c) ==
  /\ step[c] = "held"
  /\ caller[c] = e
  /\ Running(e)
  /\ ledger' = [ledger EXCEPT ![e].reserved = @ - Reservation]
  /\ step' = [step EXCEPT ![c] = "over"]
  /\ UNCHANGED <<rowVars, taskVars, attempts, checkpoints, session, phase,
                 myVersion, beating, task, caller, cost>>

(* The ledger after a call that was charged amount. *)
Charged(l, amount) ==
  [spent     |-> l.spent + amount,
   retrieval |-> l.retrieval,
   reserved  |-> l.reserved - Reservation,
   limit     |-> l.limit]

(* FAULT: a late answer is taken from an execution that was replaced. *)
MaySettleLate(e, c) == attempts[c] \in {"running", "uncertain"}

(* settle_attempt() may write: same owner, and the attempt not yet closed. *)
MaySettle(e, c) == owner = e /\ attempts[c] = "running"

(* The finally block: the answer (usage, or none: the reservation is the   *)
(* estimate) is charged in memory, then settle_attempt() records it; a     *)
(* replaced execution records nothing, a store error loses the write.      *)
Settle(e, c, amount, result) ==
  /\ step[c] = "sent"
  /\ caller[c] = e
  /\ Running(e)
  /\ ledger' = [ledger EXCEPT ![e] = Charged(ledger[e], amount)]
  /\ cost' = [cost EXCEPT ![c] = amount]
  /\ \/ /\ MaySettle(e, c)
        /\ attempts' = [attempts EXCEPT ![c] = result]
        /\ budget' = Charged(ledger[e], amount)
        /\ step' = [step EXCEPT ![c] = "over"]
     \/ /\ ~MaySettle(e, c)
        /\ step' = [step EXCEPT ![c] = "over"]
        /\ UNCHANGED <<attempts, budget>>
     \/ /\ MaySettle(e, c)
        /\ step' = [step EXCEPT ![c] = "lost"]
        /\ UNCHANGED <<attempts, budget>>
  /\ UNCHANGED <<owner, leaseLeft, cancelled, version, taskVars, checkpoints,
                 session, phase, myVersion, beating, task, caller>>

(* The answer carries usage. *)
Answered(e, c) == \E amount \in Costs : Settle(e, c, amount, "completed")

(* The request failed or reported nothing: the reservation is the charge. *)
Unanswered(e, c) == Settle(e, c, Reservation, "uncertain")
-----------------------------------------------------------------------------
(* release(): the heartbeat is stopped first; the row is cleared when it   *)
(* is still ours.  A store error leaves the row to expire.                 *)
Release(e, stored) ==
  /\ Running(e)
  /\ Quiet(e)
  /\ task[e] = NoTask
  /\ beating' = [beating EXCEPT ![e] = FALSE]
  /\ phase' = [phase EXCEPT ![e] = "done"]
  /\ \/ /\ stored
        /\ owner = e
        /\ owner' = NoOwner
        /\ leaseLeft' = -MaxWait
        /\ budget' = ledger[e]
     \/ /\ ~(stored /\ owner = e)
        /\ UNCHANGED <<owner, leaseLeft, budget>>
  /\ UNCHANGED <<cancelled, version, taskVars, attempts, checkpoints, session,
                 myVersion, ledger, task, callVars>>

(* The process of e dies, with its heartbeat and its calls. *)
Crash(e) ==
  /\ Running(e)
  /\ phase' = [phase EXCEPT ![e] = "crashed"]
  /\ beating' = [beating EXCEPT ![e] = FALSE]
  /\ UNCHANGED <<rowVars, taskVars, attempts, checkpoints, session,
                 myVersion, ledger, task, callVars>>

(* cancel_runtime(): the user cancels whatever holds the session. *)
CancelRuntime ==
  /\ owner # NoOwner
  /\ ~cancelled
  /\ cancelled' = TRUE
  /\ UNCHANGED <<owner, leaseLeft, version, budget, taskVars, attempts,
                 checkpoints, session, execVars, callVars>>

(* update_token_limit() asks for an idle session: nobody holds the lease   *)
(* and no request is undecided.  (The job table is JobQueue's: any job     *)
(* state is allowed here.)                                                 *)
Idle == owner = NoOwner /\ Unsettled = {}

UpdateTokenLimit(n) ==
  /\ Idle
  /\ n # budget.limit
  /\ n >= budget.spent + budget.reserved
  /\ budget' = [budget EXCEPT !.limit = n]
  /\ UNCHANGED <<owner, leaseLeft, cancelled, version, taskVars, attempts,
                 checkpoints, session, execVars, callVars>>
-----------------------------------------------------------------------------
(* One step of one provider call. *)
CallStep(e, c) ==
  \/ StartCall(e, c)
  \/ ReserveMemory(e, c)
  \/ ReserveAttempt(e, c)
  \/ Refund(e, c)
  \/ Answered(e, c)
  \/ Unanswered(e, c)

(* One step of the worker thread, the heartbeat or the process of e. *)
ExecutionStep(e) ==
  \/ Acquire(e)
  \/ AcquireRefused(e)
  \/ Renew(e)
  \/ \E k \in Tasks : BeginTask(e, k)
  \/ CompleteTask(e)
  \/ Snapshot(e)
  \/ \E stored \in BOOLEAN : FailTask(e, stored)
  \/ PersistBudget(e)
  \/ \E amount \in Usages : RecordUsage(e, amount)
  \/ RunOut(e)
  \/ \E status \in {"result", "stop"} : Publish(e, status)
  \/ \E stored \in BOOLEAN : Release(e, stored)
  \/ Crash(e)

Next ==
  \/ Tick
  \/ \E e \in Executions : ExecutionStep(e)
  \/ \E e \in Executions, c \in Calls : CallStep(e, c)
  \/ CancelRuntime
  \/ \E n \in Limits : UpdateTokenLimit(n)

Spec == Init /\ [][Next]_vars
-----------------------------------------------------------------------------
(* The checkpoint numbers are 1, 2, 3, ... without a gap or a repetition,  *)
(* whichever executions wrote them, and the row carries the last number:   *)
(* a session is restored from the row and its history read by number.      *)
CheckpointsContiguous ==
  /\ Len(checkpoints) = version
  /\ \A i \in DOMAIN checkpoints : checkpoints[i].version = i

CheckpointsOf(k) == {i \in DOMAIN checkpoints : checkpoints[i].task = k}

(* A task is completed exactly when one checkpoint carries its result, and *)
(* that checkpoint follows the version the task was started from: after a  *)
(* crash or a takeover no paid result is half committed or committed twice *)
(* (snapshot() "all or nothing").                                          *)
TaskCommitted ==
  \A k \in Tasks :
    IF taskStatus[k] = "completed"
    THEN \E i \in DOMAIN checkpoints :
           CheckpointsOf(k) = {i} /\ i = expected[k] + 1
    ELSE CheckpointsOf(k) = {}

(* The execution that holds the lease, alive or dead, knows the row: its   *)
(* version is the last one, its ledger has the limit of the row, and what  *)
(* the row charges is charged in its memory too.                           *)
OwnerCurrent ==
  \A e \in Executions : owner = e =>
    /\ phase[e] \notin {"new", "refused"}
    /\ myVersion[e] = version
    /\ ledger[e].limit = budget.limit
    /\ ledger[e].spent >= budget.spent
    /\ ledger[e].retrieval >= budget.retrieval

(* An execution that lost the lease, or was told to stop while it held it. *)
Fenced(e) == phase[e] \notin {"new", "refused"} /\ (owner # e \/ cancelled)

CommitsOf(e) == {i \in DOMAIN checkpoints : checkpoints[i].by = e}

(* A fenced execution stays fenced, whatever happens to the lease and the  *)
(* cancel bit afterwards (the next owner clears it): it commits no further *)
(* checkpoint and saves no further research result.                        *)
FencedStep ==
  \A e \in Executions :
    Fenced(e) =>
      /\ Fenced(e)'
      /\ CommitsOf(e)' = CommitsOf(e)
      /\ session' # session /\ session'.by = e => session'.status = "stop"
FencedForever == [][FencedStep]_vars

(* A held lease changes hands only after it ran out, and one that ran out  *)
(* is not revived by the execution that let it run out, heartbeat or not.  *)
LeaseStep ==
  owner # NoOwner =>
    /\ owner' \notin {owner, NoOwner} => leaseLeft <= 0
    /\ leaseLeft <= 0 /\ owner' = owner => leaseLeft' <= 0
LeaseRespected == [][LeaseStep]_vars

(* Recorded spending is never lost: no late answer, release or failure of  *)
(* an old execution, and no recovery, lowers the tokens the session is     *)
(* charged for.                                                            *)
SpendStep ==
  /\ budget'.spent >= budget.spent
  /\ budget'.retrieval >= budget.retrieval
SpendKept == [][SpendStep]_vars

(* The limit an administrator sets on an idle session is not overwritten   *)
(* by the ledger copy of any execution, before or after.                   *)
LimitStep == budget'.limit # budget.limit => \E n \in Limits : UpdateTokenLimit(n)
LimitKept == [][LimitStep]_vars

(* A session is not held for ever by an execution that ended, crashed or   *)
(* was cancelled, even if its release was lost or its worker never returns *)
(* from a provider call: nothing extends its lease any more, so it runs    *)
(* out after TTL and can be taken again.                                   *)
Abandoned(e) == owner = e /\ (~Running(e) \/ cancelled)
DrainStep ==
  \A e \in Executions : Abandoned(e) /\ owner' = e => leaseLeft' <= leaseLeft
LeaseDrains == [][DrainStep]_vars

(* The abstract journal this module implements. *)
Journal == INSTANCE SessionJournal WITH
  holder  <- owner,
  stopped <- cancelled,
  opened  <- {e \in Executions : phase[e] \notin {"new", "refused"}},
  journal <- [i \in DOMAIN checkpoints |->
                [by |-> checkpoints[i].by, task |-> checkpoints[i].task]]

(* The ledger of checkpoints is a journal with one writer at a time, in    *)
(* which each execution opens the session once and each task is committed  *)
(* at most once.                                                           *)
JournalSpec == Journal!Spec
=============================================================================
