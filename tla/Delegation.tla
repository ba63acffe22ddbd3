----------------------------- MODULE Delegation -----------------------------
(***************************************************************************)
(* The main agent's loop and the specialist loop it delegates to           *)
(* (app/agent/main_loop.py, app/agent/subagents/loop.py), the controller   *)
(* that executes a delegated action (app/agent/controller.py) and the      *)
(* pairing of tool calls with observations (app/agent/react_context.py).   *)
(*                                                                         *)
(* One thread runs the loops, so what is interleaved is the run with its   *)
(* end: a crash, a cancellation, an exhausted budget or a lost lease at    *)
(* any point, and the next run, which starts from the last checkpoint.     *)
(* The research state is therefore kept twice: memory, and saved, the      *)
(* last checkpoint.  That a checkpoint is written by the lease holder only *)
(* and whole is ResearchRuntime's subject and taken from there.            *)
(***************************************************************************)
EXTENDS Integers, Sequences, FiniteSets

CONSTANTS
  Operations,     \* the registered actions of the specialists
  NoOperation,    \* no call is pending
  NoDelegation,   \* no specialist is active
  NoEntry,        \* the action was not at the head of the mandatory queue
  MaxRounds,      \* agent_subagent_max_rounds
  MaxMainRounds,  \* agent_main_max_rounds
  MaxRuns,        \* BOUND: runs of the session
  MaxDelegations, \* BOUND: delegations of the session
  Contents,       \* BOUND: what the research content may be
  Goals           \* BOUND: what the goal may be

ASSUME OperationsAssumption ==
  /\ NoOperation \notin Operations
  /\ {"recall", "report"} \cap (Operations \cup {NoOperation}) = {}
ASSUME RoundsAssumption == MaxRounds \in Nat \ {0} /\ MaxMainRounds \in Nat
ASSUME BoundsAssumption == MaxRuns \in Nat /\ MaxDelegations \in Nat

VARIABLES
  memory,     \* the research state of the run
  saved,      \* the research state of the last checkpoint
  pc,         \* where the thread stands; "idle" when there is no run
  mainRounds, \* round_index of the main loop
  runs,       \* runs started
  created,    \* delegations created, the lost ones included
  paid,       \* history: decisions a specialist was asked for, by delegation
  log         \* history: the actions committed, oldest first

loopVars == <<memory, saved, pc, mainRounds, runs, created, paid, log>>

Delegations == 1 .. MaxDelegations

(* An entry of agent_mandatory_actions; the run that set it tells equal    *)
(* entries apart.                                                          *)
Entry == [op : Operations, run : 1 .. MaxRuns]

(* The active record of the session of the specialist's role.              *)
Active ==
  [id : Delegations,   \* a fresh uuid
   op : Operations,    \* the one action the delegation authorises
   goal : Goals,       \* goal_fingerprint
   rounds : Nat,       \* decision rounds used
   done : BOOLEAN,     \* the action is in completed_operations
   lastOk : BOOLEAN,   \* last_result is a completed one
   stuck : BOOLEAN,    \* no progress, or a cycle of the progress fingerprint
   consume : BOOLEAN]  \* consume_mandatory_action

ASSUME DelegationAssumption == NoDelegation \notin Active

(* The trajectory of the active role only: those of the other roles have   *)
(* no pending call.  results holds the idempotency keys of this operation  *)
(* sequence; those of earlier sequences never match.                       *)
State ==
  [main : Operations \cup {NoOperation},   \* pending call of the main agent
   sub : Operations \cup {"recall", "report", NoOperation}, \* of the specialist
   active : Active \cup {NoDelegation},
   queue : Seq(Entry),
   results : SUBSET (Operations \X Contents),
   content : Contents,
   goal : Goals]

LogEntry ==
  [id : Delegations, entry : Entry \cup {NoEntry}, consume : BOOLEAN,
   goal : Goals, current : Goals]

PC == {"idle", "main", "loop", "asked", "chosen", "running", "reused"}

LoopTypeOK ==
  /\ memory \in State
  /\ saved \in State
  /\ pc \in PC
  /\ mainRounds \in 0 .. MaxMainRounds
  /\ runs \in 0 .. MaxRuns
  /\ created \in 0 .. MaxDelegations
  /\ paid \in [Delegations -> Nat]
  /\ log \in Seq(LogEntry)

EmptyState(content, goal) ==
  [main |-> NoOperation, sub |-> NoOperation, active |-> NoDelegation,
   queue |-> << >>, results |-> {}, content |-> content, goal |-> goal]

LoopInit ==
  /\ \E content \in Contents, goal \in Goals : saved = EmptyState(content, goal)
  /\ memory = saved
  /\ pc = "idle"
  /\ mainRounds = 0
  /\ runs = 0
  /\ created = 0
  /\ paid = [d \in Delegations |-> 0]
  /\ log = << >>

history == <<created, paid, log>>
-----------------------------------------------------------------------------
(* runtime.snapshot() of the state s, which becomes the state of the run.  *)
Checkpointed(s) == memory' = s /\ saved' = s

(* A change that only memory knows.                                        *)
Remembered(s) == memory' = s /\ UNCHANGED saved

(* The run is over: the caller saves its state s, or s is lost (a crash, a *)
(* lost lease, a cancelled run, an exception nobody catches).              *)
RunOver(s) ==
  /\ pc' = "idle"
  /\ Checkpointed(s) \/ Remembered(saved)

(* observe() on the specialist's trajectory.                               *)
SubObserved(s) == [s EXCEPT !.sub = NoOperation]

(* FAULT: the delegation ends, the main agent's call is left open.         *)
ReportedUnpaired(s) == [s EXCEPT !.sub = NoOperation, !.active = NoDelegation]

(* observe() on both trajectories and the end of the delegation.           *)
Reported(s) ==
  [s EXCEPT !.sub = NoOperation, !.main = NoOperation, !.active = NoDelegation]

(* The state after an exception: the specialist's call and the main        *)
(* agent's are answered with the failure; the delegation stays active.     *)
Unanswered(s) == [s EXCEPT !.sub = NoOperation, !.main = NoOperation]

(* The queues a run may start with: the one of the checkpoint, or one its  *)
(* entry point chose, whatever the checkpoint holds.                       *)
ChosenQueues ==
  {<<[op |-> a, run |-> runs + 1]>> : a \in Operations}
    \cup {<<[op |-> a, run |-> runs + 1], [op |-> b, run |-> runs + 1]>> :
            a \in Operations, b \in Operations}
DistinctQueues == {q \in ChosenQueues : Len(q) = 2 => q[1].op # q[2].op}

(* A run starts from the last checkpoint, under a new operation sequence   *)
(* and perhaps another goal, and writes a checkpoint first.  With a        *)
(* delegation still active its loop is resumed before any main decision.   *)
StartRun(queue, goal) ==
  /\ pc = "idle"
  /\ runs < MaxRuns
  /\ Checkpointed([saved EXCEPT !.queue = queue, !.goal = goal, !.results = {}])
  /\ pc' = IF saved.active # NoDelegation THEN "loop" ELSE "main"
  /\ mainRounds' = 0
  /\ runs' = runs + 1
  /\ UNCHANGED history

RoundLeft == mainRounds < MaxMainRounds

(* The mandatory action, if there is one, is not the model's to choose.    *)
MayDelegate(op) == memory.queue # << >> => memory.queue[1].op = op

(* The main agent decides and delegates: its call is pending, the record   *)
(* of the delegation exists, and both are in memory only.                  *)
Delegate(op) ==
  /\ pc = "main"
  /\ RoundLeft
  /\ created < MaxDelegations
  /\ MayDelegate(op)
  /\ Remembered([memory EXCEPT
       !.main = op,
       !.active = [id |-> created + 1, op |-> op, goal |-> memory.goal,
                   rounds |-> 0, done |-> FALSE, lastOk |-> FALSE,
                   stuck |-> FALSE, consume |-> memory.queue # << >>]])
  /\ created' = created + 1
  /\ pc' = "loop"
  /\ mainRounds' = mainRounds + 1
  /\ UNCHANGED <<runs, paid, log>>

(* A round of the main agent that delegates nothing and goes on: a recall  *)
(* of its context or of the research memory (with a checkpoint), a refused *)
(* finish, a denied review (that of a mandatory action too).  Its call was *)
(* observed.                                                               *)
MainRound ==
  /\ pc = "main"
  /\ RoundLeft
  /\ mainRounds' = mainRounds + 1
  /\ \/ memory.queue = << >> /\ Checkpointed(memory)
     \/ UNCHANGED <<memory, saved>>
  /\ UNCHANGED <<pc, runs, history>>

(* The main loop ends: finish, blocked, no progress, waiting for the user, *)
(* the required action unavailable, the round limit.  The last checkpoint  *)
(* is the caller's, unless the run was cancelled.                          *)
FinishRun ==
  /\ pc = "main"
  /\ RunOver(memory)
  /\ UNCHANGED <<mainRounds, runs, history>>
-----------------------------------------------------------------------------
(* FAULT: a delegation goes on for a goal that has changed.                *)
MustEndGoalBlind == memory.active.rounds >= MaxRounds \/ memory.active.stuck

(* Reasons to end the delegation before another round.                     *)
MustEnd ==
  \/ memory.active.goal # memory.goal
  \/ memory.active.rounds >= MaxRounds
  \/ memory.active.stuck

(* _finish(): the report, both observations and the end of the delegation  *)
(* are one checkpoint.                                                     *)
Finish ==
  /\ Checkpointed(Reported(memory))
  /\ pc' = "main"
  /\ UNCHANGED <<mainRounds, runs, history>>

EndDelegation == pc = "loop" /\ MustEnd /\ Finish

CountRound(s) == [s EXCEPT !.active.rounds = @ + 1]

(* The round is counted and saved before the decision is paid for.         *)
RoundSaved ==
  /\ Checkpointed(CountRound(memory))
  /\ pc' = "asked"

StartRound ==
  /\ pc = "loop"
  /\ ~MustEnd
  /\ RoundSaved
  /\ UNCHANGED <<mainRounds, runs, history>>

(* The specialist may execute the delegated action: once, and only when it *)
(* is the first mandatory one if any is due.  (That the registry and the   *)
(* hand-over of recovered evidence allow it too depends on the content.)   *)
Available ==
  /\ ~memory.active.done
  /\ memory.queue # << >> => memory.queue[1].op = memory.active.op

(* BOUND: the history counts no further than one above the limit.          *)
PaidAgain ==
  [paid EXCEPT ![memory.active.id] = IF @ > MaxRounds THEN @ ELSE @ + 1]

(* The decision the model was asked for, valid at the first or the second  *)
(* attempt: its call is pending.  A call left pending makes request() fail *)
(* before anything is paid.                                                *)
Decide(call) ==
  /\ pc = "asked"
  /\ memory.sub = NoOperation
  /\ call \in {"recall", "report"} \/ (call = memory.active.op /\ Available)
  /\ paid' = PaidAgain
  /\ Remembered([memory EXCEPT !.sub = call])
  /\ pc' = "chosen"
  /\ UNCHANGED <<mainRounds, runs, created, log>>

(* No valid decision after the correction: paid for, then an exception.    *)
DecideInvalid ==
  /\ pc = "asked"
  /\ memory.sub = NoOperation
  /\ paid' = PaidAgain
  /\ RunOver(Unanswered(memory))
  /\ UNCHANGED <<mainRounds, runs, created, log>>

(* recall_context: observed, then saved.                                   *)
Recall ==
  /\ pc = "chosen"
  /\ memory.sub = "recall"
  /\ Checkpointed(SubObserved(memory))
  /\ pc' = "loop"
  /\ UNCHANGED <<mainRounds, runs, history>>

(* A report of completion is believed only after the action was committed. *)
MayReport(status) == status = "completed" => memory.active.done /\ memory.active.lastOk

Report(status) ==
  /\ pc = "chosen"
  /\ memory.sub = "report"
  /\ \/ MayReport(status) /\ Finish
     \/ /\ ~MayReport(status)
        /\ Remembered(SubObserved(memory))
        /\ pc' = "loop"
        /\ UNCHANGED <<mainRounds, runs, history>>

(* FAULT: a refused decision does not use up its round.                    *)
RejectedFree(s) == [SubObserved(s) EXCEPT !.active.rounds = @ - 1]

Rejected(s) == SubObserved(s)

(* Changed arguments, or a review that denies the action: observed only.   *)
(* A review that escalates ends the delegation.                            *)
Reject ==
  /\ pc = "chosen"
  /\ memory.sub = memory.active.op
  /\ \/ /\ Remembered(Rejected(memory))
        /\ pc' = "loop"
        /\ UNCHANGED <<mainRounds, runs, history>>
     \/ Finish
-----------------------------------------------------------------------------
(* AgentController.execute()                                               *)

Consuming == memory.active.consume /\ ~memory.active.done

(* The mandatory action must be the first of the queue, else ValueError.   *)
MayExecute ==
  Consuming => memory.queue # << >> /\ memory.queue[1].op = memory.active.op

(* The controller accepts the action: the task is begun and its handler is *)
(* about to run.                                                           *)
Execute ==
  /\ pc = "chosen"
  /\ memory.sub = memory.active.op
  /\ MayExecute
  /\ pc' = "running"
  /\ UNCHANGED <<memory, saved, mainRounds, runs, history>>

Key == <<memory.active.op, memory.content>>

Dequeued(s) ==
  [s EXCEPT !.queue = IF Consuming THEN Tail(@) ELSE @]

(* record_subagent_observation() for a result of the delegated action.     *)
Observed(s, ok, stuck) ==
  [s EXCEPT !.sub = NoOperation, !.active.done = @ \/ ok,
            !.active.lastOk = ok, !.active.stuck = stuck]

(* An equal action (same objective, same content) was completed in this    *)
(* operation sequence: its result is used.  A mandatory action leaves the  *)
(* queue in a checkpoint of its own, taken before the observation.         *)
Reuse ==
  /\ pc = "chosen"
  /\ memory.sub = memory.active.op
  /\ MayExecute
  /\ Key \in memory.results
  /\ IF Consuming THEN Checkpointed(Dequeued(memory)) ELSE UNCHANGED <<memory, saved>>
  /\ pc' = "reused"
  /\ UNCHANGED <<mainRounds, runs, history>>

ObserveReused ==
  /\ pc = "reused"
  /\ \E stuck \in BOOLEAN : Remembered(Observed(memory, TRUE, stuck))
  /\ pc' = "loop"
  /\ UNCHANGED <<mainRounds, runs, history>>

(* The head of the queue, when it asks for this action.                    *)
ServedEntry ==
  IF memory.queue # << >> /\ memory.queue[1].op = memory.active.op
  THEN memory.queue[1] ELSE NoEntry

(* The committed candidate: patch, dequeue, result and observation in one. *)
Candidate(content, goal, stuck) ==
  [Observed(Dequeued(memory), TRUE, stuck) EXCEPT
     !.content = content, !.goal = goal, !.results = @ \cup {Key}]

(* FAULT: the action leaves the queue after the checkpoint.                *)
CommitQueued(s) == memory' = s /\ saved' = [s EXCEPT !.queue = memory.queue]

(* What the checkpoint of a commit holds. *)
CommitSaved(s) == Checkpointed(s)

(* The handler returned and its result is merged.  The action may change   *)
(* the content, or the scope and with it the goal.                         *)
Commit(content, goal) ==
  /\ pc = "running"
  /\ \E stuck \in BOOLEAN : CommitSaved(Candidate(content, goal, stuck))
  /\ log' = Append(log, [id |-> memory.active.id, entry |-> ServedEntry,
                         consume |-> Consuming, goal |-> memory.active.goal,
                         current |-> memory.goal])
  /\ pc' = "loop"
  /\ UNCHANGED <<mainRounds, runs, created, paid>>

(* The source changed under the action: nothing is merged, the stale       *)
(* result is observed and the delegation ends.                             *)
Stale ==
  /\ pc = "running"
  /\ Finish
-----------------------------------------------------------------------------
(* Cancellation, an exhausted budget, a lost lease, a failing handler, a   *)
(* refused action, a call that a checkpoint left unanswered: the run ends. *)
FailOperation ==
  /\ pc \notin {"idle", "main"}
  /\ RunOver(Unanswered(memory))
  /\ UNCHANGED <<mainRounds, runs, history>>

Crash ==
  /\ pc # "idle"
  /\ pc' = "idle"
  /\ Remembered(saved)
  /\ UNCHANGED <<mainRounds, runs, history>>

(* A step of the thread that is not an end of the run by accident.         *)
LoopStep ==
  \/ \E op \in Operations : Delegate(op)
  \/ MainRound
  \/ FinishRun
  \/ EndDelegation
  \/ StartRound
  \/ \E call \in Operations \cup {"recall", "report"} : Decide(call)
  \/ DecideInvalid
  \/ Recall
  \/ \E status \in {"completed", "needs_help", "blocked"} : Report(status)
  \/ Reject
  \/ Execute
  \/ Reuse
  \/ ObserveReused
  \/ \E content \in Contents, goal \in Goals : Commit(content, goal)
  \/ Stale
  \/ FailOperation

LoopNext ==
  \/ \E queue \in {saved.queue} \cup DistinctQueues, goal \in Goals : StartRun(queue, goal)
  \/ LoopStep
  \/ Crash

LoopSpec == LoopInit /\ [][LoopNext]_loopVars

(* The thread goes on: every provider call and every handler returns.      *)
LoopFairSpec == LoopSpec /\ WF_loopVars(LoopStep)
-----------------------------------------------------------------------------
(* A call of the main agent that a checkpoint holds open belongs to the    *)
(* delegation the checkpoint resumes, which will answer it: a run never    *)
(* starts with a call nobody can answer, at which the next main decision   *)
(* would be refused ("unresolved_tool_call_in_checkpoint").                *)
MainCallAnswerable ==
  saved.main # NoOperation =>
    saved.active # NoDelegation /\ saved.active.op = saved.main

(* A delegation pays for at most MaxRounds decisions in its whole life,    *)
(* however often it is interrupted and resumed ("检查点恢复保留局部计数").    *)
DecisionsBounded == \A d \in Delegations : paid[d] <= MaxRounds

(* A delegation commits its action at most once, across crashes between    *)
(* the commit and the report and across resumptions ("已提交动作不重放"), and   *)
(* an entry of the mandatory queue is paid for once by the delegations     *)
(* that were created to serve it: the commit and the dequeuing cannot be   *)
(* separated by a crash.                                                   *)
EntryServedOnce ==
  \A i, j \in DOMAIN log :
    \/ log[i].id = log[j].id
    \/ log[i].consume /\ log[j].consume /\ log[i].entry = log[j].entry
    => i = j

(* No action is committed for a goal that had changed when it was started: *)
(* a delegation resumed by a run with another goal hands back first.       *)
GoalServed == \A i \in DOMAIN log : log[i].goal = log[i].current

(* A run ends, whatever the models answer: recalls, refused reports and    *)
(* refused actions use up rounds too.                                      *)
RunEnds == (pc # "idle") ~> (pc = "idle")

(* What a crash makes a delegation repeat is neither paid for without end  *)
(* nor committed twice.                                                    *)
ReplayBounded == DecisionsBounded /\ EntryServedOnce /\ LoopTypeOK
=============================================================================
