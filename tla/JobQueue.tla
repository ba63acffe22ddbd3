------------------------------ MODULE JobQueue ------------------------------
(***************************************************************************)
(* The background job service: app/services/research_job_service.py with   *)
(* the conditional status update of ResearchJobRepository.                 *)
(*                                                                         *)
(* A server process owns an executor (a FIFO of jobs and at most Workers   *)
(* threads), a bounded semaphore of Places permits and a submission        *)
(* lock.  The job table is shared and survives.  Processes follow one      *)
(* another: a process is shut down (its threads go on, nothing interrupts  *)
(* them) or crashes, and its successor repairs the table before it serves. *)
(* What a claimed job does is ResearchRuntime's; here it returns, fails or *)
(* notices its cancellation.                                               *)
(***************************************************************************)
EXTENDS Integers, Sequences, FiniteSets

CONSTANTS
  Jobs,         \* job ids
  Sessions,     \* research sessions
  NoJob,        \* no submission is under way
  NoSession,    \* the job has not been submitted
  LastProcess,  \* BOUND: server processes are 1 .. LastProcess, in the order they start
  Workers,      \* research_job_max_workers
  MaxPending,   \* research_job_max_pending
  Overlap,      \* may a process start while its predecessor still drains?
  StoreErrors   \* may a write to the job table fail?

Processes == 1 .. LastProcess
Places == Workers + MaxPending

ASSUME JobsAssumption == NoJob \notin Jobs /\ NoSession \notin Sessions
ASSUME ProcessesAssumption == LastProcess \in Nat \ {0}
ASSUME PoolAssumption == Workers \in Nat \ {0} /\ MaxPending \in Nat
ASSUME SwitchAssumption == Overlap \in BOOLEAN /\ StoreErrors \in BOOLEAN

VARIABLES
  status,       \* research_jobs.status of each job, "none" when absent
  sessionOf,    \* research_jobs.session_id
  server,       \* off, recovering, requeueing, up, draining, dead
  permits,      \* the semaphore of each process
  queue,        \* jobs handed to the executor and not started
  thread,       \* where process p stands in _run_job(j), "none" before
  submitting,   \* the job between its commit and its hand-over, under the lock
  found,        \* the statuses recover_after_restart() read
  requeue       \* queued jobs it still has to hand over

tableVars == <<status, sessionOf>>
jobVars == <<tableVars, server, permits, queue, thread, submitting, found, requeue>>

ActiveStatuses   == {"queued", "running", "cancel_requested"}
TerminalStatuses == {"completed", "failed", "cancelled"}
Statuses         == {"none"} \cup ActiveStatuses \cup TerminalStatuses
JobStages ==
  {"picked", "withdraw", "claim", "run", "returned", "finish",
   "cancelling", "failing"}

JobsTypeOK ==
  /\ status \in [Jobs -> Statuses]
  /\ sessionOf \in [Jobs -> Sessions \cup {NoSession}]
  /\ server \in [Processes -> {"off", "recovering", "requeueing", "up", "draining", "dead"}]
  /\ permits \in [Processes -> 0 .. Places]
  /\ queue \in [Processes -> Seq(Jobs)]
  /\ thread \in [Processes -> [Jobs -> JobStages \cup {"none", "queued", "over"}]]
  /\ submitting \in [Processes -> Jobs \cup {NoJob}]
  /\ found \in [Processes -> [Jobs -> Statuses]]
  /\ requeue \in [Processes -> SUBSET Jobs]

JobsInit ==
  /\ status = [j \in Jobs |-> "none"]
  /\ sessionOf = [j \in Jobs |-> NoSession]
  /\ server = [p \in Processes |-> "off"]
  /\ permits = [p \in Processes |-> Places]
  /\ queue = [p \in Processes |-> << >>]
  /\ thread = [p \in Processes |-> [j \in Jobs |-> "none"]]
  /\ submitting = [p \in Processes |-> NoJob]
  /\ found = [p \in Processes |-> [j \in Jobs |-> "none"]]
  /\ requeue = [p \in Processes |-> {}]
-----------------------------------------------------------------------------
(* update_status_if_in(): the status after a conditional update. *)
CAS(j, from, to) ==
  IF status[j] \in from THEN [status EXCEPT ![j] = to] ELSE status

ActiveJobs(s) == {j \in Jobs : sessionOf[j] = s /\ status[j] \in ActiveStatuses}

(* The thread of p that runs _run_job(j) goes on to a later stage. *)
MoveTo(p, j, stage) == thread' = [thread EXCEPT ![p][j] = stage]

(* _run_job_guarded(): the thread ends and gives its permit back. *)
Finished(p, j) ==
  /\ MoveTo(p, j, "over")
  /\ permits' = [permits EXCEPT ![p] = @ + 1]

Alive(p) == server[p] \in {"requeueing", "up", "draining"}
BusyThreads(p) == {j \in Jobs : thread[p][j] \in JobStages}
-----------------------------------------------------------------------------
(* _create_and_enqueue() up to the commit of the queued row. *)
CreateJob(p, j, s) ==
  /\ server[p] = "up"
  /\ submitting[p] = NoJob
  /\ status[j] = "none"
  /\ ActiveJobs(s) = {}
  /\ permits[p] > 0
  /\ permits' = [permits EXCEPT ![p] = @ - 1]
  /\ status' = [status EXCEPT ![j] = "queued"]
  /\ sessionOf' = [sessionOf EXCEPT ![j] = s]
  /\ submitting' = [submitting EXCEPT ![p] = j]
  /\ UNCHANGED <<server, queue, thread, found, requeue>>

(* _enqueue(capacity_reserved=True) hands the job to the executor. *)
EnqueueJob(p, j) ==
  /\ submitting[p] = j
  /\ server[p] = "up"
  /\ queue' = [queue EXCEPT ![p] = Append(@, j)]
  /\ MoveTo(p, j, "queued")
  /\ submitting' = [submitting EXCEPT ![p] = NoJob]
  /\ UNCHANGED <<tableVars, server, permits, found, requeue>>

(* The executor was shut down meanwhile and refuses the job. *)
EnqueueRefused(p, j) ==
  /\ submitting[p] = j
  /\ server[p] = "draining"
  /\ status' = [status EXCEPT ![j] = "failed"]
  /\ permits' = [permits EXCEPT ![p] = @ + 1]
  /\ submitting' = [submitting EXCEPT ![p] = NoJob]
  /\ UNCHANGED <<sessionOf, server, queue, thread, found, requeue>>

(* cancel(): a terminal job is left alone, by the early return or the CAS. *)
CancelJob(j) ==
  /\ \E p \in Processes : server[p] = "up"
  /\ status[j] \in ActiveStatuses
  /\ status' = CAS(j, ActiveStatuses, "cancel_requested")
  /\ UNCHANGED <<sessionOf, server, permits, queue, thread, submitting, found, requeue>>
-----------------------------------------------------------------------------
(* _run_job(), one action per read or transaction of the worker thread.    *)

PickJob(p) ==
  /\ Alive(p)
  /\ queue[p] # << >>
  /\ Cardinality(BusyThreads(p)) < Workers
  /\ MoveTo(p, Head(queue[p]), "picked")
  /\ queue' = [queue EXCEPT ![p] = Tail(@)]
  /\ UNCHANGED <<tableVars, server, permits, submitting, found, requeue>>

(* The first read decides between closing a cancelled job and claiming it. *)
ReadJob(p, j) ==
  /\ thread[p][j] = "picked"
  /\ MoveTo(p, j, IF status[j] = "cancel_requested" THEN "withdraw" ELSE "claim")
  /\ UNCHANGED <<tableVars, server, permits, queue, submitting, found, requeue>>

WithdrawJob(p, j) ==
  /\ thread[p][j] = "withdraw"
  /\ status' = CAS(j, {"cancel_requested"}, "cancelled")
  /\ Finished(p, j)
  /\ UNCHANGED <<sessionOf, server, queue, submitting, found, requeue>>

(* FAULT: a job another process runs is taken again. *)
Unfinished == {"queued", "running"}

(* The statuses a job may be claimed from. *)
Claimable == {"queued"}

(* The claim: the CAS from queued to running; on a miss the thread returns *)
(* and leaves the row as it is.                                            *)
ClaimJob(p, j) ==
  /\ thread[p][j] = "claim"
  /\ \/ /\ status[j] \in Claimable
        /\ status' = CAS(j, Claimable, "running")
        /\ MoveTo(p, j, "run")
        /\ UNCHANGED permits
     \/ /\ status[j] \notin Claimable
        /\ Finished(p, j)
        /\ UNCHANGED status
  /\ UNCHANGED <<sessionOf, server, queue, submitting, found, requeue>>

(* _is_cancel_requested(). *)
CancelSeen(j) == status[j] \in {"cancel_requested", "cancelled"}

(* handle() or revise() returns, raises, or notices the cancellation. *)
RunJob(p, j) ==
  /\ thread[p][j] = "run"
  /\ \/ MoveTo(p, j, "returned")
     \/ MoveTo(p, j, "failing")
     \/ CancelSeen(j) /\ MoveTo(p, j, "cancelling")
  /\ UNCHANGED <<tableVars, server, permits, queue, submitting, found, requeue>>

(* The last look at the cancellation before the result is recorded. *)
CheckCancelled(p, j) ==
  /\ thread[p][j] = "returned"
  /\ MoveTo(p, j, IF CancelSeen(j) THEN "cancelling" ELSE "finish")
  /\ UNCHANGED <<tableVars, server, permits, queue, submitting, found, requeue>>

(* FAULT: the outcome is written whatever the row says. *)
Overwritten(j, final) == [status EXCEPT ![j] = final]

(* The final CAS from running; a job cancelled in between is cancelled. *)
Concluded(j, final) ==
  IF status[j] = "running"
  THEN CAS(j, {"running"}, final)
  ELSE CAS(j, {"cancel_requested"}, "cancelled")

FinishJob(p, j, final) ==
  /\ thread[p][j] = "finish"
  /\ status' = Concluded(j, final)
  /\ Finished(p, j)
  /\ UNCHANGED <<sessionOf, server, queue, submitting, found, requeue>>

(* The branch for AgentCancelledError. *)
CloseCancelled(p, j) ==
  /\ thread[p][j] = "cancelling"
  /\ status' = CAS(j, {"running", "cancel_requested"}, "cancelled")
  /\ Finished(p, j)
  /\ UNCHANGED <<sessionOf, server, queue, submitting, found, requeue>>

(* The branches for a lost lease and for any other exception. *)
CloseFailed(p, j) ==
  /\ thread[p][j] = "failing"
  /\ status' = CAS(j, {"running", "cancel_requested"}, "failed")
  /\ Finished(p, j)
  /\ UNCHANGED <<sessionOf, server, queue, submitting, found, requeue>>

(* The table refuses a write.  The final one is inside the try block and   *)
(* ends in its handler; the others end the thread with the row as it was.  *)
StoreError(p, j) ==
  /\ StoreErrors
  /\ \/ /\ thread[p][j] = "finish"
        /\ MoveTo(p, j, "failing")
        /\ UNCHANGED permits
     \/ /\ thread[p][j] \in {"picked", "withdraw", "claim", "cancelling", "failing"}
        /\ Finished(p, j)
  /\ UNCHANGED <<tableVars, server, queue, submitting, found, requeue>>
-----------------------------------------------------------------------------
(* A process starts once its predecessor is dead (with Overlap: while it   *)
(* is still draining), and reads the unfinished jobs.                      *)
StartServer(p) ==
  /\ server[p] = "off"
  /\ p > 1 => server[p - 1] \in {"dead"} \cup (IF Overlap THEN {"draining"} ELSE {})
  /\ server' = [server EXCEPT ![p] = "recovering"]
  /\ found' = [found EXCEPT ![p] = status]
  /\ UNCHANGED <<tableVars, permits, queue, thread, submitting, requeue>>

(* FAULT: recovery leaves the jobs of the dead process running. *)
RepairedCancelled(seen, now) ==
  IF seen = "cancel_requested" THEN "cancelled" ELSE now

(* What recovery makes of a job it found in a given status. *)
Repaired(seen, now) ==
  CASE seen = "cancel_requested" -> "cancelled"
    [] seen = "running"          -> "failed"
    [] OTHER                     -> now

(* The repair is written by primary key, not by CAS. *)
RecoverJobs(p) ==
  /\ server[p] = "recovering"
  /\ status' = [j \in Jobs |-> Repaired(found[p][j], status[j])]
  /\ requeue' = [requeue EXCEPT ![p] = {j \in Jobs : found[p][j] = "queued"}]
  /\ found' = [found EXCEPT ![p] = [j \in Jobs |-> "none"]]
  /\ server' = [server EXCEPT ![p] = "requeueing"]
  /\ UNCHANGED <<sessionOf, permits, queue, thread, submitting>>

(* _enqueue(j): without a permit the job stays queued with no consumer. *)
RequeueJob(p, j) ==
  /\ server[p] = "requeueing"
  /\ j \in requeue[p]
  /\ requeue' = [requeue EXCEPT ![p] = @ \ {j}]
  /\ \/ /\ permits[p] > 0
        /\ permits' = [permits EXCEPT ![p] = @ - 1]
        /\ queue' = [queue EXCEPT ![p] = Append(@, j)]
        /\ MoveTo(p, j, "queued")
     \/ /\ permits[p] = 0
        /\ UNCHANGED <<permits, queue, thread>>
  /\ UNCHANGED <<tableVars, server, submitting, found>>

(* The lifespan hook has run: requests are served. *)
Serve(p) ==
  /\ server[p] = "requeueing"
  /\ requeue[p] = {}
  /\ server' = [server EXCEPT ![p] = "up"]
  /\ UNCHANGED <<tableVars, permits, queue, thread, submitting, found, requeue>>

(* shutdown_executor(wait=False): queued futures are cancelled, threads    *)
(* that started go on.                                                     *)
Shutdown(p) ==
  /\ server[p] = "up"
  /\ server' = [server EXCEPT ![p] = "draining"]
  /\ queue' = [queue EXCEPT ![p] = << >>]
  /\ thread' = [thread EXCEPT ![p] =
                  [j \in Jobs |-> IF @[j] = "queued" THEN "over" ELSE @[j]]]
  /\ UNCHANGED <<tableVars, permits, submitting, found, requeue>>

(* The process is gone, with its queue and its threads. *)
Die(p) ==
  /\ server' = [server EXCEPT ![p] = "dead"]
  /\ queue' = [queue EXCEPT ![p] = << >>]
  /\ thread' = [thread EXCEPT ![p] =
                  [j \in Jobs |-> IF @[j] = "none" THEN "none" ELSE "over"]]
  /\ submitting' = [submitting EXCEPT ![p] = NoJob]
  /\ requeue' = [requeue EXCEPT ![p] = {}]
  /\ found' = [found EXCEPT ![p] = [j \in Jobs |-> "none"]]
  /\ UNCHANGED <<tableVars, permits>>

(* The last process of the bound does not crash. *)
ServerCrash(p) ==
  /\ server[p] \in {"recovering", "requeueing", "up", "draining"}
  /\ p < LastProcess
  /\ Die(p)

(* The interpreter joins the executor's threads before it exits. *)
Exit(p) ==
  /\ server[p] = "draining"
  /\ BusyThreads(p) = {}
  /\ submitting[p] = NoJob
  /\ Die(p)
-----------------------------------------------------------------------------
JobStep(p, j) ==
  \/ EnqueueJob(p, j)
  \/ EnqueueRefused(p, j)
  \/ ReadJob(p, j)
  \/ WithdrawJob(p, j)
  \/ ClaimJob(p, j)
  \/ RunJob(p, j)
  \/ CheckCancelled(p, j)
  \/ \E final \in TerminalStatuses : FinishJob(p, j, final)
  \/ CloseCancelled(p, j)
  \/ CloseFailed(p, j)
  \/ RequeueJob(p, j)

ServerStep(p) ==
  \/ PickJob(p)
  \/ StartServer(p)
  \/ RecoverJobs(p)
  \/ Serve(p)
  \/ Exit(p)

(* The last process of the bound is not shut down either. *)
Restart(p) ==
  /\ p < LastProcess
  /\ Shutdown(p) \/ ServerCrash(p)

JobsNext ==
  \/ \E p \in Processes, j \in Jobs : JobStep(p, j)
  \/ \E p \in Processes, j \in Jobs : StoreError(p, j)
  \/ \E p \in Processes, j \in Jobs, s \in Sessions : CreateJob(p, j, s)
  \/ \E p \in Processes : ServerStep(p)
  \/ \E p \in Processes : Restart(p)
  \/ \E j \in Jobs : CancelJob(j)

JobsSpec == JobsInit /\ [][JobsNext]_jobVars

(* The threads of the executor and of the start-up hook are scheduled, and *)
(* a job that runs comes to an end: its provider requests carry a timeout  *)
(* and the execution a deadline.  Clients owe nothing.                     *)
JobsFairSpec ==
  /\ JobsSpec
  /\ \A p \in Processes, j \in Jobs : WF_jobVars(JobStep(p, j))
  /\ \A p \in Processes : WF_jobVars(ServerStep(p))
-----------------------------------------------------------------------------
(* No permit is lost or given back twice: a serving process always counts  *)
(* the jobs it holds, so the queue neither shrinks for good nor overflows. *)
Held(p) == {j \in Jobs : thread[p][j] \in JobStages \cup {"queued"}}
PermitsConserved ==
  \A p \in Processes :
    server[p] \in {"requeueing", "up"} =>
      permits[p] + Cardinality(Held(p))
        + (IF submitting[p] = NoJob THEN 0 ELSE 1) = Places

(* A session has at most one unfinished job, whatever the interleaving of  *)
(* submissions, cancellations, workers and restarts.                       *)
OneActiveJob ==
  \A j, k \in Jobs :
    /\ status[j] \in ActiveStatuses
    /\ status[k] \in ActiveStatuses
    /\ sessionOf[j] = sessionOf[k]
    => j = k

(* A job delivered twice (by a draining process and by its successor) is   *)
(* executed by one of them only.                                           *)
Executing == {"run", "returned", "finish"}
ExecutedOnce ==
  \A j \in Jobs, p, q \in Processes :
    thread[p][j] \in Executing /\ thread[q][j] \in Executing => p = q

(* An outcome once recorded is not overwritten by a worker, a cancellation *)
(* or a second delivery.  Only the two unconditional updates may do it:    *)
(* the repair at start-up and the refused hand-over.                       *)
TerminalStep ==
  \A j \in Jobs :
    status[j] \in TerminalStatuses /\ status'[j] # status[j] =>
      \E p \in Processes : RecoverJobs(p) \/ EnqueueRefused(p, j)
TerminalKept == [][TerminalStep]_jobVars

(* A queued or running job leaves that status, through any number of       *)
(* restarts: it ends, or it is asked to end.                               *)
JobsProgress ==
  \A j \in Jobs :
    /\ status[j] = "queued" ~> status[j] # "queued"
    /\ status[j] = "running" ~> status[j] # "running"

(* What the permits, the table and the threads of two processes say of a   *)
(* job agrees, whatever was submitted, cancelled or handed over when.      *)
JobsSound == PermitsConserved /\ OneActiveJob /\ ExecutedOnce /\ JobsTypeOK
=============================================================================
