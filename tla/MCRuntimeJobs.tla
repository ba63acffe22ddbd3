--------------------------- MODULE MCRuntimeJobs ---------------------------
(***************************************************************************)
(* The job table and the ledger of one execution's calls: a thread that    *)
(* claimed a job runs the pipeline, which spends.  The two share no state  *)
(* (a job waits only for its execution to end, which may be at any time),  *)
(* so a behaviour is one of the two.                                       *)
(***************************************************************************)
EXTENDS RuntimeLedger, JobQueue, TLC

VARIABLE lane

MCInit == lane \in {"ledger", "jobs"} /\ Init /\ JobsInit

MCNext ==
  \/ lane = "ledger" /\ Next /\ UNCHANGED <<lane, jobVars>>
  \/ lane = "jobs" /\ JobsNext /\ UNCHANGED <<lane, vars>>

MCSpec == MCInit /\ [][MCNext]_<<lane, vars, jobVars>>

(* All of these are interchangeable; exchanging two jobs exchanges the     *)
(* executions too, two sessions the calls: of a lane nothing is lost.      *)
Exchange(s, a, b) == [x \in s |-> IF x = a THEN b ELSE IF x = b THEN a ELSE x]
Swaps(s) == {Exchange(s, x[1], x[2]) : x \in {x \in s \X s : x[1] # x[2]}}
Symmetry ==
  {f @@ g : f \in Swaps(Jobs), g \in Swaps(Executions)}
  \cup {f @@ g : f \in Swaps(Sessions), g \in Swaps(Calls)}

(* BOUND of the ledger: the public session row, which no ledger action     *)
(* reads, is left as it was created.                                       *)
NoPublication == session.status = "created"
=============================================================================
