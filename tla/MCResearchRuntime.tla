------------------------- MODULE MCResearchRuntime -------------------------
(***************************************************************************)
(* Instances of ResearchRuntime for TLC.                                   *)
(***************************************************************************)
EXTENDS RuntimeLedger, TLC

(* Executions, tasks and calls are interchangeable (safety runs only). *)
Symmetry ==
  Permutations(Executions) \cup Permutations(Tasks) \cup Permutations(Calls)

(* BOUND of the lease run: usage is recorded only while a first execution  *)
(* holds the lease and no task has begun (RuntimeJobs has the rest of it). *)
EarlyUsage ==
  \A e \in Executions :
    ledger[e].retrieval > 0 =>
      /\ \A f \in Executions \ {e} : phase[f] = "new"
      /\ \A t \in Tasks : taskStatus[t] = "none"
=============================================================================
