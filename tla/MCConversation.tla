--------------------------- MODULE MCConversation ---------------------------
(***************************************************************************)
(* The turns of a conversation, and the jobs they run as.  A turn knows    *)
(* nothing of its job but its end, so a behaviour is one of them, under    *)
(* the fairness of its own.                                                *)
(***************************************************************************)
EXTENDS Conversation, JobQueue

VARIABLE lane

conversationVars == <<lane, vars, jobVars>>

Jobbing(step) == lane = "jobs" /\ step /\ UNCHANGED <<lane, vars>>

MCInit == lane \in {"turns", "jobs"} /\ Init /\ JobsInit

MCNext == \/ lane = "turns" /\ Next /\ UNCHANGED <<lane, jobVars>>
          \/ Jobbing(JobsNext)

MCSpec ==
  /\ MCInit /\ [][MCNext]_conversationVars
  /\ Returning
  /\ \A p \in Processes, j \in Jobs : WF_conversationVars(Jobbing(JobStep(p, j)))
  /\ \A p \in Processes : WF_conversationVars(Jobbing(ServerStep(p)))

-----------------------------------------------------------------------------
OneInput == {1}
ClaimIssue == {"claim"}
=============================================================================
