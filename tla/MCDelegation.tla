---------------------------- MODULE MCDelegation ----------------------------
(***************************************************************************)
(* The run of the main loop with its delegations, and the calls to a       *)
(* source their actions make.  They share no state, so a behaviour is one  *)
(* of them, under the fairness of its own.                                 *)
(***************************************************************************)
EXTENDS Delegation, SourceAccess

VARIABLE lane

delegationVars == <<lane, loopVars, accessVars>>

Looping(step) == lane = "loop" /\ step /\ UNCHANGED <<lane, accessVars>>
Calling(step) == lane = "calls" /\ step /\ UNCHANGED <<lane, loopVars>>

Init == lane \in {"loop", "calls"} /\ LoopInit /\ AccessInit /\ (lane = "loop" => ~mailto)

Next == Looping(LoopNext) \/ Calling(AccessNext)

Spec ==
  /\ Init /\ [][Next]_delegationVars
  /\ WF_delegationVars(Looping(LoopStep))
  /\ WF_delegationVars(Calling(Tick))
  /\ \A c \in Calls : WF_delegationVars(Calling(CallStep(c)))

-----------------------------------------------------------------------------
TwoGoals == 1 .. 2
OneContent == {1}
=============================================================================
