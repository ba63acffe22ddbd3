---------------------------- MODULE Conversation ----------------------------
(***************************************************************************)
(* A research conversation (app/services/research_conversation_service.py):*)
(* the session row, the turns that change it, the automatic recovery of a  *)
(* draft that failed its gate, and the checkpoints of the running pipeline *)
(* that a later turn starts from (app/database/repositories.py).           *)
(*                                                                         *)
(* One execution at a time works on a session: that is the lease of        *)
(* ResearchRuntime.  An execution that lost it cannot save either, so for  *)
(* the row it ends like one that crashed.  The pipeline (app/agent/        *)
(* graph.py) is here what its caller sees of it: checkpoints of the        *)
(* research state, then a result, an exception or nothing at all.          *)
(***************************************************************************)
EXTENDS QualityRecovery, FiniteSets

CONSTANTS
  NoState,    \* no research state
  GateCodes,  \* BOUND: the issues a gate may report, out of Codes
  MaxTopics,  \* BOUND: new research requests
  MaxTurns    \* BOUND: turns that run the pipeline

ASSUME GateCodesAssumption == GateCodes \subseteq Codes
ASSUME TurnsAssumption == MaxTopics \in Nat /\ MaxTurns \in Nat
ASSUME StateAssumption == Inputs # {} /\ NoState \notin ResearchState

VARIABLES
  row,      \* the session row
  denied,   \* relaxations the request forbids (forbidden_quality_actions)
  commit,   \* the state of the runtime's last checkpoint
  newer,    \* runtime.version > row's runtime_checkpoint_version
  pc,       \* "idle", or "run": the pipeline runs
  how,      \* the entry point of the running pipeline
  work,     \* the research state in the pipeline's memory
  turns,    \* pipelines started by the user
  started,  \* history: recovery actions started for the topic
  finals,   \* history: final best-effort generations of the topic, up to 2
  licence   \* history: who allowed an unvalidated draft last, or "revoked"

vars == <<row, denied, commit, newer, pc, how, work, turns, started, finals,
          licence>>

turn == <<pc, how, work>>
history == <<started, finals, licence>>

Choices == {"force", "accept", "rewrite", "taxonomy", "time", "scope", "retry"}

Relaxations == {"accept", "time", "scope"}

Row ==
  [status : {"none", "running", "needs_clarification", "completed", "partial",
             "blocked", "failed", "cancelled", "success"},
   ask : {"none", "main", "profile", "scope", "quality", "focus"}, \* clarification.kind
   topic : 0 .. MaxTopics,             \* original_query
   e : ResearchState \cup {NoState}]   \* editable_research_state

Terminal == {"completed", "partial", "blocked", "failed", "cancelled"}

TypeOK ==
  /\ row \in Row
  /\ denied \in SUBSET Relaxations
  /\ commit \in ResearchState \cup {NoState}
  /\ newer \in BOOLEAN
  /\ pc \in {"idle", "run"}
  /\ how \in {"fresh", "resume", "answer", "regenerate", "continue",
            "reverify", "revise"}
  /\ work \in ResearchState \cup {NoState}
  /\ turns \in 0 .. MaxTurns
  /\ started \in Nat
  /\ finals \in Nat
  /\ licence \in {"none", "user", "final", "revoked"}

Init ==
  /\ row = [status |-> "none", ask |-> "none", topic |-> 0, e |-> NoState]
  /\ denied = {}
  /\ commit = NoState
  /\ newer = FALSE
  /\ pc = "idle"
  /\ how = "fresh"
  /\ work = NoState
  /\ turns = 0
  /\ started = 0
  /\ finals = 0
  /\ licence = "none"
-----------------------------------------------------------------------------
(* FAULT: the checkpoint is preferred whether or not it is newer.          *)
CommitFirst == IF commit # NoState THEN commit ELSE row.e

(* repositories.get(): a checkpoint newer than the row replaces its state. *)
Visible == IF newer THEN commit ELSE row.e

(* repositories.save(): the row is stamped with the current version.       *)
Save(status, ask, e) ==
  /\ row' = [row EXCEPT !.status = status, !.ask = ask, !.e = e]
  /\ newer' = FALSE

(* The execution is over.                                                  *)
Over ==
  /\ pc' = "idle"
  /\ work' = NoState
  /\ UNCHANGED how

(* The turn ends with a saved row.                                         *)
End(status, ask, e) ==
  /\ Save(status, ask, e)
  /\ Over
  /\ UNCHANGED <<commit, history>>

(* So does a turn whose answer holds the research state, which is then     *)
(* committed (with_artifact_store).                                        *)
EndCommitted(status, e) ==
  /\ row' = [row EXCEPT !.status = status, !.ask = "none", !.e = e]
  /\ IF status = "cancelled" THEN newer' = FALSE /\ UNCHANGED commit
     ELSE newer' = TRUE /\ commit' = e
  /\ Over
  /\ UNCHANGED history

Cleared(e) == [e EXCEPT !.gate = "none", !.codes = {}, !.verified = FALSE]

(* What the entry point makes of the state before the pipeline runs: the   *)
(* products of the last writing are dropped, but a rewrite of sections     *)
(* keeps the draft it mends, and a mere validation keeps everything.       *)
Prepared(entry, e) ==
  CASE entry \in {"regenerate", "revise"} ->
         {Cleared(e)} \cup (IF e.gate = "failed" THEN {[e EXCEPT !.verified = FALSE]} ELSE {})
    [] entry = "continue" -> {Cleared(e)}
    [] OTHER -> {e}

(* "running" is saved with base before the pipeline starts on e.           *)
Launch(entry, base, e) ==
  /\ Save("running", "none", base)
  /\ pc' = "run"
  /\ how' = entry
  /\ work' \in Prepared(entry, e)
  /\ UNCHANGED commit

FreshState(topic) ==
  [topic |-> topic, input |-> CHOOSE i \in Inputs : TRUE, gate |-> "none",
   codes |-> {}, verified |-> FALSE, fresh |-> FALSE, count |-> 0, attempts |-> 0,
   round |-> 0, history |-> << >>, rejected |-> {}, active |-> FALSE,
   expand |-> TRUE, stopped |-> FALSE, forced |-> FALSE, final |-> FALSE]

(* The user starts another run of the pipeline.                            *)
UserTurn == pc = "idle" /\ turns < MaxTurns /\ turns' = turns + 1

(* The outcomes of the checks before a request is run: an unsupported task,*)
(* a question about the paper or the scope, or the run.  What an earlier   *)
(* request worked on is not carried over.                                  *)
Preflight(topic) ==
  LET asked == [row EXCEPT !.topic = topic, !.e = NoState] IN
  /\ newer' = FALSE
  /\ UNCHANGED commit
  /\ \/ row' = [asked EXCEPT !.status = "blocked", !.ask = "none"] /\ UNCHANGED turn
     \/ /\ \E ask \in {"profile", "scope"} :
             row' = [asked EXCEPT !.status = "needs_clarification", !.ask = ask]
        /\ UNCHANGED turn
     \/ /\ row' = [asked EXCEPT !.status = "running", !.ask = "none"]
        /\ pc' = "run"
        /\ how' = "fresh"
        /\ work' = FreshState(topic)

(* A new request, in any state of the session but a pending question.      *)
StartTurn(forbidden) ==
  /\ UserTurn
  /\ row.topic < MaxTopics
  /\ row.status # "needs_clarification"
  /\ Preflight(row.topic + 1)
  /\ denied' = forbidden
  /\ started' = 0
  /\ finals' = 0
  /\ licence' = "none"

(* The answer about the paper or the scope: asked again, or on with the    *)
(* request.                                                                *)
AnswerPreflight ==
  /\ UserTurn
  /\ row.status = "needs_clarification"
  /\ \/ row.ask = "profile" /\ Preflight(row.topic)
     \/ /\ row.ask = "scope"
        /\ Launch("fresh", Visible, FreshState(row.topic))
  /\ UNCHANGED <<denied, history>>

(* The answer to a question of the main agent: the constraints may change, *)
(* so what was verified is so no longer.                                   *)
AnswerMain(input) ==
  /\ UserTurn
  /\ row.status = "needs_clarification"
  /\ row.ask = "main"
  /\ Launch("answer", Visible, [Visible EXCEPT !.input = input, !.verified = FALSE])
  /\ UNCHANGED <<denied, history>>

(* _resume_checkpoint(): the pipeline goes on from the newest state; the   *)
(* row is not saved first.                                                 *)
Resume ==
  /\ UserTurn
  /\ row.status \in {"running", "failed", "cancelled", "blocked"}
  /\ Visible # NoState
  /\ commit # NoState
  /\ pc' = "run"
  /\ how' = "resume"
  /\ work' = Visible
  /\ UNCHANGED <<row, denied, commit, newer, history>>

(* revise(): papers are excluded, or another deliverable is asked for.     *)
Revise(input) ==
  /\ UserTurn
  /\ row.status \in {"completed", "partial"}
  /\ Visible # NoState
  /\ Launch("revise", Visible, [Visible EXCEPT !.input = input, !.verified = FALSE])
  /\ UNCHANGED <<denied, history>>
-----------------------------------------------------------------------------
(* The automatic recovery                                                  *)

(* FAULT: the marks of an allowed draft survive the recovery.              *)
StrictlyStartedForced(e, action) == [Started(e, action) EXCEPT !.attempts = @ + 1]

(* The recovery goes by the strict gate again.                             *)
StrictlyStarted(e, action) ==
  [Started(e, action) EXCEPT !.attempts = @ + 1, !.forced = FALSE]

Entry(action) ==
  CASE action = "search" -> "continue"
    [] action = "reverify" -> "reverify"
    [] OTHER -> "regenerate"

(* _execute_quality_recovery_decision(): the action is recorded and saved  *)
(* before the pipeline runs it.                                            *)
Execute(e, action) ==
  LET s == StrictlyStarted(e, action) IN
  /\ Launch(Entry(action), s, s)
  /\ started' = started + 1
  /\ licence' = "none"
  /\ UNCHANGED finals

(* FAULT: the attempt is marked when it has been made.                     *)
FinalUnmarked(e) == [e EXCEPT !.forced = TRUE]

FinalMarked(e) == [e EXCEPT !.forced = TRUE, !.final = TRUE]

(* _run_exhausted_best_effort_generation(): once, with usable evidence and *)
(* no issue that another draft cannot mend.                                *)
MayRunFinal(e, f) ==
  /\ ~e.final
  /\ f.cards
  /\ f.reach # "none"
  /\ e.codes \cap {"broken", "user", "stale"} = {}

RunFinal(e) ==
  /\ Launch("regenerate", FinalMarked(e), FinalMarked(e))
  /\ finals' = IF finals = 0 THEN 1 ELSE 2
  /\ licence' = "final"
  /\ UNCHANGED started

Ask(e) == IF "focus" \in e.codes /\ "count" \notin e.codes THEN "focus" ELSE "quality"

(* _auto_recover_actionable_result(), and the question when it gives none. *)
(* Only a search can be started without evidence cards, and the draft of   *)
(* last resort only with best_effort_on_failure.                           *)
Recover(e) ==
  \E f \in Facts, enabled \in BOOLEAN :
    LET action == Decide(e, f, denied = Relaxations) IN
    \/ /\ action = "degrade"
       /\ IF enabled /\ MayRunFinal(e, f) THEN RunFinal(e)
          ELSE EndCommitted("blocked", e)
    \/ /\ action \in Executed
       /\ IF f.cards \/ action = "search" THEN Execute(e, action)
          ELSE End("needs_clarification", "quality", e)
    \/ /\ action = "ask"
       /\ End("needs_clarification", Ask(e), e)

(* _quality_clarification(): the gate failed, nothing was released, and    *)
(* the failure is not one of the program itself.                           *)
NeedsDecision(e) == e.gate \in {"pre", "failed"} /\ "broken" \notin e.codes

(* _persist_or_pause_result().                                             *)
Persist(e, status, hard) ==
  IF status = "waiting" THEN End("needs_clarification", "main", e)
  ELSE IF NeedsDecision(e) /\ ~hard /\ status \notin {"failed", "cancelled"}
  THEN Recover(e)
  ELSE EndCommitted(status, e)

(* derive_result_status() of the output, which has no result_status: the   *)
(* writing may have been blocked, the global evidence gate may have found  *)
(* a constraint of the user unmet.                                         *)
Derived(e) ==
  CASE e.gate = "released" -> {"partial"}
    [] e.gate \in {"pre", "failed"} -> {"blocked"}
    [] e.gate = "passed" -> {"success", "partial"}
    [] OTHER -> {"success", "partial", "blocked"}

(* The end of revise().                                                    *)
PersistRevision(e, hard) ==
  IF NeedsDecision(e) /\ ~hard THEN Recover(e)
  ELSE \E status \in Derived(e) : EndCommitted(status, e)
-----------------------------------------------------------------------------
(* The user's decision about a draft that failed its gate                  *)

Exhausted(e) == End("blocked", "none", e)

Regenerate(e) ==
  Launch("regenerate", Visible, e) /\ UNCHANGED <<started, finals>>

(* The decision that lowers the bar or lets an unvalidated draft through.  *)
ForceGenerate(e) == Regenerate([e EXCEPT !.forced = TRUE]) /\ licence' = "user"

Accept(e, input) ==
  /\ Regenerate([e EXCEPT !.input = input, !.attempts = @ + 1])
  /\ UNCHANGED licence

(* A conservative rewrite, perhaps of the evidence at hand only, by the    *)
(* strict gate.  The row keeps the mark until the pipeline commits.        *)
Rewrite(e) ==
  /\ \E expand \in {e.expand, FALSE} :
       Regenerate([e EXCEPT !.attempts = @ + 1, !.forced = FALSE, !.expand = expand])
  /\ licence' = IF licence = "none" THEN "none" ELSE "revoked"

(* A new classification.  (last_taxonomy_fingerprint, which should refuse  *)
(* one that changes nothing, is not part of the exported state.)           *)
Reclassify(e) == Regenerate([e EXCEPT !.attempts = @ + 1]) /\ UNCHANGED licence

Widen(e, input) ==
  /\ Launch("continue", Visible, [e EXCEPT !.input = input, !.attempts = @ + 1])
  /\ UNCHANGED history

(* Another search within the constraints; with enough cards for a finished *)
(* draft, a rewrite.  For a missing focus the ladder is asked again.       *)
Retry(e, f) ==
  LET open == [e EXCEPT !.expand = TRUE] IN
  IF row.ask = "focus"
  THEN LET action == Decide(open, f, denied = Relaxations) IN
       \/ action = "degrade" /\ Exhausted(open)
       \/ action = "search" /\ Execute(open, action)
  ELSE /\ \/ Launch("continue", Visible, [open EXCEPT !.attempts = @ + 1])
          \/ /\ e.gate = "failed"
             /\ Launch("regenerate", Visible, [e EXCEPT !.attempts = @ + 1])
       /\ UNCHANGED history

(* The relaxation a decision amounts to.                                   *)
Relaxes(choice) == IF choice = "force" THEN "accept" ELSE choice

OutOfBudget(e, choice) ==
  \/ ActionCount(e) >= ActionBudget
  \/ choice = "retry" /\ SearchStopped([e EXCEPT !.expand = TRUE])

(* The question stands, or the session is blocked and the answer is a      *)
(* decision.                                                               *)
AwaitsDecision ==
  /\ pc = "idle"
  /\ Visible # NoState
  /\ \/ row.status = "needs_clarification" /\ row.ask \in {"quality", "focus"}
     \/ row.status = "blocked" /\ NeedsDecision(Visible)

(* An answer that is no decision repeats the question.                     *)
Misunderstood ==
  /\ AwaitsDecision
  /\ End("needs_clarification", row.ask, Visible)
  /\ UNCHANGED <<denied, turns>>

Stop ==
  /\ AwaitsDecision
  /\ End("blocked", "none", Visible)
  /\ UNCHANGED <<denied, turns>>

(* A decision out of budget, or one the request itself forbids.            *)
Refuse(choice) ==
  /\ AwaitsDecision
  /\ OutOfBudget(Visible, choice) \/ Relaxes(choice) \in denied
  /\ Exhausted(Visible)
  /\ UNCHANGED <<denied, turns>>

(* The decision is carried out on e.                                       *)
CarryOut(choice, e, f, input) ==
  \/ choice = "force" /\ f.cards /\ ForceGenerate(e)
  \/ choice = "accept" /\ f.cards /\ Accept(e, input)
  \/ choice = "rewrite" /\ f.cards /\ Rewrite(e)
  \/ choice = "taxonomy" /\ f.cards /\ Reclassify(e)
  \/ choice \in {"time", "scope"} /\ Widen(e, input)
  \/ choice = "retry" /\ Retry(e, f)

(* _resume_after_quality_decision().  The user may take a restriction of   *)
(* the request back, in so many words.                                     *)
DecideQuality(choice, f, input) ==
  /\ AwaitsDecision
  /\ UserTurn
  /\ ~OutOfBudget(Visible, choice)
  /\ \/ /\ Relaxes(choice) \notin denied
        /\ CarryOut(choice, Visible, f, input)
        /\ UNCHANGED denied
     \/ /\ choice \in denied
        /\ CarryOut(choice, [Visible EXCEPT !.active = FALSE], f, input)
        /\ denied' = denied \ {choice}
-----------------------------------------------------------------------------
(* The pipeline as its caller sees it                                      *)

(* An assessment, of evidence that may be another than before.             *)
Assessed(e, gates, issues, verified) ==
  {[e EXCEPT !.input = x[1], !.gate = x[2], !.codes = x[3], !.verified = verified,
             !.fresh = TRUE] : x \in Inputs \X gates \X issues}

Issues == SUBSET GateCodes \ {{}}

(* The gate finds issues, and the draft may still be released where an     *)
(* unvalidated one was allowed.                                            *)
Judged(e) ==
  Assessed(e, {"passed"}, {{}}, TRUE)
  \cup Assessed(e, {"failed"} \cup (IF e.forced THEN {"released"} ELSE {}), Issues, TRUE)

(* Evidence or structure changed: nothing is judged any more, or the       *)
(* writing is refused beforehand.                                          *)
Gathered(e) ==
  Assessed(e, {"none"}, {{}}, FALSE) \cup Assessed(e, {"pre"}, Issues, FALSE)

(* A targeted search, after which the search may be given up.              *)
Searched(e) ==
  IF SearchViable(e)
  THEN {[e EXCEPT !.round = @ + 1, !.count = ActionCount(e) + 1, !.stopped = s,
                  !.gate = "none", !.codes = {}, !.verified = FALSE, !.fresh = TRUE] :
          s \in BOOLEAN}
  ELSE {}

(* A rewrite that came out worse: the previous draft, judged before, is    *)
(* kept.                                                                   *)
Kept(e) ==
  {[e EXCEPT !.rejected = @ \cup {e.input}] :
     g \in {e.gate} \cap {"passed", "failed", "released"}}

(* An action is committed, or the state the pipeline starts from.          *)
Commit ==
  /\ pc = "run"
  /\ \E e \in {work} \cup Judged(work) \cup Gathered(work) \cup Searched(work)
               \cup Kept(work) :
       work' = e /\ commit' = e
  /\ newer' = TRUE
  /\ UNCHANGED <<row, denied, pc, how, turns, history>>

(* What _finish() and the main loop let a status mean.                     *)
StatusOf(e) ==
  {"blocked", "failed", "cancelled", "waiting"}
  \cup (IF e.gate = "passed" /\ e.verified THEN {"completed", "partial"} ELSE {})
  \cup (IF e.gate = "released" /\ e.verified THEN {"partial"} ELSE {})

(* The pipeline returns, the recovery action it ran is settled, and the    *)
(* result is persisted.  hard: the failure is one of the program; cut: the *)
(* pipeline did not get through its actions.                               *)
Return(status, hard, better, cut) ==
  /\ pc = "run"
  /\ status \in StatusOf(work)
  /\ hard => status \in {"blocked", "failed"}
  /\ status \in {"failed", "cancelled"} => cut
  /\ cut => status \in {"blocked", "failed", "cancelled"}
  /\ LET e == IF status = "waiting" THEN work ELSE Completed(work, better, cut)
     IN  IF how = "revise" THEN PersistRevision(e, hard) ELSE Persist(e, status, hard)
  /\ UNCHANGED <<denied, turns>>

(* The pipeline raises: the row gets the state it had when the pipeline    *)
(* was started, stamped as the newest.  A resumed run and an answer to the *)
(* main agent are not guarded and leave the row as it is.                  *)
Raise(status) ==
  /\ pc = "run"
  /\ IF how \in {"resume", "answer"} THEN UNCHANGED <<row, newer>>
     ELSE Save(status, "none", row.e)
  /\ Over
  /\ UNCHANGED <<denied, commit, turns, history>>

(* The process dies, or has lost its lease and can save nothing.           *)
Crash ==
  /\ pc = "run"
  /\ Over
  /\ UNCHANGED <<row, denied, commit, newer, turns, history>>

User ==
  \/ \E forbidden \in {{}, Relaxations} : StartTurn(forbidden)
  \/ AnswerPreflight
  \/ \E input \in Inputs : AnswerMain(input)
  \/ Resume
  \/ \E input \in Inputs : Revise(input)
  \/ Misunderstood
  \/ Stop
  \/ \E choice \in Choices : Refuse(choice)
  \/ \E choice \in Choices, f \in Facts, input \in Inputs : DecideQuality(choice, f, input)

Execution ==
  \/ \E status \in Terminal \cup {"waiting"}, hard, better, cut \in BOOLEAN :
       Return(status, hard, better, cut)
  \/ Commit
  \/ \E status \in {"failed", "cancelled"} : Raise(status)
  \/ Crash

Next == User \/ Execution

Spec == Init /\ [][Next]_vars

(* Another pipeline takes over within the turn: its start saves the row.   *)
Relaunched == pc = "run" /\ pc' = "run" /\ ~newer'

(* No pipeline runs for ever (Delegation's RunEnds): a turn that is not    *)
(* over goes on to another pipeline.  This is weak fairness of Return.     *)
Returning == []<>(pc = "idle") \/ []<><<Relaunched>>_vars

FairSpec == Spec /\ Returning
-----------------------------------------------------------------------------
(* The automatic recovery of one request starts no more actions than its   *)
(* budget, whatever its pipelines did in between: crash, raise, be resumed *)
(* or be revised, or have the user decide; and the draft of last resort is *)
(* generated once.                                                         *)
RecoveryBounded == started <= ActionBudget /\ finals <= 1

(* An action that brought nothing is not run again on the same evidence    *)
(* and draft, across turns, resumptions and decisions of the user          *)
(* (docs/quality-gates.md:230).  Recomputing derived state and searching   *)
(* have bounds of their own.                                               *)
FutileOnce ==
  Visible # NoState =>
    \A i, j \in DOMAIN Visible.history :
      LET first == Visible.history[i]
          again == Visible.history[j]
      IN  /\ i < j
          /\ first.action = again.action
          /\ first.input = again.input
          /\ first.outcome \in {"no_progress", "failed"}
          => again.action \in {"recompute", "search"}

(* What a turn would go on with belongs to the request of the row, and a   *)
(* question that is answered by going on has something to go on with.      *)
StateOfRequest ==
  /\ Visible # NoState => Visible.topic = row.topic
  /\ row.ask \in {"main", "quality", "focus"} => Visible # NoState

(* A draft that failed its gate is delivered only if the user asked for it *)
(* or nothing was left to try, and no recovery by the strict gate was      *)
(* started since.                                                          *)
ReleaseLicensed ==
  row.status = "partial" /\ row.e.gate = "released" => licence # "none"

(* A conservative rewrite takes the permission back: "之前获准发布的       *)
(* best-effort 标记不能继续让本轮失败正文被当作可发布草稿"                 *)
(* (research_conversation_service.py:923).                                 *)
RewriteIsStrict ==
  row.status = "partial" /\ row.e.gate = "released" => licence # "revoked"

(* A turn ends, whatever its pipelines return: each recovery uses up budget.*)
TurnEnds == (pc # "idle") ~> (pc = "idle")

(* The automatic recovery of a request neither exceeds its budget nor      *)
(* spends it on what has already failed.                                   *)
RecoverySound == RecoveryBounded /\ FutileOnce /\ TypeOK
=============================================================================
