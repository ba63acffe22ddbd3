--------------------------- MODULE QualityRecovery ---------------------------
(***************************************************************************)
(* The diagnosis of a draft that failed its quality gate, the ladder that  *)
(* chooses the recovery action, and the settlement of what an action       *)
(* achieved (app/agent/generation_recovery.py,                             *)
(* app/agent/quality_recovery_policy.py, app/agent/evidence_recovery.py).  *)
(*                                                                         *)
(* The functions are pure: they read the research state and return a       *)
(* decision or the next state.  A blocking issue stands for its category,  *)
(* an input fingerprint for the evidence, structure and draft it covers.   *)
(***************************************************************************)
EXTENDS Integers, Sequences

CONSTANTS
  Inputs,          \* input fingerprints (BOUND on how often the evidence changes)
  ActionBudget,    \* recovery_total_action_budget
  MaxSearchRounds  \* evidence_recovery_max_rounds

ASSUME RecoveryAssumption == ActionBudget \in Nat /\ MaxSearchRounds \in Nat

(* _issue_category(); "broken" is deliverable_generation_failed, a section *)
(* issue that no recovery can mend.                                        *)
Codes == {"user", "stale", "unverified", "structure", "count", "focus",
          "metadata", "claim", "section", "broken", "other"}

Executed ==
  {"recompute", "reverify", "structure", "refresh", "reallocate", "rewrite",
   "claims", "search"}
Actions == Executed \cup {"continue", "ask", "degrade"}

HistoryEntry ==
  [action : Executed, input : Inputs, codes : SUBSET Codes,
   outcome : {"started", "improved", "no_progress", "failed"}]

(* What the ladder reads besides the issues: how many of the papers the    *)
(* requested number asks for are in scope ("confirmed"), have evidence     *)
(* ("eligible") or are authorised by a claim; whether a verdict is missing *)
(* for a claim that has evidence; whether there is any evidence card.      *)
Facts ==
  [reach : {"none", "confirmed", "eligible", "authorized"},
   pending : BOOLEAN, cards : BOOLEAN]

(* Of the research state, what recovery reads and writes.                  *)
ResearchState ==
  [topic : Nat,                  \* the request the state belongs to
   input : Inputs,               \* input_fingerprint
   gate : {"none", "passed", "pre", "failed", "released"}, \* quality_gate
   codes : SUBSET Codes,         \* its blocking issues
   verified : BOOLEAN,           \* autonomous_verified_fingerprint is current
   fresh : BOOLEAN,              \* _draft_fingerprint changed since the action began
   count : Nat,                  \* recovery_action_count
   attempts : Nat,               \* quality_recovery_attempts
   round : Nat,                  \* recovery_round
   history : Seq(HistoryEntry),  \* quality_recovery_history
   rejected : SUBSET Inputs,     \* recovery_candidate_rejections, of writing
   active : BOOLEAN,             \* active_quality_recovery
   expand : BOOLEAN,             \* allow_evidence_expansion
   stopped : BOOLEAN,            \* evidence_recovery_status is EXHAUSTED
   forced : BOOLEAN,             \* best_effort_generation
   final : BOOLEAN]              \* automatic_best_effort_attempted

(* A rung of a ladder: the action it names, where it holds.                *)
Rung(holds, action) == IF holds THEN action ELSE "next"

First(rungs) ==
  rungs[CHOOSE i \in DOMAIN rungs :
          rungs[i] # "next" /\ \A j \in 1 .. i - 1 : rungs[j] = "next"]

Larger(a, b) == IF a < b THEN b ELSE a
-----------------------------------------------------------------------------
(* Actions used up, those of both kinds of recovery.                       *)
ActionCount(e) == Larger(e.count, e.attempts + e.round)

Remaining(e) == Larger(0, ActionBudget - ActionCount(e))

(* route_recovery_stop_reason(), evidence may be added at all.             *)
SearchStopped(e) ==
  e.round >= MaxSearchRounds \/ ActionCount(e) >= ActionBudget \/ e.stopped

SearchViable(e) == e.expand /\ ~SearchStopped(e)

(* FAULT: an action that failed outright may be tried again at once.       *)
UsedWithoutProgress(e) ==
  {e.history[i].action : i \in {j \in DOMAIN e.history :
      e.history[j].input = e.input /\ e.history[j].outcome = "no_progress"}}

(* The actions that brought nothing for the same evidence and draft; a     *)
(* rejected candidate counts as a rewrite.                                 *)
Used(e) ==
  {e.history[i].action : i \in {j \in DOMAIN e.history :
      /\ e.history[j].input = e.input
      /\ e.history[j].outcome \in {"no_progress", "failed"}}}
  \cup (IF e.input \in e.rejected THEN {"rewrite"} ELSE {})

May(e, action) == action \notin Used(e)

MaySearch(e) == SearchViable(e) /\ May(e, "search")

(* Too few papers: what can be done with those at hand comes first.        *)
CountLadder(e, f) ==
  << Rung(f.reach = "confirmed" /\ May(e, "refresh"), "refresh"),
     Rung(f.reach = "authorized" /\ May(e, "reallocate"), "reallocate"),
     Rung(e.codes \cap {"claim", "section", "broken"} # {} /\ May(e, "rewrite"), "rewrite"),
     Rung(f.reach \in {"eligible", "authorized"} /\ May(e, "claims"), "claims"),
     Rung(MaySearch(e), "search"),
     Rung(e.expand /\ SearchStopped(e), "degrade"),
     "ask" >>

(* A focus of the user without evidence: only a search can bring any.      *)
FocusLadder(e) ==
  << Rung(MaySearch(e), "search"),
     Rung(e.expand /\ SearchStopped(e), "degrade"),
     "ask" >>

MetadataLadder(e) ==
  << Rung(May(e, "refresh"), "refresh"), Rung(MaySearch(e), "search"), "ask" >>

(* The search that follows fruitless rewriting is not a used action here.  *)
WritingLadder(e) ==
  << Rung(May(e, "rewrite"), "rewrite"),
     Rung(May(e, "claims"), "claims"),
     Rung(SearchViable(e), "search"),
     "ask" >>

Ladder(e, f) ==
  << Rung("user" \in e.codes, "ask"),
     Rung("stale" \in e.codes, "recompute"),
     Rung("unverified" \in e.codes /\ May(e, "reverify") /\ f.pending, "reverify"),
     Rung("structure" \in e.codes /\ May(e, "structure"), "structure"),
     Rung("count" \in e.codes, First(CountLadder(e, f))),
     Rung("focus" \in e.codes, First(FocusLadder(e))),
     Rung("metadata" \in e.codes, First(MetadataLadder(e))),
     Rung(e.codes \cap {"claim", "section", "broken"} # {}, First(WritingLadder(e))),
     Rung("unverified" \in e.codes, "degrade"),
     Rung(MaySearch(e), "search"),
     "ask" >>

(* decide_generation_recovery().  strict: the user ruled every relaxation  *)
(* out, so there is nothing to ask unless something concrete is missing.   *)
(* "degrade" is the decision EXHAUSTED.                                    *)
Decide(e, f, strict) ==
  IF e.codes = {} THEN "continue"
  ELSE IF Remaining(e) = 0 THEN "degrade"
  ELSE LET action == First(Ladder(e, f)) IN
       IF action = "ask" /\ "user" \notin e.codes /\ strict THEN "degrade" ELSE action
-----------------------------------------------------------------------------
(* start_recovery_action().                                                *)
Started(e, action) ==
  [e EXCEPT
     !.history = Append(@, [action |-> action, input |-> e.input,
                            codes |-> e.codes, outcome |-> "started"]),
     !.count = ActionCount(e) + 1,
     !.active = TRUE,
     !.fresh = FALSE]

Last(e) == e.history[Len(e.history)]

(* The quality was assessed anew: before writing from the cards at hand,   *)
(* which must have changed; after writing by a validation of this draft    *)
(* that is not the one the action started from.                            *)
Reassessed(e) ==
  \/ /\ e.gate = "pre"
     /\ e.input # Last(e).input
     /\ Last(e).codes \subseteq {"count", "focus"}
  \/ /\ e.gate \in {"passed", "failed", "released"}
     /\ e.verified
     /\ e.fresh

(* complete_recovery_action() and what the pipeline adds when the run did  *)
(* not get through its actions (cut).  better: no number got worse and,    *)
(* with the same issues, one got smaller.                                  *)
Completed(e, better, cut) ==
  LET improved == Reassessed(e) /\ better /\ e.codes \subseteq Last(e).codes
      outcome == IF cut THEN "failed" ELSE IF improved THEN "improved" ELSE "no_progress"
  IN  IF e.active /\ e.history # << >>
      THEN [e EXCEPT !.active = FALSE, !.history[Len(e.history)].outcome = outcome]
      ELSE e
=============================================================================
