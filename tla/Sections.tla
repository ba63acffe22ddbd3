------------------------------ MODULE Sections ------------------------------
(***************************************************************************)
(* Writing the sections of the texts (app/tools/write_deliverable.py,      *)
(* app/deliverables/renderers/base_renderer.py and the loop over the texts *)
(* in generate_deliverables_node of app/agent/nodes/synthesis.py): a       *)
(* deterministic draft, the model's rewriting of each section, the repair  *)
(* of what failed, checkpoints of single sections that a targeted          *)
(* rewriting reuses, and the filling in of missing references.             *)
(*                                                                         *)
(* A text is what it cites and whether the checks of one section find      *)
(* nothing in it ("good"), something ("rough"), or it is the sentence that *)
(* fills an empty section ("bare").  Which of three attempts scores best,  *)
(* and which section's title is nearest to that of a failed one, is left   *)
(* open; a conservative rewriting, whose draft states the claims           *)
(* themselves, and the wording of drafts are left out.                     *)
(***************************************************************************)
EXTENDS Integers, Sequences, FiniteSets, SequencesExt, FiniteSetsExt

CONSTANTS
  Outline,   \* the planned sections: sequence of [text, role]
  Allotments, \* BOUND: what plan and allocation may give each section, [papers, given]
  Statable,  \* papers with a claim on their card that a draft may state
  Versions,  \* BOUND on the claims a section is constrained to
  Part,      \* the planned citations a rough section keeps, in percent
  Required,  \* required_reference_count
  MaxWrites, \* BOUND on the writings
  None

Ids == DOMAIN Outline
Texts == {Outline[i].text : i \in Ids}
Peers(t) == {i \in Ids : Outline[i].text = t}

(* The papers of the sections, and what a text is: what it cites, what the *)
(* checks of a section made of it, whether it was reused, and its prompt.  *)
Known == UNION UNION {{a.papers[i] : i \in Ids} \cup {a.given[i] : i \in Ids} : a \in Allotments}
Prompts ==
  [papers : SUBSET Known, given : SUBSET Known, claims : {1} \cup Versions, draft : SUBSET Known]
SectionTexts ==
  [cites : SUBSET Known, kind : {"good", "rough", "bare"}, reused : BOOLEAN, from : Prompts]

ASSUME SectionsAssumption ==
  /\ \A i \in Ids : Outline[i].role \in {"theme", "overview", "general"}
  /\ Cardinality(Texts) \in Nat /\ Texts = 1 .. Cardinality(Texts)
  /\ MaxWrites \in Nat /\ Required \in Nat /\ Part \in 1 .. 100
  /\ \A a \in Allotments :
       a.papers \in [Ids -> SUBSET Known] /\ a.given \in [Ids -> SUBSET Known]
ASSUME NoneAssumption == (\A S \in SUBSET Known : None # S) /\ None \notin SectionTexts

VARIABLES
  planned,    \* build_writing_plan: the papers of each section
  many,       \* so many references that sections are written one by one
  given,      \* citation_allocation_plans: the papers of each section
  claims,     \* what claim_plans constrain each section to
  targets,    \* target_section_ids; none: everything is written
  force,      \* force_section_rewrite
  at,         \* the text being written, then completed; 0: no writing
  filling,    \* the texts are written, references are filled in
  supports,   \* supporting_paper_ids of the plan in use; None: removed
  texts,      \* the sections written: [cites, kind, reused, from]
  candidates, \* section_candidate_checkpoints: [text, print, valid]
  verified,   \* section_checkpoints
  writes

inputs == <<planned, many, given, claims, targets, force>>
sectionVars == <<inputs, at, filling, supports, texts, candidates, verified, writes>>

Nothing == [i \in Ids |-> None]

-----------------------------------------------------------------------------
(* The papers of the cards the writer of a text is given: _writer_inputs.  *)
Prompted(t, plan) ==
  LET allocated == UNION {given[i] : i \in Peers(t)}
      ofPlan == UNION {plan[i] : i \in {j \in Peers(t) : plan[j] # None}}
  IN IF allocated # {} THEN allocated ELSE ofPlan

(* render_fallback: a section states a claim of each of its papers.        *)
Stated(i, plan) == plan[i] \cap Statable \cap Prompted(Outline[i].text, plan)

(* The draft of a section: the overview of a research status leaves the    *)
(* papers of the themes to them.                                           *)
Themes(t, plan) ==
  UNION {plan[j] : j \in {k \in Peers(t) : Outline[k].role = "theme" /\ plan[k] # None}}
Draft(i, plan) ==
  Stated(i, plan) \ (IF Outline[i].role = "overview" THEN Themes(Outline[i].text, plan) ELSE {})

(* What the prompt of a section is made of.                                *)
Prompt(i, plan) ==
  [papers |-> plan[i], given |-> given[i], claims |-> claims[i], draft |-> Draft(i, plan)]

(* FAULT: the claims are not in the fingerprint.                           *)
FingerprintBlind(i, plan) ==
  [papers |-> plan[i], given |-> given[i], draft |-> Draft(i, plan)]

(* _section_input_fingerprint                                              *)
Fingerprint(i, plan) == Prompt(i, plan)

(* _reusable_checkpoint_sections: a section that is not a target, whose    *)
(* checkpoint has the present fingerprint.                                 *)
Reusable(i, plan) ==
  /\ targets # {} /\ i \notin targets
  /\ verified[i] # None /\ verified[i].print = Fingerprint(i, plan)

Written(i, cites, kind) ==
  [cites |-> cites, kind |-> kind, reused |-> FALSE, from |-> Prompt(i, planned)]
Forced(i) == force /\ (targets = {} \/ i \in targets)

-----------------------------------------------------------------------------
(* FAULT: a rough section may cite what was not asked for.                 *)
RoughWithExtra(i, required) ==
  {Written(i, cites, "rough") : cites \in {c \in SUBSET UNION {planned[j] : j \in Ids} :
     100 * Cardinality(c \cap required) >= Part * Cardinality(required)}}

(* _is_safe_partial_section: most of the citations, and no other.          *)
Rough(i, required) ==
  {Written(i, cites, "rough") : cites \in {c \in SUBSET required :
     100 * Cardinality(c) >= Part * Cardinality(required)}}

(* rewrite: what a section may become, and whether it failed.  A draft     *)
(* that cites nothing stays; an error of the thread leaves the draft.      *)
Outcomes(i) ==
  LET required == Draft(i, planned)
  IN IF Reusable(i, planned)
     THEN {[text |-> [verified[i].text EXCEPT !.reused = TRUE], failed |-> FALSE]}
     ELSE IF required = {} /\ ~Forced(i)
     THEN {[text |-> Written(i, {}, "good"), failed |-> FALSE]}
     ELSE {[text |-> x, failed |-> FALSE] :
             x \in {Written(i, required, "good")} \cup Rough(i, required)}
          \cup {[text |-> x, failed |-> TRUE] :
             x \in {None, Written(i, required, "good"), Written(i, required, "rough")}}

(* The routes a failed section's papers may move to: themes, or else any.  *)
Survivors(t, done) ==
  LET alive == {i \in Peers(t) : ~done[i].failed /\ done[i].text # None}
      themes == {i \in alive : Outline[i].role = "theme"}
  IN IF themes # {} THEN themes ELSE alive

(* The papers that the draft of a section states and its text does not     *)
(* cite, or all of them when it failed.                                    *)
Moved(i, outcome) ==
  Draft(i, planned) \ (IF outcome.failed \/ outcome.text = None THEN {} ELSE outcome.text.cites)

(* _merge_failed_or_missing_sections: they become papers of a survivor;    *)
(* the sentences that would carry them there are made of the fields the    *)
(* writer's cards no longer have, so that no text is written again.  A     *)
(* failed section without papers goes.                                     *)
Merged(t, done) ==
  LET among == Survivors(t, done)
  IN IF among = {} THEN {supports}
     ELSE {[i \in Ids |->
              IF i \notin Peers(t) THEN supports[i]
              ELSE IF done[i].failed /\ Draft(i, planned) = {} THEN None
              ELSE supports[i] \cup UNION {Moved(j, done[j]) : j \in {k \in Peers(t) : to[k] = i}}] :
           to \in [Peers(t) -> among]}

(* FAULT: a section without a text stays without.                          *)
FilledNot(i, done, rescued) ==
  IF done[i].text # None THEN done[i].text
  ELSE IF i \in rescued THEN Written(i, Draft(i, planned), "rough") ELSE None

(* When no section survived, a draft that is readable is kept; what is     *)
(* still empty gets a sentence (_conservative_evidence_section).           *)
Filled(i, done, rescued) ==
  IF done[i].text # None THEN done[i].text
  ELSE IF i \in rescued THEN Written(i, Draft(i, planned), "rough")
  ELSE Written(i, {}, "bare")

(* _write_sections_in_chinese: [plan, texts] of a text.                    *)
Rewritten(t) ==
  {done \in [Peers(t) -> UNION {Outcomes(i) : i \in Peers(t)}] :
     \A i \in Peers(t) : done[i] \in Outcomes(i)}

Rescuable(t, done) ==
  IF Survivors(t, done) = {} THEN SUBSET {i \in Peers(t) : done[i].text = None} ELSE {{}}

Completed(t, done) ==
  {[plan |-> plan, texts |-> [i \in Ids |->
      IF i \notin Peers(t) THEN texts[i]
      ELSE IF plan[i] = None THEN None ELSE Filled(i, done, rescued)]] :
     plan \in Merged(t, done), rescued \in Rescuable(t, done)}

BySection(t) == UNION {Completed(t, done) : done \in Rewritten(t)}

(* BaseRenderer.render of the text as a whole: a text that its validation  *)
(* accepts, or the drafts.                                                 *)
AsWhole(t) ==
  LET allowed == UNION {supports[i] \cup given[i] : i \in Peers(t)}
      mine == [Peers(t) -> SUBSET allowed]
      drafts == [i \in Peers(t) |-> Draft(i, planned)]
  IN {[plan |-> supports, texts |-> [i \in Ids |->
         IF i \in Peers(t) THEN Written(i, f[i], kind) ELSE texts[i]]] :
        f \in mine \cup {drafts}, kind \in {"good", "rough"}}

-----------------------------------------------------------------------------
(* _reuse_and_checkpoint_sections: the merging may have given a section    *)
(* the papers its checkpoint was taken with, which then replaces the text. *)
Replaced(t, plan, written) ==
  [i \in Ids |-> IF i \in Peers(t) /\ plan[i] # None /\ written[i] # None /\ Reusable(i, plan)
                 THEN [verified[i].text EXCEPT !.reused = TRUE] ELSE written[i]]

(* The candidate of a section, judged by the papers it was allocated.      *)
Candidate(i, plan, text) ==
  [text |-> [text EXCEPT !.reused = FALSE], print |-> Fingerprint(i, plan),
   valid |-> text.kind = "good" /\ text.cites = given[i]]

Candidates(t, plan, written) ==
  [i \in Ids |-> IF i \in Peers(t) /\ plan[i] # None /\ written[i] # None
                 THEN Candidate(i, plan, written[i]) ELSE candidates[i]]

(* promote_section_checkpoints; flagged: a floor missed or a sentence that *)
(* occurs twice.                                                           *)
Promoted(t, plan, next, flagged) ==
  [i \in Ids |-> IF /\ i \in Peers(t) \ flagged /\ plan[i] # None
                    /\ next[i] # None /\ next[i].valid
                 THEN next[i] ELSE verified[i]]

-----------------------------------------------------------------------------
SectionsInit ==
  /\ planned \in {a.papers : a \in Allotments}
  /\ many \in BOOLEAN /\ given = [i \in Ids |-> {}] /\ claims = [i \in Ids |-> 1]
  /\ targets = {} /\ force = FALSE /\ at = 0 /\ filling = FALSE
  /\ supports = planned /\ texts = Nothing
  /\ candidates = Nothing /\ verified = Nothing /\ writes = 0

(* What went before a writing: the plan is made anew, also for a few       *)
(* targets, there is another allocation, other claims, and what a recovery *)
(* asks to be written again.                                               *)
Start ==
  /\ at = 0 /\ writes < MaxWrites
  /\ writes' = writes + 1 /\ at' = 1 /\ filling' = FALSE
  /\ \E a \in Allotments : planned' = a.papers /\ given' = a.given
  /\ supports' = planned' /\ texts' = Nothing
  /\ \/ UNCHANGED claims
     \/ \E i \in Ids, version \in Versions : claims' = [claims EXCEPT ![i] = version]
  /\ targets' \in IF writes = 0 THEN {{}} ELSE {{}} \cup {{i} : i \in Ids}
  /\ force' \in IF writes = 0 THEN {FALSE} ELSE BOOLEAN
  /\ UNCHANGED <<many, candidates, verified>>

(* One turn of the loop over the texts.  Cleaning a text may join a        *)
(* heading to the lines around it: nothing is replaced or checkpointed     *)
(* then, and older candidates are promoted again.                          *)
WriteText ==
  /\ at \in Texts /\ ~filling
  /\ \E split \in BOOLEAN :
     \E answer \in IF many \/ \E i \in Peers(at) : Reusable(i, planned)
                   THEN BySection(at) ELSE AsWhole(at) :
     \E written \in {IF split THEN Replaced(at, answer.plan, answer.texts) ELSE answer.texts} :
     \E next \in {IF split THEN Candidates(at, answer.plan, written) ELSE candidates} :
     \E flagged \in SUBSET {i \in Peers(at) : next[i] # None /\ next[i].valid} :
       /\ supports' = answer.plan /\ texts' = written /\ candidates' = next
       /\ verified' = Promoted(at, answer.plan, next, flagged)
  /\ IF at + 1 \in Texts THEN at' = at + 1 /\ UNCHANGED filling
     ELSE at' = 1 /\ filling' = TRUE
  /\ UNCHANGED <<inputs, writes>>

-----------------------------------------------------------------------------
Cited(among) == UNION {texts[i].cites : i \in {j \in among : texts[j] # None}}

(* What a text may cite when it is validated again: the allocation at hand *)
(* is that of the last text.                                               *)
Admitted(t) ==
  UNION {supports[i] : i \in {j \in Peers(t) : supports[j] # None}}
    \cup UNION {given[i] : i \in Peers(Max(Texts))}

(* What the references lack, taken from the papers allocated to the text   *)
(* that no text cites.                                                     *)
Missing(t) ==
  LET short == Required - Cardinality(Cited(Ids))
      open == UNION {given[i] : i \in Peers(t)} \ Cited(Ids)
  IN {m \in SUBSET open : short > 0 /\ m # {} /\ Cardinality(m) = Min({short, Cardinality(open)})}

(* _backfill_global_citation_union, one text: the missing papers are put   *)
(* into it, unless an answer is refused or lacking.                        *)
Backfill ==
  /\ filling /\ at \in Texts
  /\ \/ UNCHANGED texts
     \/ \E m \in Missing(at) : \E into \in [m -> {j \in Peers(at) : texts[j] # None}] :
          /\ m \cup Cited(Peers(at)) \subseteq Admitted(at)
          /\ texts' = [i \in Ids |-> IF i \notin Range(into) THEN texts[i]
               ELSE [texts[i] EXCEPT !.cites = @ \cup {p \in m : into[p] = i}]]
  /\ IF at + 1 \in Texts THEN at' = at + 1 /\ UNCHANGED filling
     ELSE at' = 0 /\ filling' = FALSE
  /\ UNCHANGED <<inputs, supports, candidates, verified, writes>>

SectionsNext == Start \/ WriteText \/ Backfill

-----------------------------------------------------------------------------
(* A section that is reused instead of written again was written from the  *)
(* allocation and the claims its prompt would have now and from papers the *)
(* plan in use still gives it, stating of them all that it would state     *)
(* now, and it cites its whole allocation - although the fingerprint of a  *)
(* checkpoint is taken after a merging that changed the plan its text was  *)
(* written from, and both the plan and the merging may differ the next     *)
(* time (write_deliverable.py).                                            *)
ReuseCurrent ==
  \A i \in Ids : texts[i] # None =>
    LET from == texts[i].from
        now == Prompt(i, supports)
    IN /\ from.given = now.given /\ from.claims = now.claims
       /\ from.papers \subseteq now.papers
       /\ now.draft \cap from.papers \subseteq from.draft
       /\ texts[i].reused => now.given \subseteq texts[i].cites

(* Whether it is written, reused, rescued or filled in, no text cites a    *)
(* paper that neither its plan nor its allocation has.                     *)
CitesLicensed ==
  \A t \in Texts : Cited(Peers(t)) \subseteq UNION {planned[i] \cup given[i] : i \in Peers(t)}

(* A section the plan asks for and that has papers to cite has a text when *)
(* the writing is over, however often its rewriting failed.                *)
SectionsStay ==
  at = 0 /\ writes > 0 =>
    \A i \in Ids : texts[i] = None => Draft(i, planned) = {}
=============================================================================
