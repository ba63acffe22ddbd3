------------------------------ MODULE Pipeline ------------------------------
(***************************************************************************)
(* The research operations of the autonomous loop and the state they share *)
(* (app/agent/graph.py, action_registry.py, main_loop.py,                  *)
(* evidence_invalidation.py, nodes/retrieval.py, extraction.py,            *)
(* verification.py, synthesis.py): papers are found, fetched and read,     *)
(* ordered into routes and claims, a text is written, judged and handed    *)
(* out; a session is run again to continue, to regenerate or to verify.    *)
(*                                                                         *)
(* A detail is one of a few contents; a card remembers the detail it was   *)
(* read from, routes and claims the cards they rest on, and "take" tells   *)
(* two answers of the model apart.  An operation that fails changes        *)
(* nothing, so it is a stuttering step.  Left out: searches without a      *)
(* text (intent search_papers), the hybrid retrieval profile, the          *)
(* diagnosis and the revision of the scope.                                *)
(***************************************************************************)
EXTENDS Integers, Sequences, FiniteSets

CONSTANTS
  Papers,
  Contents,  \* what a paper's metadata may say
  Takes,     \* different answers of the model to one question
  Plans,     \* different plans of the claims
  Issues,    \* what the quality gate may find in a text
  Unsafe,    \* those that no best effort releases
  Count,     \* the issue of too few references
  MaxTexts,  \* BOUND on the texts written
  MaxRuns,   \* BOUND on the runs of the session
  None

ASSUME PipelineAssumption ==
  /\ Unsafe \subseteq Issues
  /\ Count \in Issues \ Unsafe
  /\ MaxTexts \in Nat

VARIABLES
  mode,        \* agent_operation_mode; "idle" between two runs
  queue,       \* agent_mandatory_actions
  bestEffort,  \* best_effort_generation
  outcome,     \* result_status
  runs,        \* the runs so far
  ranked,      \* ranked_papers
  details,     \* paper_details
  cards,       \* paper_cards
  rebuild,     \* pending_card_rebuild_ids
  fresh,       \* incremental_new_paper_ids
  incremental, \* incremental_retrieval
  recovery,    \* pending_evidence_recovery
  routes,      \* validated_routes
  taxonomy,    \* dynamic_taxonomy
  sufficiency, \* global_evidence_gate: the cards it was computed from
  products,    \* _GENERATION_PRODUCT_KEYS
  previous,    \* pending_generation_previous
  rejected,    \* recovery_candidate_rejections
  texts,       \* the texts so far
  verdict,     \* history: the last judgement on each text
  settled      \* history: the text the comparison left, while its source stands

control == <<mode, queue, bestEffort, outcome, runs>>
evidence == <<ranked, details, cards, rebuild, fresh, incremental, recovery>>
analysis == <<routes, taxonomy, sufficiency>>
drafts == <<products, previous, rejected, texts>>
history == <<verdict, settled>>
vars == <<control, evidence, analysis, drafts, history>>

Detailed == {p \in Papers : details[p] # None}
Carded == {p \in Papers : cards[p] # None}
NoPapers == [p \in Papers |-> None]

(* The products of no text; text 0 stands for an empty review.             *)
Blank ==
  [text |-> 0, claims |-> None, gate |-> "none", issues |-> {},
   blocked |-> FALSE, pending |-> FALSE, verified |-> None]

(* No text was saved for a comparison.                                     *)
Unsaved == [products |-> Blank, input |-> <<>>, source |-> <<>>]

Unjudged == [details |-> None, cards |-> None, claims |-> None, issues |-> {}]

Init ==
  /\ mode = "initial" /\ queue = <<>> /\ bestEffort = FALSE
  /\ outcome = "running" /\ runs = 1
  /\ ranked = {} /\ details = NoPapers /\ cards = NoPapers
  /\ rebuild = {} /\ fresh = {} /\ incremental = FALSE /\ recovery = FALSE
  /\ routes = None /\ taxonomy = None /\ sufficiency = None
  /\ products = Blank /\ previous = Unsaved /\ rejected = {} /\ texts = 0
  /\ verdict = [t \in 1 .. MaxTexts |-> Unjudged] /\ settled = None

-----------------------------------------------------------------------------
(* What a judgement holds for: _draft_fingerprint.  Routes are not in it.  *)
Fingerprint(p) ==
  [text |-> p.text, claims |-> p.claims, gate |-> p.gate, issues |-> p.issues,
   details |-> details, cards |-> cards]

(* What a comparison of two texts holds for: comparison_source.            *)
Source == <<details, cards, products.claims, routes, taxonomy>>

(* What a rewriting starts from: input_fingerprint.                        *)
Structure == IF routes # None THEN routes ELSE taxonomy
Input(p) == <<cards, Structure, p.text, p.claims>>

-----------------------------------------------------------------------------
(* A regeneration fetches only what it was told to refresh.                *)
Refreshing == mode = "regeneration" /\ queue # <<>> /\ Head(queue) = "fetch"

(* allowed_actions *)
Allowed(a) ==
  IF mode = "verification_only" THEN a = "validate" /\ products.text # 0
  ELSE CASE a = "search" -> mode # "regeneration"
         [] a = "targeted_search" -> mode # "regeneration" /\ ~recovery /\ Carded # {}
         [] a = "fetch" -> ranked # {} /\ (mode = "regeneration" => Refreshing)
         [] a = "extract" -> Detailed # {}
         [] a \in {"routes", "cluster", "claims"} -> Carded # {}
         [] a = "write" -> /\ Carded # {} /\ products.claims # None
                           /\ ~products.pending /\ Input(products) \notin rejected
         [] a = "validate" -> products.text # 0

(* recovery_handoff_action *)
Handoff ==
  IF Detailed # {} /\ rebuild # {} THEN "extract"
  ELSE IF ~recovery THEN "none"
  ELSE IF ~(ranked \subseteq Detailed) THEN "fetch"
  ELSE IF ~(Detailed \subseteq Carded) THEN "extract"
  ELSE IF Carded # {} THEN "routes" ELSE "none"
Enforced == queue = <<>> /\ Handoff # "none" /\ Allowed(Handoff)

(* What the main loop may delegate next; the operation is then the only    *)
(* one of the delegation.                                                  *)
Chosen(a) ==
  /\ mode # "idle"
  /\ Allowed(a)
  /\ queue # <<>> => Head(queue) = a
  /\ Enforced => Handoff = a
Consume ==
  /\ queue' = IF queue = <<>> THEN queue ELSE Tail(queue)
  /\ UNCHANGED <<mode, bestEffort, outcome, runs>>

-----------------------------------------------------------------------------
(* The end of invalidate_changed_evidence, in the operation's own commit.  *)
Invalidate(changed) ==
  /\ routes' = IF changed THEN None ELSE routes
  /\ products' = IF changed THEN Blank ELSE products
  /\ previous' = IF changed THEN Unsaved ELSE previous
  /\ settled' = IF changed THEN None ELSE settled

Search(found) ==
  /\ Chosen("search")
  /\ ranked' = found
  /\ Consume
  /\ UNCHANGED <<details, cards, rebuild, fresh, incremental, recovery, analysis,
                 drafts, history>>

(* search_once *)
TargetedSearch(found) ==
  /\ Chosen("targeted_search")
  /\ ranked' = ranked \cup found
  /\ incremental' = TRUE /\ recovery' = TRUE
  /\ Consume
  /\ UNCHANGED <<details, cards, rebuild, fresh, analysis, drafts, history>>

(* fetch_detail_node: what of the details is still admitted is kept, as    *)
(* far as this is an increment or nothing is confirmed, and what was read  *)
(* of the others, and passed once more, is added.                          *)
Kept(confirmed, admitted) ==
  IF incremental \/ ~confirmed THEN Detailed \cap admitted ELSE {}
Fetched(confirmed, admitted, read) ==
  [p \in Papers |-> IF p \in Kept(confirmed, admitted) THEN details[p]
                    ELSE IF confirmed /\ p \in ranked THEN read[p] ELSE None]

(* FAULT: a card stays with its paper, whatever the new detail says.       *)
StillValidOfPaper(next) == [p \in Papers |-> IF next[p] # None THEN cards[p] ELSE None]

(* Cards whose detail did not change.                                      *)
StillValid(next) == [p \in Papers |-> IF next[p] = details[p] THEN cards[p] ELSE None]

Awaited(next, valid) == {p \in Papers : next[p] # None /\ valid[p] = None}

Fetch(confirmed, admitted, read) ==
  /\ Chosen("fetch")
  /\ LET next == Fetched(confirmed, admitted, read)
         changed == next # details
     IN /\ details' = next
        /\ cards' = IF changed THEN StillValid(next) ELSE cards
        /\ rebuild' = IF changed /\ (Carded # {} \/ rebuild # {})
                        THEN Awaited(next, cards') ELSE rebuild
        /\ fresh' = IF confirmed /\ incremental
                      THEN {p \in Papers : next[p] # None} \ Kept(confirmed, admitted)
                      ELSE fresh
        /\ Invalidate(changed)
  /\ Consume
  /\ UNCHANGED <<ranked, incremental, recovery, taxonomy, sufficiency, rejected,
                 texts, verdict>>

(* extract_card_node: an increment and a rebuilding reuse cards.           *)
Reused(p) ==
  /\ incremental \/ rebuild # {}
  /\ cards[p] # None /\ details[p] # None
  /\ p \notin fresh
Extract(take) ==
  /\ Chosen("extract")
  /\ cards' = [p \in Papers |-> IF Reused(p) THEN cards[p]
                 ELSE IF details[p] # None THEN [of |-> details[p], take |-> take]
                 ELSE None]
  /\ rebuild' = {p \in rebuild : cards'[p] = None}
  /\ Invalidate(cards' # cards)
  /\ Consume
  /\ UNCHANGED <<ranked, details, fresh, incremental, recovery, taxonomy, sufficiency,
                 rejected, texts, verdict>>

Unsettled == settled' = IF Source' = Source THEN settled ELSE None

(* _validate_routes: without a route the papers are clustered; analysis    *)
(* settles a targeted search.                                              *)
ValidateRoutes(found, take) ==
  /\ Chosen("routes")
  /\ routes' = IF found THEN [cards |-> cards, take |-> take] ELSE None
  /\ taxonomy' = [cards |-> cards, take |-> take]
  /\ sufficiency' = IF recovery THEN cards ELSE sufficiency
  /\ recovery' = FALSE
  /\ incremental' = (incremental /\ ~recovery)
  /\ Consume
  /\ UNCHANGED <<ranked, details, cards, rebuild, fresh, drafts, verdict>>
  /\ Unsettled

Cluster(take) ==
  /\ Chosen("cluster")
  /\ taxonomy' = [cards |-> cards, take |-> take]
  /\ Consume
  /\ UNCHANGED <<evidence, routes, sufficiency, drafts, verdict>>
  /\ Unsettled

(* _claims: the plan, then the evidence gates; the last may fail.          *)
PlanClaims(plan, computed) ==
  /\ Chosen("claims")
  /\ products' = [products EXCEPT !.claims =
       IF Structure = None THEN None
       ELSE [cards |-> cards, on |-> Structure, plan |-> plan]]
  /\ sufficiency' = IF computed THEN cards ELSE None
  /\ Consume
  /\ UNCHANGED <<evidence, routes, taxonomy, previous, rejected, texts, verdict>>
  /\ Unsettled

-----------------------------------------------------------------------------
(* _generate_deliverables_or_block: a text, the notice that none can be    *)
(* written, no text at all, or the old one when an error stops it.         *)
Written(result) ==
  LET base == [products EXCEPT !.gate = "none", !.issues = {}, !.verified = None,
                               !.blocked = FALSE]
      stopped == [base EXCEPT !.gate = "pre", !.issues = {"pre"}, !.blocked = TRUE]
      new == texts + 1
  IN CASE result = "text" -> [base EXCEPT !.text = new]
       [] result = "notice" -> [stopped EXCEPT !.text = new]
       [] result = "nothing" -> [base EXCEPT !.text = 0, !.blocked = TRUE]
       [] result = "error" -> stopped

Saved ==
  IF products.text # 0 /\ previous = Unsaved
  THEN [products |-> products, input |-> Input(products), source |-> Source]
  ELSE previous

Write(result) ==
  /\ Chosen("write")
  /\ texts < MaxTexts
  /\ previous' = Saved
  /\ products' = [Written(result) EXCEPT !.pending = Written(result).text # 0]
  /\ texts' = IF result \in {"text", "notice"} THEN texts + 1 ELSE texts
  /\ Consume
  /\ UNCHANGED <<evidence, analysis, rejected, history>>

(* FAULT: a request for the best there is releases what is unsafe.         *)
JudgedAtBest(found) ==
  LET issues == found \cup (IF bestEffort THEN {"accepted"} ELSE {})
      releasable == bestEffort \/ issues = {Count}
  IN IF products.gate = "pre" THEN products
     ELSE [products EXCEPT
             !.issues = issues,
             !.gate = IF issues = {} THEN "passed"
                      ELSE IF releasable THEN "released" ELSE "failed",
             !.blocked = @ \/ issues # {}]

(* _apply_final_quality_gate; what stopped a text before it was written    *)
(* stands.  Passing the gate leaves generation_blocked as it is.           *)
Judged(found) ==
  LET issues == found \cup (IF bestEffort THEN {"accepted"} ELSE {})
      releasable == issues \cap Unsafe = {} /\ (bestEffort \/ issues = {Count})
  IN IF products.gate = "pre" THEN products
     ELSE [products EXCEPT
             !.issues = issues,
             !.gate = IF issues = {} THEN "passed"
                      ELSE IF releasable THEN "released" ELSE "failed",
             !.blocked = @ \/ issues # {}]

(* FAULT: a text that repairs one issue may bring another.                 *)
NotWorseByNumber(old, new) == Cardinality(new.issues) <= Cardinality(old.issues)

(* candidate_is_not_worse *)
NotWorse(old, new) == new.issues \subseteq old.issues

Verified(p) == [p EXCEPT !.verified = Fingerprint(p), !.pending = FALSE]

Restored(old) ==
  LET kept == [old EXCEPT !.pending = FALSE]
  IN [kept EXCEPT !.verified = IF @ = Fingerprint(kept) THEN @ ELSE None]

Comparable ==
  /\ previous # Unsaved
  /\ previous.source = Source
  /\ previous.input = Input(previous.products)

ValidateResult(found) ==
  /\ Chosen("validate")
  /\ LET judged == Verified(Judged(found))
         restore == Comparable /\ ~NotWorse(previous.products, judged)
     IN /\ products' = IF restore THEN Restored(previous.products) ELSE judged
        /\ rejected' = IF restore THEN rejected \cup {previous.input} ELSE rejected
        /\ verdict' = [verdict EXCEPT ![products.text] = IF products.gate = "pre" THEN @ ELSE
             [details |-> details, cards |-> cards, claims |-> products.claims,
              issues |-> judged.issues]]
        /\ settled' = [text |-> products'.text, issues |-> products'.issues]
  /\ previous' = Unsaved
  /\ Consume
  /\ UNCHANGED <<evidence, analysis, texts>>

-----------------------------------------------------------------------------
(* derive_result_status and _finish.                                       *)
Deliverable ==
  /\ products.text # 0 /\ ~products.pending
  /\ products.gate # "none"
  /\ products.verified # None /\ products.verified = Fingerprint(products)
  /\ \/ products.gate = "passed" /\ ~products.blocked
     \/ products.gate = "released"

(* The model asks to finish; a released best effort and a rejected         *)
(* rewriting finish without being asked.                                   *)
MayFinish ==
  \/ queue = <<>> /\ ~Enforced
  \/ bestEffort /\ queue = <<>> /\ products.gate \in {"passed", "released"}
  \/ rejected # {}

(* What a run knows only for itself is not exported by _build_output.      *)
EndRun ==
  /\ mode' = "idle"
  /\ rebuild' = {} /\ fresh' = {} /\ incremental' = FALSE

Finish(unmet) ==
  /\ mode # "idle"
  /\ MayFinish
  /\ Deliverable
  /\ unmet => sufficiency # None
  /\ outcome' = IF products.gate = "released" \/ unmet THEN "partial" ELSE "completed"
  /\ EndRun
  /\ UNCHANGED <<queue, bestEffort, runs, ranked, details, cards, recovery, analysis,
                 drafts, history>>

(* Limits, budgets and blocked reports; "stopped" are the questions, the   *)
(* failures and the cancellations.  A blocked run without a text may be    *)
(* left with the gate of what is missing.                                  *)
Stop(status, missing) ==
  /\ mode # "idle"
  /\ outcome' = status
  /\ LET base == [products EXCEPT !.blocked = @ \/ status = "blocked"]
     IN products' =
          IF missing /\ status = "blocked" /\ products.gate = "none"
             /\ products.text = 0 /\ Detailed # {}
          THEN [base EXCEPT !.gate = "pre", !.issues = {"pre"}] ELSE base
  /\ EndRun
  /\ UNCHANGED <<queue, bestEffort, runs, ranked, details, cards, recovery, analysis,
                 previous, rejected, texts, history>>

-----------------------------------------------------------------------------
(* The next run of the session.                                            *)
Begin(kind) ==
  /\ mode = "idle" /\ runs < MaxRuns
  /\ mode' = kind
  /\ outcome' = "running"
  /\ runs' = runs + 1
  /\ UNCHANGED <<rebuild, fresh, rejected, texts, verdict>>

(* continue_research_agent; the recovery of a focus searches first.        *)
Continue(focus) ==
  /\ Detailed # {} \/ ranked # {}
  /\ Begin("incremental")
  /\ ranked' = IF ranked = {} THEN Detailed ELSE ranked
  /\ incremental' = TRUE
  /\ queue' = IF focus THEN <<"search">> ELSE queue
  /\ products' = Blank /\ previous' = Unsaved /\ settled' = None
  /\ bestEffort' = (bestEffort /\ ~focus)
  /\ UNCHANGED <<details, cards, recovery, analysis>>

(* _build_regeneration_recovery_plan, a rewriting on the same evidence.    *)
Local(conservative) ==
  /\ conservative
  /\ products.issues \ {"accepted"} # {} /\ "pre" \notin products.issues
  /\ routes # None /\ products.claims # None

(* regenerate_research_agent.  directed: the recovery or the user chose    *)
(* the steps; how: what to build first ("none" for kinds of text without   *)
(* a structure); excluded: papers the user took out.                       *)
Regenerate(conservative, directed, refresh, how, effort, excluded) ==
  LET local == Local(conservative) /\ ~refresh /\ excluded = {}
      left == [p \in Papers |-> IF p \in excluded THEN None ELSE cards[p]]
      first == IF refresh THEN <<"fetch", "extract">> ELSE <<>>
      plan == IF local \/ \A p \in Papers : left[p] = None THEN <<>>
              ELSE IF how = "none" THEN <<"claims">> ELSE <<how, "claims">>
      last == IF plan # <<>> \/ local THEN <<"write">> ELSE <<>>
  IN /\ Detailed \ excluded # {}
     /\ refresh \/ effort => directed
     /\ Begin("regeneration")
     /\ details' = [p \in Papers |-> IF p \in excluded THEN None ELSE details[p]]
     /\ cards' = left
     /\ ranked' = IF refresh THEN Detailed ELSE ranked
     /\ bestEffort' = effort
     /\ queue' = IF directed /\ first \o plan \o last # <<>>
                   THEN first \o plan \o last ELSE queue
     /\ routes' = IF local THEN routes ELSE None
     /\ taxonomy' = IF local THEN taxonomy ELSE None
     /\ sufficiency' = IF local THEN sufficiency ELSE None
     /\ products' = IF local THEN [products EXCEPT !.verified = None] ELSE Blank
     /\ previous' = IF local THEN previous ELSE Unsaved
     /\ settled' = IF local THEN settled ELSE None
     /\ UNCHANGED <<incremental, recovery>>

(* The same entry, to verify the text as it stands.                        *)
Reverify ==
  /\ products.text # 0 /\ products.gate = "failed"
  /\ Begin("verification_only")
  /\ queue' = <<"validate">>
  /\ bestEffort' = FALSE
  /\ UNCHANGED <<ranked, details, cards, incremental, recovery, analysis,
                 products, previous, settled>>

-----------------------------------------------------------------------------
Operation ==
  \/ \E found \in SUBSET Papers : Search(found) \/ TargetedSearch(found)
  \/ \E confirmed \in BOOLEAN, admitted \in SUBSET Papers,
        read \in [Papers -> Contents \cup {None}] : Fetch(confirmed, admitted, read)
  \/ \E take \in Takes : Extract(take)
  \/ \E found \in BOOLEAN, take \in Takes : ValidateRoutes(found, take)
  \/ \E take \in Takes : Cluster(take)
  \/ \E plan \in Plans, computed \in BOOLEAN : PlanClaims(plan, computed)
  \/ \E result \in {"text", "notice", "nothing", "error"} : Write(result)
  \/ \E found \in SUBSET Issues : ValidateResult(found)

Entry ==
  \/ \E focus \in BOOLEAN : Continue(focus)
  \/ \E conservative, directed, refresh, effort \in BOOLEAN,
        how \in {"routes", "cluster", "none"}, excluded \in SUBSET Papers :
        Regenerate(conservative, directed, refresh, how, effort, excluded)
  \/ Reverify

Next ==
  \/ Operation
  \/ \E unmet \in BOOLEAN : Finish(unmet)
  \/ \E status \in {"blocked", "stopped"},
        missing \in BOOLEAN : Stop(status, missing)
  \/ Entry

Spec == Init /\ [][Next]_vars

-----------------------------------------------------------------------------
CardValues == [of : Contents, take : Takes]
CardSets == [Papers -> CardValues \cup {None}]
Structures == [cards : CardSets, take : Takes]
Gates == {"none", "pre", "failed", "released", "passed"}
Codes == Issues \cup {"pre", "accepted"}
Operations ==
  {"search", "targeted_search", "fetch", "extract", "routes", "cluster", "claims",
   "write", "validate"}

(* The types; a card that is awaited is one that a detailed paper lacks.   *)
TypeOK ==
  /\ mode \in {"idle", "initial", "incremental", "regeneration", "verification_only"}
  /\ queue \in Seq(Operations)
  /\ outcome \in {"running", "completed", "partial", "blocked", "stopped"}
  /\ {bestEffort, incremental, recovery, products.blocked, products.pending}
       \subseteq BOOLEAN
  /\ {ranked, fresh} \subseteq SUBSET Papers
  /\ rebuild \subseteq Detailed \ Carded
  /\ details \in [Papers -> Contents \cup {None}]
  /\ cards \in CardSets
  /\ {routes, taxonomy} \subseteq Structures \cup {None}
  /\ sufficiency \in CardSets \cup {None}
  /\ products.gate \in Gates /\ products.issues \subseteq Codes
  /\ products.text \in 0 .. texts /\ texts \in 0 .. MaxTexts

(* Whatever is fetched, extracted, restored or carried into the next run,  *)
(* a card is read from its paper's present detail, and the routes, the     *)
(* claims and the sufficiency of the evidence that a text rests on come    *)
(* from the present cards (evidence_invalidation.py, _reset_generation_    *)
(* products, _retain_better_generation).                                   *)
EvidenceCurrent ==
  /\ \A p \in Carded : cards[p].of = details[p]
  /\ routes # None => routes.cards = cards
  /\ products.claims # None =>
       products.claims.cards = cards /\ sufficiency \in {cards, None}

(* A run that hands a text out hands out one whose last judgement was made *)
(* on the present details, cards and claims and found nothing unsafe       *)
(* (_finish, autonomous_verified_fingerprint).                             *)
DeliveredVerified ==
  outcome \in {"completed", "partial"} =>
    LET v == verdict[products.text]
    IN /\ products.text # 0
       /\ v.details = details /\ v.cards = cards /\ v.claims = products.claims
       /\ v.issues \cap Unsafe = {}
       /\ outcome = "completed" => v.issues = {}

(* As long as the evidence, the claims and the structure stand, a text     *)
(* that was settled gives way only to one without a new issue, whatever    *)
(* writings fail, stop or are repeated in between (_validate_result,       *)
(* candidate_is_not_worse).                                                *)
NoRegression ==
  [][settled # None /\ settled' # None /\ settled'.text # settled.text
       => settled'.issues \subseteq settled.issues]_vars
=============================================================================
