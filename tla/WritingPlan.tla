----------------------------- MODULE WritingPlan -----------------------------
(***************************************************************************)
(* The plans of the texts a request asks for (generate_deliverables_node   *)
(* of app/agent/nodes/synthesis.py, app/agent/deliverable_router.py): is   *)
(* there enough to write at all, which text is written instead of one the  *)
(* evidence does not carry, and for each text in turn its sections and     *)
(* the papers each of them cites.                                          *)
(*                                                                         *)
(* The taxonomy, the evidence the frame requires and the claims are what   *)
(* earlier operations left; they are chosen in the initial state.          *)
(***************************************************************************)
EXTENDS Outline, Allocation

CONSTANTS
  Taxonomy,    \* themes in their order: [id, name, rest], rest for "other"
  Placements,  \* BOUND on the taxonomies: which paper is in which theme
  Frames,      \* BOUND on the frames: sequences of [name, papers]
  Claimed,     \* BOUND on the claims: sets of papers a claim rests on
  Usable,      \* per type: eligible, confirmed papers with evidence
  Requests,    \* BOUND on core_deliverables
  Required,    \* required_reference_count
  Limit,       \* generation_limit
  Explicit,    \* max_papers_explicit: the user named that number
  BestEffort,  \* best_effort_generation
  Ratio,       \* reference_coverage_best_effort_ratio, in percent
  MaxSections  \* max_subsections of the status

ASSUME WritingPlanAssumption ==
  /\ \A r \in Requests : r \in Seq(Types) /\ IsInjective(r)
  /\ \A c \in Claimed : IsFiniteSet(c)
  /\ Cards \subseteq DOMAIN WordsOf /\ Usable \in [Types -> SUBSET Cards]
  /\ Taxonomy \in Seq(Range(Taxonomy)) /\ \A t \in Range(Taxonomy) : IsFiniteSet(t.name)
  /\ \A f \in Frames : f \in Seq(Range(f)) /\ \A g \in Range(f) :
       g.papers \subseteq Cards /\ IsFiniteSet(g.name)
  /\ Required \in Nat /\ Limit \in Nat /\ Ratio \in 0 .. 100
  /\ MaxSections \in Nat \ {0}

VARIABLES
  stage,      \* "entry", "writing", "blocked"
  requested,  \* core_deliverables
  themeOf,    \* dynamic_taxonomy.assignments
  groups,     \* what the frame requires, with the papers that meet it
  authorized, \* papers the claims rest on
  todo,       \* resolved_deliverables still to write: [asked, type]
  texts       \* writing_plans and citation_allocation_plans

planVars == <<stage, requested, themeOf, groups, authorized, todo, texts>>

TwoPart == Range(requested) = {"background", "status"}
Eligible == UNION {Usable[type] : type \in Range(requested)}

(* synthesize_themes, and the themes build_writing_plan keeps.             *)
Themes(type) ==
  LET of(t) == {p \in Cards : themeOf[p] = t.id}
      kept == Entries(Taxonomy, {k \in DOMAIN Taxonomy :
                ~Taxonomy[k].rest /\ of(Taxonomy[k]) \cap Usable[type] # {}})
  IN [i \in DOMAIN kept |->
       [name |-> kept[i].name, claims |-> Stated(of(kept[i])), labels |-> {},
        papers |-> of(kept[i]) \cap Usable[type]]]

ThemeOrder ==
  LET kept == Entries(Taxonomy, {k \in DOMAIN Taxonomy : ~Taxonomy[k].rest})
  IN [i \in DOMAIN kept |-> kept[i].id]

-----------------------------------------------------------------------------
(* check_generation_readiness: which of its issues there are.              *)
TooFewUsable == Explicit /\ Required > 0 /\ Cardinality(Eligible) < Required
TooFewClaimed ==
  Explicit /\ Required > 0 /\ ~TooFewUsable /\ Cardinality(authorized \cap Eligible) < Required
FocusMissing == "status" \in Range(requested) /\ \E i \in DOMAIN groups : groups[i].papers = {}

(* permits_reference_coverage_writing *)
NearlyEnough ==
  LET available == Cardinality(authorized \cap Eligible)
  IN /\ Explicit /\ Required > 0 /\ ~FocusMissing
     /\ available > 0 /\ 100 * available >= Ratio * Required

Permitted ==
  \/ ~TooFewUsable /\ ~TooFewClaimed /\ ~FocusMissing
  \/ BestEffort /\ Eligible # {}
  \/ NearlyEnough

(* check_deliverable_readiness: enough papers, and a taxonomy that is more *)
(* than what was left over.                                                *)
Least2Write == [background |-> 2, status |-> 4, related |-> 3, review |-> 8]

Ready(type) ==
  LET inUse == {t \in Range(Taxonomy) : \E p \in Cards : themeOf[p] = t.id}
      rest == {t \in inUse : t.rest}
  IN /\ Cardinality(Cards) >= Least2Write[type]
     /\ type # "background" =>
          inUse # {} /\ (rest # {} => Cardinality(inUse \ rest) >= 2)

(* The text written for one that was asked: a review becomes a status, a   *)
(* status a background.                                                    *)
Chain(type) ==
  IF type = "review" THEN <<"review", "status", "background">>
  ELSE IF type = "status" THEN <<"status", "background">> ELSE <<type>>

Resolved ==
  LET of(asked) == Entries(Chain(asked), {k \in DOMAIN Chain(asked) : Ready(Chain(asked)[k])})
  IN FlattenSeq([i \in DOMAIN requested |->
       IF of(requested[i]) = <<>> THEN <<>>
       ELSE <<[asked |-> requested[i], type |-> of(requested[i])[1]]>>])

-----------------------------------------------------------------------------
PlanInit ==
  /\ stage = "entry" /\ todo = <<>> /\ texts = <<>>
  /\ requested \in Requests
  /\ themeOf \in Placements /\ groups \in Frames /\ authorized \in Claimed

Enter ==
  /\ stage = "entry" /\ Permitted
  /\ stage' = "writing" /\ todo' = Resolved
  /\ UNCHANGED <<requested, themeOf, groups, authorized, texts>>

Refuse ==
  /\ stage = "entry" /\ ~Permitted
  /\ stage' = "blocked"
  /\ UNCHANGED <<requested, themeOf, groups, authorized, todo, texts>>

(* build_writing_plan *)
SectionsOf(type) ==
  LET usable == Usable[type] floor == IF Required >= FloorFrom THEN RouteFloor ELSE 0
  IN CASE type = "background" -> BackgroundSections(usable)
       [] type = "status" -> StatusSections(Themes(type), groups, usable, MaxSections, floor)
       [] type = "related" -> RelatedSections(Themes(type), usable, MaxSections)
       [] OTHER -> ReviewSections(Themes(type), groups, usable)

GlobalTarget == Min({Required, Cardinality(Eligible)})

(* minimum_unique_references of a text.                                    *)
Wanted(next, sections) ==
  LET share == Quota(requested, GlobalTarget)[next.asked]
      quota == IF authorized = {} THEN share ELSE Min({share, Cardinality(authorized)})
      own == Max({Least2Write[next.type], IF next.type = "related" THEN 0 ELSE Required})
  IN IF quota > 0 THEN Min({quota, Cardinality(Pool(sections))})
     ELSE Min({own, Cardinality(Usable[next.type])})

(* selection_target: a request in two parts keeps to the shares.           *)
Room(next) ==
  LET budget == Budget(Required, Cardinality(Eligible), Limit)
  IN IF TwoPart THEN Quota(requested, GlobalTarget)[next.asked]
     ELSE IF budget > GlobalTarget THEN Quota(requested, budget)[next.asked] ELSE 0

Taken ==
  UNION {UNION {Range(texts[i].given[k]) : k \in DOMAIN texts[i].given} : i \in DOMAIN texts}

(* A text with these sections and the papers each of them cites, of those  *)
(* allowed, for every preference of the model.                             *)
DraftsOf(next, sections, allowed, target) ==
  LET selected == Select(next.type, sections, allowed, Taken, target, themeOf, ThemeOrder)
      specs == Cited(sections, selected, authorized)
      draft(answer) == [type |-> next.type, sections |-> sections,
                        keys |-> [i \in DOMAIN specs |-> specs[i].key],
                        given |-> answer.given, short |-> answer.short]
  IN {draft(Allocate(next.type, specs, selected, target, prefers)) : prefers \in Preferences(specs)}

Planned(next, sections) ==
  LET allowed == Allowed(next.type, sections, authorized, TwoPart /\ Explicit) \cap Cards
  IN DraftsOf(next, sections, allowed,
              Target(Wanted(next, sections), Room(next), Cardinality(allowed)))

Drafts(next) == Planned(next, SectionsOf(next.type))

(* One turn of the loop over the texts; a type is written once.            *)
Written(type) == \E i \in DOMAIN texts : texts[i].type = type

PlanText ==
  /\ stage = "writing" /\ todo # <<>>
  /\ todo' = Tail(todo)
  /\ \/ Written(Head(todo).type) /\ UNCHANGED texts
     \/ ~Written(Head(todo).type) /\ \E text \in Drafts(Head(todo)) : texts' = Append(texts, text)
  /\ UNCHANGED <<stage, requested, themeOf, groups, authorized>>

PlanNext == Enter \/ Refuse \/ PlanText

PlanSpec == PlanInit /\ [][PlanNext]_planVars

-----------------------------------------------------------------------------
RoutesOf(text) ==
  Entries(text.sections, {k \in DOMAIN text.sections : text.sections[k].id = "theme"})

(* However routes are selected, attached, merged and rebalanced, a paper   *)
(* of a theme of the taxonomy is in the section of some route of a status  *)
(* or a review.                                                            *)
PapersKept ==
  \A i \in DOMAIN texts : texts[i].type \in {"status", "review"} =>
    PapersIn(Themes(texts[i].type)) \subseteq Pool(RoutesOf(texts[i]))

(* No route has a section for one paper, unless it is the only route, and  *)
(* there are no more routes than sections allowed.                         *)
SectionsCompare ==
  \A i \in DOMAIN texts : texts[i].type \in {"status", "review"} =>
    LET routes == RoutesOf(texts[i])
    IN /\ Len(routes) <= IF texts[i].type = "review" THEN 3 ELSE MaxSections
       /\ Len(routes) > 1 => \A k \in DOMAIN routes : Cardinality(routes[k].papers) >= 2

(* A section that is left with fewer citations than its floor although a   *)
(* claim rests on one of its papers is reported as short: moving papers to *)
(* one section never takes another one below its floor unseen.             *)
ShortReported ==
  \A i \in DOMAIN texts : \A k \in DOMAIN texts[i].keys :
    LET key == texts[i].keys[k]
    IN key > 0 /\ key \notin texts[i].short =>
         Len(texts[i].given[k]) >= texts[i].sections[key].floor

(* The sections of a text keep the papers of its themes and stay few and   *)
(* comparable.                                                             *)
OutlineSound == PapersKept /\ SectionsCompare
=============================================================================
