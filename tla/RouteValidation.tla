--------------------------- MODULE RouteValidation ---------------------------
(***************************************************************************)
(* The research routes and the evidence they stand on                      *)
(* (app/agent/provisional_routes.py, route_validator.py,                   *)
(* pipeline_stages.py, route_targets.py, evidence_recovery.py,             *)
(* delegation_recovery.py, tools/cluster_papers.py, and their nodes in     *)
(* nodes/synthesis.py, nodes/planning.py and graph.py): the candidate      *)
(* routes are matched with the cards, kept, weakened or split, the papers  *)
(* are given to one route each, the weak routes are merged away into the   *)
(* taxonomy the text is written from; what a route lacks is diagnosed and  *)
(* searched for, in a bounded number of rounds.                            *)
(*                                                                         *)
(* How well a paper matches a route is what the word matching of the code  *)
(* yields: the number of its six signals, whether an anchor is among them, *)
(* whether a negative anchor is met, and the sum of the scores.  The       *)
(* similarity of papers is arbitrary, so a route is split into any         *)
(* clusters of the right sizes.  Names, questions and reasons are left     *)
(* out, but for a cluster without a name of its own, which stops a split.  *)
(***************************************************************************)
EXTENDS Lists, SequencesExt, FiniteSetsExt, Functions

CONSTANTS
  RoutePapers,  \* the papers a search may bring
  Early,        \* those whose cards are there from the start
  Frameworks,   \* the frameworks that may be drafted: sequences of candidate
                \* routes [definition, anchors, consistent, stage, proposals]
  Readings,     \* what the cards may be: functions from paper to
                \* [at, stage, valid], at[route] being
                \* [signals, anchored, conflict, fit]
  MinCore,      \* route_min_core_evidence
  MinSplit,     \* route_min_splittable_core
  MaxSubRoutes, \* route_max_sub_routes
  Oversized,    \* route_oversized_share_factor, as <<numerator, denominator>>
  RefsWanted,   \* required_reference_count
  TargetShare,  \* route_recovery_status_share, as <<numerator, denominator>>
  TargetMin,    \* route_recovery_target_min
  TargetMax,    \* route_recovery_target_max
  MinCited,     \* the citable papers a taxonomy remediation must leave
  Suggested,    \* Suggested[r]: the queries of a route: [own, narrower]
  MaxQueries,   \* max_search_keywords
  MaxRounds,    \* evidence_recovery_max_rounds
  MaxAttempts,  \* evidence_recovery_max_route_attempts
  MaxRevisions, \* evidence_recovery_max_scope_revisions
  ScopeShare,   \* evidence_recovery_scope_gap_ratio, as <<numerator, denominator>>
  MinNew,       \* evidence_recovery_min_new_evidence
  MinGain,      \* evidence_recovery_min_coverage_gain, as <<numerator, denominator>>
  Stray         \* the papers a clustering may leave without a theme (a bound)

Queries == UNION {Range(Suggested[r].own) \cup Range(Suggested[r].narrower) : r \in DOMAIN Suggested}

ASSUME RoutesAssumption ==
  /\ RoutePapers \subseteq Nat /\ IsFiniteSet(RoutePapers) /\ Early \subseteq RoutePapers
  /\ Suggested \in Seq([own : Seq(Queries), narrower : Seq(Queries)])
  /\ \A f \in Frameworks : DOMAIN f \subseteq DOMAIN Suggested
  /\ \A f \in Readings : \A p \in RoutePapers, r \in DOMAIN Suggested : f[p].at[r].fit \in Int
  /\ MinCore \in Nat \ {0} /\ MinSplit \in Nat /\ MaxSubRoutes \in Nat \ {0, 1}
  /\ Oversized \in Nat \X Nat /\ TargetShare \in Nat \X (Nat \ {0})
  /\ RefsWanted \in Nat /\ TargetMin \in Nat /\ TargetMax \in Nat
  /\ MaxQueries \in Nat \ {0}

VARIABLES
  framework,  \* provisional_routes: the candidate routes in their order
  profile,    \* what each paper's card is, once it is extracted
  cards,      \* the papers with a card
  validated,  \* validated_routes: sequence of [id, status, core, support]
  decided,    \* route_decisions: the decision on each candidate
  assigned,   \* assignment_map: function from paper to [type, primary, others]
  taxonomy,   \* dynamic_taxonomy: [by, themes, primary]
  report,     \* evidence_gap_report: [gaps, needs, understood]
  decision,   \* recovery_decision: [action, affected, targets, given]
  pending,    \* pending_evidence_recovery: [decision, cards, understood], or Unset
  status,     \* evidence_recovery_status
  searched,   \* searched_keywords
  rounds,     \* recovery_round
  attempts,   \* route_recovery_attempts
  revisions,  \* scope_revision_count
  unrevised   \* scope_revision_failed

judgements == <<validated, decided, assigned>>
recovery == <<pending, status, searched, rounds, attempts>>
routeVars == <<framework, profile, cards, judgements, taxonomy, report, decision, recovery,
               revisions, unrevised>>

Unset == [none |-> TRUE]
Idle == [action |-> "none", affected |-> {}, targets |-> <<>>, given |-> <<>>]
Unsorted == [by |-> "none", themes |-> <<>>, primary |-> <<>>]

(* A route is a candidate, or a part of one that was split: "R1_S2".       *)
RouteId(of, part) == [of |-> of, part |-> part]
RouteIds(routes) == {routes[i].id : i \in DOMAIN routes}
RouteOf(routes, id) == routes[CHOOSE i \in DOMAIN routes : routes[i].id = id]
Listed(route) == route.core \cup route.support

-----------------------------------------------------------------------------
(* guard_anchor_expansions: an expansion of the model is an anchor only    *)
(* when it has the shape of one, rests on a term of the route, and neither *)
(* meets a negative anchor nor drifts.  It is asked for where there are    *)
(* fewer than two anchors to match.                                        *)
Accepted(proposal) ==
  proposal.shaped /\ proposal.supported /\ ~proposal.negative /\ proposal.aligned
Prepared(definition) ==
  IF definition.anchors >= 2 THEN [definition EXCEPT !.proposals = {}]
  ELSE [definition EXCEPT !.proposals = {},
          !.anchors = @ + Cardinality({e \in definition.proposals : Accepted(e)})]

(* stage_compatible: upstream products are no evidence for a downstream    *)
(* route; stage 0 is a route or card without one, or a survey.             *)
Compatible(definition, card) ==
  definition.stage = 0 \/ card.stage = 0 \/ card.stage >= definition.stage

(* extract_route_paper_features *)
MatchLevel(defs, r, p) ==
  LET features == profile[p].at[r] IN
  IF features.conflict \/ features.signals = 0 THEN "none"
  ELSE IF features.signals >= 2 /\ features.anchored /\ Compatible(defs[r], profile[p])
  THEN "core" ELSE "supporting"
AtLevel(defs, r, level) == {p \in cards : MatchLevel(defs, r, p) = level}

(* assess_evidence_sufficiency *)
Sufficient(core, support) ==
  /\ Cardinality(core) >= MinCore
  /\ 2 * Cardinality({p \in core \cup support : profile[p].valid})
       >= Cardinality(core \cup support)

(* assess_route_validity: three of the five parts of a definition, two of  *)
(* the four anchors, and boundaries that do not meet each other.           *)
Structured(definition) ==
  definition.definition >= 3 /\ definition.anchors >= 2 /\ definition.consistent

(* _decision *)
Decision(defs, r) ==
  LET core == AtLevel(defs, r, "core")
      support == AtLevel(defs, r, "supporting")
      verdict(route_status, action) ==
        [status |-> route_status, action |-> action, core |-> core, support |-> support,
         sufficient |-> Sufficient(core, support)]
      hopeless == /\ defs[r].definition < 2 /\ defs[r].anchors < 2
                  /\ \A p \in cards : profile[p].at[r].signals < 2
  IN CASE Structured(defs[r]) /\ Sufficient(core, support) -> verdict("keep", "keep")
       [] Structured(defs[r]) /\ ~Sufficient(core, support) -> verdict("weak", "search")
       [] ~Structured(defs[r]) /\ ~Sufficient(core, support) /\ hopeless -> verdict("drop", "drop")
       [] OTHER -> verdict("weak", "revise")

(* validate_route_evidence: the routes that are not dropped.  The guard    *)
(* that keeps a dropped route with a complete definition finds none: only  *)
(* an incomplete one is dropped.                                           *)
Surviving(verdicts) ==
  LET kept == Ascending({r \in DOMAIN verdicts : verdicts[r].status # "drop"})
  IN [i \in DOMAIN kept |->
        [id |-> RouteId(kept[i], 0), status |-> verdicts[kept[i]].status,
         core |-> verdicts[kept[i]].core, support |-> verdicts[kept[i]].support]]

(* FAULT: a route that was split is still among them.                      *)
MatchedByStale(defs, routes, p, level) ==
  {r \in DOMAIN defs : MatchLevel(defs, r, p) = level /\ \E id \in RouteIds(routes) : id.of = r}

(* The whole routes of a list that a paper matches at this level.          *)
MatchedBy(defs, routes, p, level) ==
  {r \in DOMAIN defs : MatchLevel(defs, r, p) = level /\ RouteId(r, 0) \in RouteIds(routes)}
(* _best_fit_route: the first of those with the best fit.                  *)
BestFit(p, routes) ==
  CHOOSE r \in routes : \A other \in routes \ {r} :
    \/ profile[p].at[r].fit > profile[p].at[other].fit
    \/ profile[p].at[r].fit = profile[p].at[other].fit /\ r < other

(* primary_owner: each core paper belongs to one of its routes.            *)
Owner(defs, routes) ==
  [p \in {q \in cards : MatchedBy(defs, routes, q, "core") # {}} |->
     BestFit(p, MatchedBy(defs, routes, p, "core"))]
Exclusive(owner, r) == {p \in DOMAIN owner : owner[p] = r}

-----------------------------------------------------------------------------
(* _split_oversized_routes: a route that owns many more papers than its    *)
(* even share is divided into as many parts as it holds such shares        *)
(* (round: halves go to the even side).                                    *)
RoundedQuotient(a, b) ==
  LET down == a \div b  rest == 2 * (a % b) IN
  IF rest > b \/ (rest = b /\ down % 2 = 1) THEN down + 1 ELSE down
IsOversized(owner, routes, r) ==
  LET members == Cardinality(Exclusive(owner, r)) IN
  /\ Len(routes) >= 2
  /\ members >= MinSplit
  /\ members * Len(routes) * Oversized[2] > Cardinality(DOMAIN owner) * Oversized[1]
PartCount(owner, routes, r) ==
  LET shares == RoundedQuotient(Cardinality(Exclusive(owner, r)) * Len(routes),
                                Cardinality(DOMAIN owner))
  IN Min({MaxSubRoutes, Max({2, shares})})

(* _split_into_clusters: parts of nearly the same size, here in the order  *)
(* of their first papers; none where a part would hold a single paper.     *)
Divisions(members, count) ==
  IF Cardinality(members) < 2 * count THEN {}
  ELSE LET capacity == (Cardinality(members) + count - 1) \div count
           part(f, i) == {p \in members : f[p] = i}
       IN {[i \in 1..count |-> part(f, i)] : f \in
             {f \in [members -> 1..count] :
                /\ \A i \in 1..count : Cardinality(part(f, i)) \in 1..capacity
                /\ \A i \in 1..(count - 1) : Min(part(f, i)) < Min(part(f, i + 1))}}

(* FAULT: the thinness of a part is not looked at.                         *)
SplitsThin(owner, routes, r) ==
  Divisions(Exclusive(owner, r), PartCount(owner, routes, r))
(* A split is made only when every part is sufficient on its own and has a *)
(* name of its own.                                                        *)
Splits(owner, routes, r) ==
  {parts \in Divisions(Exclusive(owner, r), PartCount(owner, routes, r)) :
     \A i \in DOMAIN parts : Sufficient(parts[i], RouteOf(routes, RouteId(r, 0)).support)}
Whole == <<>>
SplitChoices(owner, routes) ==
  LET oversized == {id.of : id \in {id \in RouteIds(routes) : IsOversized(owner, routes, id.of)}}
  IN {choice \in [oversized -> {Whole} \cup UNION {Splits(owner, routes, r) : r \in oversized}] :
        \A r \in oversized : choice[r] \in {Whole} \cup Splits(owner, routes, r)}

(* The parts take the place of the route; they share what supports it, and *)
(* the core papers it did not own are left to their owners.                *)
Parts(route, parts) ==
  [i \in DOMAIN parts |-> [route EXCEPT !.id = RouteId(route.id.of, i), !.core = parts[i]]]
WithParts(routes, choice) ==
  FlattenSeq([i \in DOMAIN routes |->
    LET r == routes[i].id.of IN
    IF r \in DOMAIN choice /\ choice[r] # Whole THEN Parts(routes[i], choice[r])
    ELSE <<routes[i]>>])

(* assignment_map: the part a paper was moved to, else the best of the     *)
(* final routes it is core in, else the best of those it supports.         *)
Assignment(defs, routes, p) ==
  LET parts == {i \in DOMAIN routes : routes[i].id.part > 0 /\ p \in routes[i].core}
      core == MatchedBy(defs, routes, p, "core")
      support == MatchedBy(defs, routes, p, "supporting")
      given(type, id, others) == [type |-> type, primary |-> id, others |-> others]
      best(of) == RouteId(BestFit(p, of), 0)
  IN CASE parts # {} -> given("single", routes[CHOOSE i \in parts : TRUE].id, {})
       [] parts = {} /\ core # {} ->
            given(IF Cardinality(core) = 1 THEN "single" ELSE "cross", best(core),
                  {RouteId(r, 0) : r \in core} \ {best(core)})
       [] parts = {} /\ core = {} /\ support # {} -> given("ambiguous", best(support), {})
       [] OTHER -> given("unassigned", Unset, {})
Understood(assignment) ==
  {p \in DOMAIN assignment : assignment[p].type \in {"single", "cross"}}

-----------------------------------------------------------------------------
(* merge_weak_routes_for_writing: a weak route is written under the kept   *)
(* one whose words are nearest to it; without a kept one, under the weak   *)
(* one with most papers.                                                   *)
Size(route) == IF route.core # {} THEN Cardinality(route.core) ELSE Cardinality(Listed(route))
Strong(routes) ==
  LET kept == {i \in DOMAIN routes : routes[i].status # "weak"}
      largest == {i \in DOMAIN routes : \A j \in DOMAIN routes : Size(routes[i]) >= Size(routes[j])}
  IN IF Len(routes) <= 1 THEN DOMAIN routes ELSE IF kept # {} THEN kept ELSE {Min(largest)}
Mergings(routes) == [DOMAIN routes \ Strong(routes) -> Strong(routes)]
WrittenRoutes(routes, into) ==
  LET order == Ascending(Strong(routes))
      of(i) == {i} \cup {j \in DOMAIN into : into[j] = i}
  IN [k \in DOMAIN order |->
        [id |-> routes[order[k]].id,
         core |-> UNION {routes[i].core : i \in of(order[k])},
         support |-> UNION {routes[i].support : i \in of(order[k])}]]

(* validate_routes_node: the taxonomy of the text.  A paper belongs to the *)
(* theme of its primary route; where that was merged away, to the first it *)
(* is core in, then to the first that lists it.                            *)
(* FAULT: the themes take their papers in the order of the routes.         *)
ThemeOfInOrder(themes, assignment, p) == Min({i \in DOMAIN themes : p \in Listed(themes[i])})
ThemeOf(themes, assignment, p) ==
  LET own == {i \in DOMAIN themes : themes[i].id = assignment[p].primary}
      core == {i \in DOMAIN themes : p \in themes[i].core}
  IN IF p \in Understood(assignment) /\ own # {} THEN Min(own)
     ELSE IF core # {} THEN Min(core) ELSE Min({i \in DOMAIN themes : p \in Listed(themes[i])})
RouteTaxonomy(written, assignment) ==
  LET themes == Entries(written, {i \in DOMAIN written : Listed(written[i]) # {}})
      listed == UNION {Listed(themes[i]) : i \in DOMAIN themes}
  IN [by |-> "routes", themes |-> themes,
      primary |-> [p \in listed |-> ThemeOf(themes, assignment, p)]]

-----------------------------------------------------------------------------
(* compile_dynamic_taxonomy: every card in one theme of the papers' own    *)
(* words, the rest under "other".                                          *)
Clustered(papers, other) ==
  LET theme(i, members) == [id |-> RouteId(0, i), core |-> members, support |-> {}]
      both == <<theme(1, papers \ other), theme(2, other)>>
  IN [by |-> "cluster",
      themes |-> Entries(both, {i \in DOMAIN both : both[i].core # {}}),
      primary |-> [p \in papers |-> IF p \in other /\ other # papers THEN 2 ELSE 1]]
(* _remediate_invalid_taxonomy: the cards of the rest may be dropped when  *)
(* enough citable ones remain and the new taxonomy is no worse.            *)
Remediable(other) ==
  /\ other # {}
  /\ Cardinality({p \in cards \ other : profile[p].valid}) >= Max({1, MinCited})

-----------------------------------------------------------------------------
(* derive_route_core_targets: the papers a route needs for the references  *)
(* that were asked for, shared among the surviving routes.                 *)
RouteTarget(count) ==
  LET wanted == RefsWanted * TargetShare[1]  by == count * TargetShare[2] IN
  Min({TargetMax, Max({MinCore, TargetMin, (wanted + by - 1) \div by})})
RouteTargets(defs, verdicts, routes) ==
  LET ids == IF routes # <<>> THEN RouteIds(routes)
             ELSE {RouteId(r, 0) : r \in DOMAIN defs \cup DOMAIN verdicts}
  IN [id \in ids |-> RouteTarget(Cardinality(ids))]

(* _deterministic_route_gaps: read from the decisions on the candidates.   *)
Gaps(defs, verdicts, routes) ==
  LET targets == RouteTargets(defs, verdicts, routes)
      target(r) == IF RouteId(r, 0) \in DOMAIN targets THEN targets[RouteId(r, 0)] ELSE 0
      deficit(r) == Max({0, target(r) - Cardinality(verdicts[r].core)})
      short == {r \in DOMAIN verdicts :
                  /\ r \in DOMAIN defs \/ RouteId(r, 0) \in RouteIds(routes)
                  /\ \/ verdicts[r].action \in {"drop", "search"}
                     \/ deficit(r) > 0
                     \/ verdicts[r].status = "weak" /\ ~verdicts[r].sufficient}
      order == Ascending(short)
  IN [i \in DOMAIN order |-> [route |-> RouteId(order[i], 0), target |-> target(order[i]),
                              deficit |-> deficit(order[i])]]

(* diagnose_evidence_gaps: a split settles itself and asks for no search.  *)
Report(gaps, assignment) ==
  [gaps |-> gaps, needs |-> gaps # <<>>,
   understood |-> <<Cardinality(Understood(assignment)), Cardinality(DOMAIN assignment)>>]

(* _regenerated_route_queries: the route's own queries that are new, else  *)
(* narrower ones that are.  A query is new until it was searched for.      *)
Fresh(queries) == Entries(queries, {i \in DOMAIN queries : queries[i] \notin searched})
QueriesOf(id) ==
  IF Fresh(Suggested[id.of].own) # <<>> THEN Fresh(Suggested[id.of].own)
  ELSE Fresh(Suggested[id.of].narrower)

(* decide_recovery: the queries are dealt in rounds, the routes that lack  *)
(* most first.  A query is dealt once, and counts for every route that     *)
(* proposes it.                                                            *)
Dealt(queries) ==
  FoldLeft(LAMBDA dealt, q : IF Len(dealt) >= MaxQueries \/ q \in Range(dealt) THEN dealt
                             ELSE Append(dealt, q), <<>>, queries)
LacksMore(a, b) ==
  a.deficit > b.deficit \/ (a.deficit = b.deficit /\ a.route.of < b.route.of)
ByDeficit(gaps) ==
  LET at == Arranged(DOMAIN gaps,
              {x \in (DOMAIN gaps) \X (DOMAIN gaps) : LacksMore(gaps[x[1]], gaps[x[2]])})
  IN [k \in DOMAIN at |-> gaps[at[k]]]

Selected(gaps) ==
  LET order == ByDeficit(gaps)
      longest == Max({0} \cup {Len(QueriesOf(order[i].route)) : i \in DOMAIN order})
      having(k) == Entries(order, {i \in DOMAIN order : Len(QueriesOf(order[i].route)) >= k})
  IN Dealt(FlattenSeq([k \in 1..longest |->
       [i \in DOMAIN having(k) |-> QueriesOf(having(k)[i].route)[k]]]))

Affected(gaps) == {gaps[i].route : i \in DOMAIN gaps}
SearchFor(gaps, queries) ==
  [action |-> "search", affected |-> Affected(gaps),
   targets |-> [id \in Affected(gaps) |->
                  (CHOOSE gap \in Range(gaps) : gap.route = id).target],
   given |-> [id \in Affected(gaps) |-> Range(queries) \cap Range(QueriesOf(id))]]
Decided(found, healthy, advised) ==
  LET eligible == Entries(found.gaps,
                    {i \in DOMAIN found.gaps : attempts[found.gaps[i].route.of] < MaxAttempts})
      without(action, gaps) == [Idle EXCEPT !.action = action, !.affected = Affected(gaps)]
  IN IF ~found.needs THEN without("continue", <<>>)
     ELSE IF ~healthy \/ rounds >= MaxRounds THEN without("degrade", found.gaps)
     ELSE IF advised /\ revisions < MaxRevisions THEN without("scope", found.gaps)
     ELSE IF eligible = <<>> THEN without("degrade", found.gaps)
     ELSE IF Selected(eligible) = <<>> THEN without("degrade", eligible)
     ELSE SearchFor(eligible, Selected(eligible))

-----------------------------------------------------------------------------
(* settle_after_analysis: what a search brought is judged once its papers  *)
(* went through the routes: by the new papers the affected routes took in, *)
(* and by the share of the cards that some route understands.              *)
RelevantNew(routes, assignment, new, id) ==
  IF id \notin RouteIds(routes) THEN 0
  ELSE Cardinality(new \cap Understood(assignment) \cap Listed(RouteOf(routes, id)))
CoreCount(routes, id) == IF id \in RouteIds(routes) THEN Cardinality(RouteOf(routes, id).core) ELSE 0
GainBelow(before, after) ==
  LET b == Max({1, before[2]})  a == Max({1, after[2]})
  IN (after[1] * b - before[1] * a) * MinGain[2] < MinGain[1] * a * b
Settled(found, routes, assignment, papers) ==
  LET made == pending.decision
      unmet == \E id \in made.affected : CoreCount(routes, id) < made.targets[id]
      gained == MapThenSumSet(
        LAMBDA id : RelevantNew(routes, assignment, papers \ pending.cards, id), made.affected)
  IN CASE ~found.needs /\ ~unmet -> "not_required"
       [] (found.needs \/ unmet)
            /\ (gained < MinNew \/ GainBelow(pending.understood, found.understood)) -> "exhausted"
       [] OTHER -> "recoverable"

(* What a validation does once its routes are there: the taxonomy is the   *)
(* routes' own, or a clustering where no route has a paper, and a search   *)
(* that was awaiting it is settled.                                        *)
Others == SUBSET (cards \cap Stray)
Sorted(routes, themes) ==
  IF \E i \in DOMAIN routes : Listed(routes[i]) # {} THEN taxonomy' = themes /\ UNCHANGED cards
  ELSE \E other \in Others :
         \/ taxonomy' = Clustered(cards, other) /\ UNCHANGED cards
         \/ /\ Remediable(other)
            /\ cards' = cards \ other
            /\ taxonomy' = Clustered(cards \ other, {})
Conclude(defs, verdicts, routes, assignment, themes) ==
  LET found == Report(Gaps(defs, verdicts, routes), assignment) IN
  /\ framework' = defs /\ decided' = verdicts /\ validated' = routes /\ assigned' = assignment
  /\ Sorted(routes, themes)
  /\ IF pending = Unset THEN UNCHANGED <<report, status>>
     ELSE report' = found /\ status' = Settled(found, routes, assignment, cards')
  /\ pending' = Unset
  /\ UNCHANGED <<profile, decision, searched, rounds, attempts, revisions, unrevised>>

(* validate_routes: the candidate routes are judged by the cards.          *)
ValidateRoutes ==
  LET defs == [r \in DOMAIN framework |-> Prepared(framework[r])]
      verdicts == [r \in DOMAIN defs |-> Decision(defs, r)]
      kept == Surviving(verdicts)
  IN /\ cards # {}
     /\ \E choice \in SplitChoices(Owner(defs, kept), kept) :
          LET routes == WithParts(kept, choice)
              assignment == [p \in cards |-> Assignment(defs, routes, p)]
          IN \E into \in Mergings(routes) :
               Conclude(defs, verdicts, routes, assignment,
                        RouteTaxonomy(WrittenRoutes(routes, into), assignment))

(* A validation that raises leaves no route, and concludes all the same.   *)
ValidationFails == cards # {} /\ Conclude(framework, <<>>, <<>>, <<>>, taxonomy)

(* cluster_papers, asked for by Main.                                      *)
ClusterPapers ==
  /\ cards # {}
  /\ Sorted(<<>>, taxonomy)
  /\ UNCHANGED <<framework, profile, judgements, report, decision, recovery, revisions, unrevised>>

(* diagnose_evidence_gaps and recovery_controller.  The advice to revise   *)
(* the scope is the model's, and counts when most candidates lack papers.  *)
Diagnose ==
  /\ cards # {}
  /\ \E healthy, advice \in BOOLEAN :
       LET found == Report(Gaps(framework, decided, validated), assigned)
           systemic == Len(found.gaps) * ScopeShare[2] >= Len(framework) * ScopeShare[1]
       IN /\ report' = found
          /\ decision' = Decided(found, healthy, advice /\ systemic)
  /\ UNCHANGED <<framework, profile, cards, judgements, taxonomy, recovery, revisions, unrevised>>

StopReason == rounds >= MaxRounds \/ status = "exhausted"

(* revise_scope: a new framework in place of the old, or none.             *)
ReviseScope ==
  /\ ~StopReason /\ ~unrevised /\ cards # {}
  /\ decision.action = "scope" /\ revisions < MaxRevisions
  /\ \/ /\ framework' \in Frameworks
        /\ revisions' = revisions + 1
        /\ decision' = Idle
        /\ UNCHANGED unrevised
     \/ /\ unrevised' = TRUE
        /\ UNCHANGED <<framework, revisions, decision>>
  /\ UNCHANGED <<profile, cards, judgements, taxonomy, report, recovery>>

(* targeted_search (search_once): each affected route is charged.  The     *)
(* decision stays, and is open to another search once this one is settled. *)
TargetedSearch ==
  /\ pending = Unset /\ ~StopReason
  /\ report.needs /\ decision.action = "search"
  /\ pending' = [decision |-> decision, cards |-> cards, understood |-> report.understood]
  /\ rounds' = rounds + 1
  /\ attempts' = [r \in DOMAIN attempts |->
       IF RouteId(r, 0) \in decision.affected THEN attempts[r] + 1 ELSE attempts[r]]
  /\ searched' = searched \cup UNION {decision.given[id] : id \in decision.affected}
  /\ UNCHANGED <<framework, profile, cards, judgements, taxonomy, report, decision, status,
                 revisions, unrevised>>

(* extract_paper_cards on new papers, with the fetch before it and the     *)
(* invalidation after it: what rests on the cards is dropped, but not the  *)
(* report of the validation nor the taxonomy.                              *)
ExtractCards ==
  /\ \E new \in SUBSET (RoutePapers \ cards) \ {{}} : cards' = cards \cup new
  /\ validated' = <<>> /\ decided' = <<>>
  /\ UNCHANGED <<framework, profile, assigned, taxonomy, report, decision, recovery,
                 revisions, unrevised>>

RoutesInit ==
  /\ framework \in Frameworks /\ profile \in Readings /\ cards = Early
  /\ validated = <<>> /\ decided = <<>> /\ assigned = <<>> /\ taxonomy = Unsorted
  /\ report = [gaps |-> <<>>, needs |-> FALSE, understood |-> <<0, 0>>]
  /\ decision = Idle /\ pending = Unset /\ status = "none" /\ searched = {}
  /\ rounds = 0 /\ attempts = [r \in DOMAIN Suggested |-> 0]
  /\ revisions = 0 /\ unrevised = FALSE

RoutesNext == \/ ValidateRoutes \/ ValidationFails \/ ClusterPapers \/ Diagnose
              \/ ReviseScope \/ TargetedSearch \/ ExtractCards
RoutesSpec == RoutesInit /\ [][RoutesNext]_routeVars

-----------------------------------------------------------------------------
(* Each paper the routes understand belongs to a surviving route that      *)
(* holds it as core evidence, and every core paper of a surviving route is *)
(* understood; the parts of a split share no paper and can each stand.     *)
AssignmentsSound == validated # <<>> =>
  LET holds(id, p) == id \in RouteIds(validated) /\ p \in RouteOf(validated, id).core IN
  /\ \A p \in Understood(assigned) : \A id \in {assigned[p].primary} \cup assigned[p].others :
       holds(id, p)
  /\ \A i \in DOMAIN validated : validated[i].core \subseteq Understood(assigned)
  /\ \A i, j \in DOMAIN validated :
       validated[i].id.part > 0 /\ validated[j].id.part > 0 /\ i # j =>
         validated[i].core \cap validated[j].core = {}
  /\ \A i \in DOMAIN validated :
       validated[i].id.part > 0 => Sufficient(validated[i].core, validated[i].support)

(* In the taxonomy of the routes every paper has one theme, which lists    *)
(* it; evidence for a core statement is sorted under a theme it is core    *)
(* in, and where its own route is written, under that one.                 *)
ThemesSound == taxonomy.by = "routes" =>
  LET themes == taxonomy.themes IN
  /\ DOMAIN taxonomy.primary = UNION {Listed(themes[i]) : i \in DOMAIN themes}
  /\ \A p \in DOMAIN taxonomy.primary :
       /\ p \in Listed(themes[taxonomy.primary[p]])
       /\ (\E i \in DOMAIN themes : p \in themes[i].core) => p \in themes[taxonomy.primary[p]].core
       /\ p \in Understood(assigned) => \A i \in DOMAIN themes :
            themes[i].id = assigned[p].primary => taxonomy.primary[p] = i

(* What the text is organised by (route_validator.py, nodes/synthesis.py): *)
(* the papers of the routes and of their themes are where they belong.     *)
RoutesSound == AssignmentsSound /\ ThemesSound

(* A recovery with as many queries as routes to serve serves each of them  *)
(* (evidence_recovery.py decide_recovery; tests/test_route_recovery_gold.py*)
(* test_rr11): no route that still may be searched for and has a query     *)
(* nobody sent goes without.                                               *)
GapsServed ==
  [][decision' # decision /\ decision'.action = "search"
       /\ Cardinality(decision'.affected) <= MaxQueries =>
     \A id \in decision'.affected : QueriesOf(id) # <<>> => decision'.given[id] # {}]_routeVars

(* tests/test_route_recovery_gold.py:272: a route that a split left short  *)
(* of its target is diagnosed like any other.                              *)
ShortRoutesDiagnosed ==
  [][report' # report =>
     LET targets == RouteTargets(framework', decided', validated') IN
     \A i \in DOMAIN validated' :
       Cardinality(validated'[i].core) < targets[validated'[i].id] =>
         validated'[i].id \in Affected(report'.gaps)]_routeVars
=============================================================================
