------------------------------- MODULE Claims -------------------------------
(***************************************************************************)
(* The claims a text may make (app/agent/claim_plan.py, nodes/             *)
(* verification.py): what the cards of a route state is merged, grouped    *)
(* into theses by the model, graded by its independent sources, cut to a   *)
(* budget, and put through the evidence gate; papers without a claim may   *)
(* then get one of their own.                                              *)
(*                                                                         *)
(* A statement is a field's claim on a card, literally found in one piece  *)
(* of evidence; a claim keeps the pieces it rests on and an id made of its *)
(* first characters.  The wording of claims, the refinement of it by the   *)
(* model, and the sorting of gaps into limitations are left out: neither   *)
(* changes what a claim rests on.  The level "established" is never given  *)
(* (every count of sources is at most strong's maximum), so it is absent.  *)
(***************************************************************************)
EXTENDS Lists, SequencesExt, FiniteSetsExt, Functions

CONSTANTS
  CardSeq,    \* the papers in the order of their cards
  Statements, \* what a card states, field after field: [text, type, evidence]
  RouteSeq,   \* sequence of [route, papers, background]: the routes in their
              \* order, the paragraphs of the background after them
  PaperOf,    \* the paper of a piece of evidence
  SourceOf,   \* the group of a paper: one DOI, or one team with one dataset
  Opening,    \* what a claim's id keeps of its text
  Factual,    \* the papers whose card may carry a fact of its own
  Usable,     \* those the request may cite: in scope, confirmed, not invalid
  Wanted,     \* required_reference_count
  Explicit,   \* max_papers_explicit: the user named that number
  MinPapers,  \* _CLAIM_TYPES: the papers a claim of this type needs
  Core,       \* the types whose missing support asks for a search
  Coverable,  \* the types of the fields a paper's own claim is made from
  SoleLimit,  \* max_single_source_claims
  PerRoute,   \* minimum_per_route of the budget
  MaxTheses   \* BOUND on the theses the model proposes for a route

ASSUME ClaimsAssumption ==
  /\ SoleLimit \in Nat \ {0} /\ PerRoute \in Nat \ {0} /\ MaxTheses \in Nat
  /\ Wanted \in Nat /\ Explicit \in BOOLEAN
  /\ \A type \in DOMAIN MinPapers : MinPapers[type] \in Nat \ {0}
  /\ "background_fact" \in DOMAIN MinPapers /\ IsFiniteSet(DOMAIN PaperOf)
  /\ CardSeq \in Seq(DOMAIN Statements) /\ IsInjective(CardSeq)
  /\ \A p \in DOMAIN Statements : Statements[p] \in
       Seq([text : DOMAIN Opening, type : DOMAIN MinPapers, evidence : DOMAIN PaperOf])
  /\ RouteSeq \in
       Seq([route : DOMAIN Opening, papers : Seq(DOMAIN Statements), background : BOOLEAN])

VARIABLES
  stage,  \* "route", "planned", "gated"; "ungated": the gate raised
  plans,  \* claim_plans: sequence of [route, claims]
  passed, \* claim_evidence_gate.passed
  valid,  \* history: the evidence on the cards when the gate ran
  refused \* history: the claims the gate's model did not find entailed

claimVars == <<stage, plans, passed, valid, refused>>

Evidence == DOMAIN PaperOf
PapersOf(evidence) == {PaperOf[e] : e \in evidence}

(* The papers some claim rests on: claim_authorized_paper_ids.             *)
AuthorizedBy(plan) ==
  UNION {UNION {PapersOf(c.evidence) : c \in ToSet(plan[i].claims)} : i \in DOMAIN plan}

-----------------------------------------------------------------------------
(* _count_independent_sources *)
Independent(papers) == Cardinality({SourceOf[p] : p \in papers})

(* _determine_support_level: 1 single, 2 moderate, 3 strong.               *)
Level(type, evidence) ==
  LET n == Independent(PapersOf(evidence))
  IN IF Cardinality(evidence) < MinPapers[type] \/ n <= 1 THEN 1
     ELSE IF n <= 3 THEN 2 ELSE 3

(* _extract_route_claims: the statements of a route's papers, in order.    *)
Raw(papers) == FlattenSeq([i \in DOMAIN papers |-> Statements[papers[i]]])

(* _merge_similar_claims: one claim for each text, of its first type.      *)
MergedClaims(raw) ==
  FoldLeft(LAMBDA done, s :
    IF \A i \in DOMAIN done : done[i].text # s.text
    THEN Append(done, [text |-> s.text, type |-> s.type, evidence |-> {s.evidence}])
    ELSE [i \in DOMAIN done |->
            IF done[i].text = s.text THEN [done[i] EXCEPT !.evidence = @ \cup {s.evidence}]
            ELSE done[i]],
    <<>>, raw)

-----------------------------------------------------------------------------
(* The theses of a route: sets of the positions of claims.                 *)
MemberCap(total) == Min({8, Max({3, total \div 2})})

(* _accept_thesis_grouping: nothing left out, nothing twice, no thesis too *)
(* large, and fewer theses than claims.                                    *)
Acceptable(theses, total) ==
  /\ theses # {} /\ UNION theses = 1 .. total
  /\ \A t, u \in theses : t # u => t \cap u = {}
  /\ \A t \in theses : Cardinality(t) \in 1 .. MemberCap(total)
  /\ Cardinality(theses) < total

(* _majority_claim_type *)
MajorityType(members) ==
  LET of(type) == {i \in DOMAIN members : members[i].type = type}
      leading == {type \in DOMAIN MinPapers : 2 * Cardinality(of(type)) > Len(members)}
  IN IF leading # {} THEN CHOOSE type \in leading : TRUE ELSE members[1].type

(* The members of one paper stay claims of their own.                      *)
ThesisOf(claims, members, text) ==
  LET of == Entries(claims, members)
      evidence == UNION {of[k].evidence : k \in DOMAIN of}
  IN IF Len(of) = 1 \/ Cardinality(PapersOf(evidence)) < 2 THEN of
     ELSE <<[text |-> text, type |-> MajorityType(of), evidence |-> evidence]>>

(* cluster_claims_into_theses; the theses are taken by their first member. *)
Theses(claims, theses, text) ==
  IF ~Acceptable(theses, Len(claims)) THEN claims
  ELSE LET order == Arranged(theses, {x \in theses \X theses : Min(x[1]) < Min(x[2])})
       IN FlattenSeq([k \in DOMAIN order |-> ThesisOf(claims, order[k], text)])

(* What the model may answer: groups that overlap, leave claims out, take  *)
(* too many or are right.                                                  *)
Proposals(total) ==
  IF total < 2 THEN {{}}
  ELSE UNION {kSubset(k, SUBSET (1 .. total) \ {{}}) : k \in 0 .. MaxTheses}

-----------------------------------------------------------------------------
(* Strong claims first; the order is stable.                               *)
ByLevel(claims) ==
  LET at(level) == Entries(claims, {i \in DOMAIN claims : claims[i].level = level})
  IN at(3) \o at(2) \o at(1)

(* build_claim_plans, a route's claims from what was merged.               *)
Graded(route, claims) ==
  LET enough == Entries(claims, {i \in DOMAIN claims :
                  Cardinality(PapersOf(claims[i].evidence)) >= MinPapers[claims[i].type]})
  IN ByLevel([i \in DOMAIN enough |->
       [id |-> <<route, Opening[enough[i].text]>>, text |-> enough[i].text,
        type |-> enough[i].type, evidence |-> enough[i].evidence,
        level |-> Level(enough[i].type, enough[i].evidence)]])

(* build_background_claim_plan: no theses, one type, five claims at most.  *)
GradedBackground(route, claims) ==
  LET all == ByLevel([i \in DOMAIN claims |->
               [id |-> <<route, Opening[claims[i].text]>>, text |-> claims[i].text,
                type |-> "background_fact", evidence |-> claims[i].evidence,
                level |-> Level("background_fact", claims[i].evidence)]])
  IN SubSeq(all, 1, Min({5, Len(all)}))

(* apply_claim_budget: every plan keeps its first claim; the rest goes by  *)
(* level, then by place, then by plan.                                     *)
Budgeted(plan, required) ==
  LET budget == Max({required, PerRoute * Len(plan)})
      places == UNION {{i} \X DOMAIN plan[i].claims : i \in DOMAIN plan}
      first == {x \in places : x[2] = 1}
      before(x, y) ==
        LET a == plan[x[1]].claims[x[2]].level b == plan[y[1]].claims[y[2]].level
        IN \/ a > b \/ (a = b /\ x[2] < y[2]) \/ (a = b /\ x[2] = y[2] /\ x[1] < y[1])
      rest == {x \in places \ first :
                 Cardinality({y \in places \ first : before(y, x)})
                   < budget - Cardinality(first)}
  IN [i \in DOMAIN plan |-> [plan[i] EXCEPT !.claims =
        Entries(@, {j \in DOMAIN @ : <<i, j>> \in first \cup rest})]]

-----------------------------------------------------------------------------
(* The routes and paragraphs with a paper that may state a fact.           *)
WithFacts(route) ==
  [route EXCEPT !.papers = Entries(@, {i \in DOMAIN @ : @[i] \in Factual})]
Planned ==
  LET all == [i \in DOMAIN RouteSeq |-> WithFacts(RouteSeq[i])]
  IN Entries(all, {i \in DOMAIN all : all[i].background \/ all[i].papers # <<>>})

ClaimsInit ==
  /\ stage = "route" /\ plans = <<>> /\ passed = FALSE
  /\ valid = {} /\ refused = {}

(* The claims a route or paragraph can get: the model groups those of a    *)
(* route, those of the background stay as they are.                        *)
ClaimsOf(r) ==
  LET merged == MergedClaims(Raw(r.papers))
  IN IF r.background THEN {GradedBackground(r.route, merged)}
     ELSE {Graded(r.route, Theses(merged, theses, r.route)) : theses \in Proposals(Len(merged))}

Plannings ==
  LET routes == Planned
      choices == [i \in DOMAIN routes |-> ClaimsOf(routes[i])]
  IN {[i \in DOMAIN routes |-> [route |-> routes[i].route, claims |-> choice[i]]] :
        choice \in {f \in [DOMAIN routes -> UNION Range(choices)] :
                      \A i \in DOMAIN routes : f[i] \in choices[i]}}

(* claim_plan_node *)
PlanClaims ==
  /\ stage = "route"
  /\ \E plan \in Plannings : plans' = Budgeted(plan, Wanted)
  /\ stage' = "planned"
  /\ UNCHANGED <<passed, valid, refused>>

(* Its exception handler.                                                  *)
PlanFails ==
  /\ stage = "route"
  /\ stage' = "planned"
  /\ UNCHANGED <<plans, passed, valid, refused>>

-----------------------------------------------------------------------------
(* What the gate does with one claim; done is [kept, missing, unfounded].  *)
Checked(done, claim, held) ==
  LET evidence == claim.evidence \cap held
      papers == PapersOf(evidence)
      carrying(p) == Cardinality({i \in DOMAIN done.kept : p \in PapersOf(done.kept[i].evidence)})
      level == Level(claim.type, evidence)
  IN IF Cardinality(papers) = 1 /\ \E p \in papers : carrying(p) >= SoleLimit THEN done
     ELSE IF Cardinality(papers) < MinPapers[claim.type]
     THEN [done EXCEPT !.missing = @ \/ claim.type \in Core,
                       !.unfounded = @ \/ evidence = {}]
     ELSE [done EXCEPT !.kept = Append(@,
             [claim EXCEPT !.evidence = evidence, !.level = Min({@, level})])]

(* enforce_claim_evidence_gate before it asks the model.                   *)
Founded(plan, held) ==
  [i \in DOMAIN plan |->
     FoldLeft(LAMBDA done, c : Checked(done, c, held),
              [kept |-> <<>>, missing |-> FALSE, unfounded |-> FALSE], plan[i].claims)]

(* The claims of a gate's answer, by plan and place.                       *)
Places(founded) == UNION {{i} \X DOMAIN founded[i].kept : i \in DOMAIN founded}

(* _filter_non_entailed_claims: an answer names claims by their id, and    *)
(* what it says last of an id holds for every claim with this id.          *)
Verdict(founded, told, id) ==
  LET of == {x \in Places(founded) : founded[x[1]].kept[x[2]].id = id}
      last == CHOOSE x \in of : \A y \in of : y[1] < x[1] \/ (y[1] = x[1] /\ y[2] <= x[2])
  IN last \in told

Entailed(founded, told) ==
  [i \in DOMAIN founded |->
     Entries(founded[i].kept,
             {k \in DOMAIN founded[i].kept : Verdict(founded, told, founded[i].kept[k].id)})]

(* What the model did not find entailed.                                   *)
Refused(founded, told) ==
  {founded[x[1]].kept[x[2]] : x \in Places(founded) \ told}

-----------------------------------------------------------------------------
(* build_reference_coverage_plan: the first statement of each usable paper *)
(* no claim rests on, as far as references are missing.                    *)
Coverage(plan) ==
  LET authorized == AuthorizedBy(plan) \cap Usable
      stated(p) == Entries(Statements[p],
                     {i \in DOMAIN Statements[p] : Statements[p][i].type \in Coverable})
      papers == Entries(CardSeq, {i \in DOMAIN CardSeq :
                  CardSeq[i] \in (Usable \cap Factual) \ authorized /\ stated(CardSeq[i]) # <<>>})
      needed == IF Wanted > Cardinality(authorized) THEN Wanted - Cardinality(authorized) ELSE 0
      taken == SubSeq(papers, 1, Min({needed, Len(papers)}))
  IN [i \in DOMAIN taken |->
        [id |-> <<"coverage", taken[i]>>, text |-> stated(taken[i])[1].text,
         type |-> "background_fact", evidence |-> {stated(taken[i])[1].evidence}, level |-> 1]]

(* They are put through the gate as a plan of their own.                   *)
CoverageOf(plan) == <<[route |-> "coverage", claims |-> Coverage(plan)]>>

(* FAULT: the claims of the coverage are not put to the model.             *)
CoveredUnasked(plan, held, told) ==
  LET founded == Founded(CoverageOf(plan), held)
  IN IF founded[1].kept = <<>> THEN plan
     ELSE Append(plan, [route |-> "coverage", claims |-> founded[1].kept])

(* claim_evidence_gate_node, from the gate's plans: the claims of the      *)
(* coverage that pass the gate join them; its report does not change.      *)
Covered(plan, held, told) ==
  LET founded == Founded(CoverageOf(plan), held)
      kept == Entailed(founded, told)[1]
  IN IF kept = <<>> THEN plan ELSE Append(plan, [route |-> "coverage", claims |-> kept])

(* The plans with the claims the gate's model found entailed.              *)
GatedBy(founded, told) ==
  [i \in DOMAIN plans |-> [plans[i] EXCEPT !.claims = Entailed(founded, told)[i]]]

Gate ==
  /\ stage = "planned"
  /\ \E held \in SUBSET Evidence : \E founded \in {Founded(plans, held)} :
       \E told \in SUBSET Places(founded) :
         \E gated \in {GatedBy(founded, told)} :
           \E extra \in {Founded(CoverageOf(gated), held)} :
             \E toldExtra \in IF Explicit THEN SUBSET Places(extra) ELSE {{}} :
               /\ plans' = IF Explicit THEN Covered(gated, held, toldExtra) ELSE gated
               /\ passed' = \A i \in DOMAIN founded :
                              /\ ~founded[i].missing /\ ~founded[i].unfounded
                              /\ Len(gated[i].claims) = Len(founded[i].kept)
               /\ valid' = held
               /\ refused' = Refused(founded, told) \cup Refused(extra, toldExtra)
  /\ stage' = "gated"

(* Its exception handler: the plans stay as they were planned.             *)
GateFails ==
  /\ stage = "planned"
  /\ stage' = "ungated" /\ passed' = FALSE
  /\ UNCHANGED <<plans, valid, refused>>

ClaimsNext == PlanClaims \/ PlanFails \/ Gate \/ GateFails
ClaimsSpec == ClaimsInit /\ [][ClaimsNext]_claimVars

-----------------------------------------------------------------------------
(* What the gate lets through rests on evidence the cards still have, of   *)
(* as many papers as its type needs, at no higher level than the           *)
(* independent sources of what is left give it; and no plan rests more     *)
(* claims on one paper alone than allowed (enforce_claim_evidence_gate).   *)
ClaimsHold ==
  stage = "gated" => \A i \in DOMAIN plans :
    /\ \A c \in ToSet(plans[i].claims) :
         /\ c.evidence # {} /\ c.evidence \subseteq valid
         /\ Cardinality(PapersOf(c.evidence)) >= MinPapers[c.type]
         /\ c.level <= Level(c.type, c.evidence)
    /\ \A p \in ToSet(CardSeq) :
         Cardinality({j \in DOMAIN plans[i].claims :
                        PapersOf(plans[i].claims[j].evidence) = {p}}) <= SoleLimit

(* No claim the model did not find entailed reaches the writer, be it      *)
(* planned or made for the coverage of references ("claims not returned or *)
(* not entailed do not enter the writer", enforce_claim_evidence_gate).    *)
EntailedOnly ==
  stage = "gated" =>
    \A i \in DOMAIN plans : ToSet(plans[i].claims) \cap refused = {}

(* What the writer is given may be written: it has its evidence and was   *)
(* found to follow from it.                                                *)
ClaimsLicensed == ClaimsHold /\ EntailedOnly
=============================================================================
