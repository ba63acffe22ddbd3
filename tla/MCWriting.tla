------------------------------ MODULE MCWriting ------------------------------
(***************************************************************************)
(* The routes and the evidence they stand on, the claims a text may make,  *)
(* and the writing of its sections.  They share no state but the routes    *)
(* and the claims, which the next one takes as given; a behaviour is one   *)
(* of them.                                                                *)
(***************************************************************************)
EXTENDS Claims, Sections, RouteValidation

(* The routes: five papers, one of which only a search brings.             *)
At(signals, anchored, fit) ==
  [signals |-> signals, anchored |-> anchored, conflict |-> FALSE, fit |-> fit]
mcStrong == At(3, TRUE, 3)
mcClose == At(2, TRUE, 2)
mcHint == At(1, FALSE, 1)
mcFar == At(0, FALSE, 0)
Read(first, second, level, citable) ==
  [at |-> <<first, second>>, stage |-> level, valid |-> citable]
mcKinds == <<Read(mcStrong, mcFar, 0, TRUE), Read(mcStrong, mcClose, 2, TRUE),
             Read(mcHint, mcStrong, 1, TRUE), Read(mcHint, mcHint, 0, FALSE),
             Read(mcClose, mcStrong, 2, TRUE)>>
mcRoutePapers == 1..5
mcEarly == 1..4
mcEarlyKinds == {<<1, 1, 1, 1>>, <<2, 2, 2, 2>>, <<1, 2, 3, 4>>, <<3, 3, 3, 4>>}
mcReadings == {[p \in mcRoutePapers |-> mcKinds[IF p = 5 THEN 5 ELSE k[p]]] : k \in mcEarlyKinds}
mcReading == CHOOSE r \in mcReadings : TRUE
Drafted(definition, anchors, level, proposals) ==
  [definition |-> definition, anchors |-> anchors, consistent |-> TRUE, stage |-> level,
   proposals |-> proposals]
mcProposal == [shaped |-> TRUE, supported |-> TRUE, negative |-> FALSE, aligned |-> TRUE]
mcFrameworks == {<<Drafted(4, 2, 0, {}), Drafted(3, 1, 2, {mcProposal})>>,
                 <<Drafted(3, 2, 0, {}), Drafted(2, 1, 0, {[mcProposal EXCEPT !.aligned = FALSE]})>>}
mcFramework == CHOOSE f \in mcFrameworks : TRUE
mcOversized == <<6, 5>>
mcTargetShare == <<17, 20>>
mcSuggested == <<[own |-> <<"x", "y">>, narrower |-> <<"v">>], [own |-> <<"z">>, narrower |-> <<"v">>]>>
mcScopeShare == <<3, 4>>
mcStray == {4}
mcMinGain == <<1, 20>>

VARIABLE lane

writingVars == <<lane, claimVars, sectionVars, routeVars>>

Init == /\ lane \in {"claims", "sections", "routes"}
        /\ ClaimsInit /\ SectionsInit /\ RoutesInit
        /\ lane # "sections" => ~many /\ planned = (CHOOSE a \in Allotments : TRUE).papers
        /\ lane # "routes" => profile = mcReading /\ framework = mcFramework

Next ==
  \/ lane = "claims" /\ ClaimsNext /\ UNCHANGED <<lane, sectionVars, routeVars>>
  \/ lane = "sections" /\ SectionsNext /\ UNCHANGED <<lane, claimVars, routeVars>>
  \/ lane = "routes" /\ RoutesNext /\ UNCHANGED <<lane, claimVars, sectionVars>>

Spec == Init /\ [][Next]_writingVars

-----------------------------------------------------------------------------
mcPapers == {"a", "b", "c", "d"}
Says(t, ty, e) == [text |-> t, type |-> ty, evidence |-> e]
mcCards == <<"a", "b", "c", "d">>
mcStatements == [p \in mcPapers |->
  CASE p = "a" -> <<Says("x", "problem", "a1"), Says("y", "finding", "a2")>>
    [] p = "b" -> <<Says("z", "method_progression", "b1")>>
    [] p = "c" -> <<Says("w", "finding", "c1")>>
    [] OTHER -> <<Says("v", "problem", "d1")>>]
mcPaperOf == [e \in {"a1", "a2", "b1", "c1", "d1"} |->
  CASE e \in {"a1", "a2"} -> "a" [] e = "b1" -> "b" [] e = "c1" -> "c" [] OTHER -> "d"]
mcSource == [p \in mcPapers |-> IF p = "c" THEN "b" ELSE p]
mcRoutes == <<[route |-> "r1", papers |-> <<"a", "b">>, background |-> FALSE],
              [route |-> "r2", papers |-> <<"c">>, background |-> FALSE],
              [route |-> "bg", papers |-> <<"c">>, background |-> TRUE]>>
mcOpening == [t \in {"x", "y", "z", "w", "v", "r1", "r2", "bg"} |-> t]
mcMinPapers == [t \in {"problem", "finding", "limitation", "background_fact", "method_progression"} |->
   IF t = "method_progression" THEN 2 ELSE 1]

-----------------------------------------------------------------------------
S(text, role) == [text |-> text, role |-> role]
mcOutline == <<S(1, "overview"), S(1, "theme"), S(2, "general")>>
mcAllotments ==
  {[papers |-> <<{"a", "b"}, {"b"}, {"a"}>>, given |-> <<{"a", "b"}, {"b"}, {"a"}>>],
   [papers |-> <<{"a", "b"}, {"b"}, {"a"}>>, given |-> <<{"a"}, {"b"}, {"b"}>>],
   [papers |-> <<{"a", "b"}, {"a", "b"}, {"a"}>>, given |-> <<{"a", "b"}, {"b"}, {"a"}>>]}
(* Between two writings a text is only whether it is right; what no later  *)
(* writing can use is left out.                                            *)
SeenTexts ==
  IF at = 0 THEN <<ReuseCurrent, CitesLicensed, SectionsStay>>
  ELSE [i \in Ids |-> IF texts[i] = None THEN None
          ELSE <<texts[i].cites, texts[i].reused, texts[i].from>>]
Pending == IF filling \/ at = 0 THEN {} ELSE {i \in Ids : Outline[i].text >= at}
Kept(of) == IF writes < MaxWrites THEN of
            ELSE [i \in Ids |-> IF i \in Pending THEN of[i] ELSE None]
Valid == [i \in Ids |-> IF candidates[i] # None /\ candidates[i].valid THEN candidates[i] ELSE None]
SeenSupports == IF at = 0 THEN Nothing ELSE supports
SeenInputs == IF at = 0 THEN <<many, claims>> ELSE inputs
(* No step reads the taxonomy, nor of the report more than this, nor a     *)
(* decision once the rounds are used up.                                   *)
SeenRoutes ==
  <<framework, profile, cards, judgements, ThemesSound, report.needs, report.understood,
    IF rounds >= MaxRounds THEN Idle ELSE decision, recovery, revisions, unrevised>>
WritingView ==
  <<lane, SeenRoutes, claimVars, SeenInputs, at, filling, SeenSupports, SeenTexts, Kept(Valid), Kept(verified), writes>>
=============================================================================
