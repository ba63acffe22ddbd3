----------------------------- MODULE MCPipeline -----------------------------
(***************************************************************************)
(* The operations on a session's papers and texts, and inside one of them  *)
(* the verification of a draft.  The operations take what it finds as      *)
(* given, so they share no state; a behaviour is one of the two.           *)
(***************************************************************************)
EXTENDS Pipeline, Verification, TLC

(* Verification: two papers, one of which is read in full, the other later *)
(* and in several ways.                                                    *)
CONSTANTS q1, q2, q3

S(part, says, groups) == [part |-> part, says |-> says, groups |-> groups]
Card(level, spans, figures) == [level |-> level, spans |-> spans, figures |-> figures]
mcFull == Card("full", "fit", TRUE)
mcAbstract == Card("abstract", "fit", FALSE)
mcKinds == {mcFull, mcAbstract, Card("full", "long", FALSE)}

mcDecks == {[p \in {q1, q2} |-> IF p = q1 THEN mcFull ELSE Nil]}
mcNoDeck == [p \in {q1, q2} |-> Nil]
mcSoften == ("strong" :> "plain")
mcUnfigure == ("figure" :> "vague")
mcDrafts == {
  <<S("intro", "link", <<>>), S("route", "strong", <<<<q1>>>>), S("route", "figure", <<<<q1, q2>>>>),
    S("route", "fact", <<>>)>>,
  <<S("intro", "strong", <<<<q3>>>>), S("route", "survey", <<<<q1>>, <<q2>>>>)>>}
mcLegacies == {<<S("intro", "link", <<>>), S("route", "plain", <<<<1>>>>)>>}
mcWordings == {[says |-> "plain", groups |-> <<<<q1>>>>]}
mcNamed == {{}, {2, 3}}
mcAuthorized == [s \in {"intro", "route"} |-> {q1, q2}]
mcClaims == <<[says |-> "plain", papers |-> {q1}], [says |-> "survey", papers |-> {q1, q2}]>>
mcSays == {"link", "strong", "plain", "figure", "vague", "fact", "survey", "other"}
mcOverlap == [u \in mcSays \X mcSays |->
  IF u[1] = u[2] THEN 2 ELSE IF u \in {<<"strong", "plain">>, <<"figure", "plain">>} THEN 1 ELSE 0]
mcFullShare == <<4, 5>>
mcAbstractShare == <<1, 2>>
mcDominance == <<7, 10>>

-----------------------------------------------------------------------------
VARIABLE lane

MCInit ==
  /\ lane \in {"operations", "verification"}
  /\ Init /\ VerificationInit
  /\ IF lane = "verification" THEN deck \in mcDecks ELSE deck = mcNoDeck /\ review = Nil

MCNext ==
  \/ lane = "operations" /\ Next /\ UNCHANGED <<lane, draftVars>>
  \/ lane = "verification" /\ VerificationNext /\ UNCHANGED <<lane, vars>>

(* BOUND: one paper keeps its card, what is read under a check that is     *)
(* carried over is a full text, and a second text is for a second run.     *)
mcBound == lane = "verification" =>
  /\ deck[q1] = mcFull
  /\ carried # Nil => deck \in {carried.deck, [carried.deck EXCEPT ![q2] = mcFull]}
  /\ drafted = 2 => sessions = 2

MCSpec == MCInit /\ [][MCNext]_<<lane, vars, draftVars>>

-----------------------------------------------------------------------------
(* Operations: a paper whose metadata may change once, two texts, an       *)
(* unsafe issue and a missing reference, over two runs.  Of the judgements *)
(* only those on the two texts at hand matter.                             *)
MCSymmetry == Permutations(Papers) \cup Permutations(Contents)

Live == {products.text} \cup (IF previous = Unsaved THEN {} ELSE {previous.products.text})
MCView ==
  <<lane, control, evidence, analysis, drafts, settled, [t \in Live \ {0} |-> verdict[t]], draftVars>>
=============================================================================
