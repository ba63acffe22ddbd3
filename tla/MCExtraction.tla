---------------------------- MODULE MCExtraction ----------------------------
(***************************************************************************)
(* What is made of the papers: the index of a paper's chunks, the card of  *)
(* a paper from the chunks retrieved, and the plans of the texts from the  *)
(* cards.  Each hands the next only its result, so a behaviour is one of   *)
(* them.  The index: one profile of one batch, one of two batches.  The    *)
(* card: nine sentences, seven chunks of four sections, calls for four of *)
(* them or for all, answers that mix fields, quote what is not there, what *)
(* stands twice and what is no clean sentence.                             *)
(***************************************************************************)
EXTENDS VectorStore, PaperCards, MCWritingPlan

VARIABLE lane

extractionVars == <<lane, vars, cardVars, planVars>>

MCInit ==
  /\ lane \in {"index", "card", "plan"}
  /\ lane # "card" => paper = CHOOSE p \in Papers : TRUE
  /\ lane # "plan" => /\ requested = CHOOSE r \in Requests : TRUE
                      /\ themeOf = CHOOSE t \in Placements : TRUE
                      /\ groups = CHOOSE g \in Frames : TRUE
                      /\ authorized = CHOOSE c \in Claimed : TRUE
  /\ Init /\ CardsInit /\ PlanInit

MCNext ==
  \/ lane = "index" /\ Next /\ UNCHANGED <<lane, cardVars, planVars>>
  \/ lane = "card" /\ CardsNext /\ UNCHANGED <<lane, vars, planVars>>
  \/ lane = "plan" /\ PlanNext /\ UNCHANGED <<lane, vars, cardVars>>

MCSpec == MCInit /\ [][MCNext]_extractionVars

-----------------------------------------------------------------------------
CONSTANTS short, long
Lengths == (short :> 1) @@ (long :> 2)

(* Builders are interchangeable, and so are the texts. *)
Symmetry == Permutations(Builders) \cup Permutations(Hashes)

-----------------------------------------------------------------------------
CONSTANTS aim, how, found, limit, weak, vague, torn, made, signed

AllSentences == {aim, how, found, limit, weak, vague, torn, made, signed}
(* A torn sentence has no beginning, and passes behind another. *)
CleanOnes ==
  {v \in SUBSET (AllSentences \ {signed}) :
     v # {} /\ (torn \in v => v \cap {aim, weak, how} # {})}
Signed == {signed}
Aims == {aim}
Methods == {how}
Results == {found}
Limits == {limit}
Contrasts == {v \in SUBSET AllSentences : weak \in v /\ aim \notin v}
AlikePairs == {{how}} \X {v \in SUBSET AllSentences : vague \in v}
MentionPairs == {<<made, how>>}

Chunk(family, page, text, twice) ==
  [family |-> family, page |-> page, excluded |-> family = "references",
   text |-> text, twice |-> twice]
SevenChunks ==
  <<Chunk("full_text", 1, {aim, weak}, {}), Chunk("method", 2, {how, torn}, {}),
    Chunk("method", 3, {how, vague}, {vague}), Chunk("method", 4, {weak}, {}),
    Chunk("method", 5, {made}, {}), Chunk("results", 6, {found, limit, weak, signed}, {}),
    Chunk("references", 7, {made}, {})>>

AllPapers ==
  {[cnki |-> c, abstract |-> a, parsed |-> p, calls |-> n] :
     c \in BOOLEAN, a \in {{}, {aim, how, torn}},
     p \in {"none", "partial_full_text", "full_text"}, n \in {4, 6}}

SomeHits == {<<<<>>, <<>>>>, <<<<3, 2>>, <<4, 5>>>>, <<<<6>>, <<3, 1>>>>}

Answer(p, m, r, c, l, d) ==
  [f \in Fields |-> CASE f = "research_problem" -> p [] f = "method" -> m
     [] f = "results" -> r [] f = "contributions" -> c
     [] f = "limitations" -> l [] f = "dataset" -> d]
SomeAnswers ==
  {Answer({}, {}, {}, {}, {}, {}),
   Answer({aim}, {}, {}, {}, {}, {}),
   Answer({}, {}, {found}, {}, {limit, weak}, {}),
   Answer({how}, {how}, {found}, {how}, {limit, weak}, {how}),
   Answer({}, {torn, how}, {}, {torn, how}, {}, {}),
   Answer({torn}, {torn}, {signed}, {}, {}, {}),
   Answer({weak}, {weak}, {weak}, {weak}, {weak}, {}),
   Answer({}, {how}, {vague}, {aim, vague}, {}, {}),
   Answer({}, {made}, {made, found, signed}, {}, {made}, {made})}
DeclaredAnswers ==
  [fields : SomeAnswers, declared : {"abstract", "full_text", "metadata", "other"}]
=============================================================================
