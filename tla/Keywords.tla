------------------------------ MODULE Keywords ------------------------------
(***************************************************************************)
(* Which search words one round of a search sends to the sources           *)
(* (search_node of app/agent/nodes/retrieval.py, the selections of         *)
(* app/agent/nodes/base.py).  A word is known by what the code tells of    *)
(* it; it cleans to itself, to another word or to nothing.                 *)
(***************************************************************************)
EXTENDS Integers, SequencesExt

CONSTANTS
  Words,
  NoWord,
  Core, Recall,    \* core_keywords; the words with the role topic_recall
  Han, Latin,      \* the words with Chinese characters, with Latin letters
  Anchors,         \* the words that contain the topic
  Generic,         \* is_generic_search_keyword, but for the topic itself
  Clean,           \* sanitize_search_keyword
  Within,          \* the words that have four fifths of a word's tokens
  Batches,         \* keyword_batches, a sequence of sets
  WordLimit        \* max_search_keywords

ASSUME KeywordAssumption ==
  /\ Core \subseteq Recall
  /\ \A kind \in {Recall, Han, Latin, Anchors, Generic} : kind \subseteq Words
  /\ NoWord \notin Words
  /\ Clean \in [Words -> Words \cup {NoWord}]
  /\ Within \in [Words -> SUBSET Words]
  /\ Batches \in Seq(SUBSET Words)
  /\ WordLimit \in Nat \ {0}

Only(s, S) ==
  LET chosen[i \in 0 .. Len(s)] ==
        IF i = 0 THEN <<>>
        ELSE IF s[i] \in S THEN Append(chosen[i - 1], s[i]) ELSE chosen[i - 1]
  IN chosen[Len(s)]
Without(s, S) == Only(s, ToSet(s) \ S)
Ahead(s, S) == Only(s, S) \o Without(s, S)
Cut(s, n) == SubSeq(s, 1, IF n < Len(s) THEN n ELSE Len(s))
Unique(s) == FoldLeft(LAMBDA done, k : IF Contains(done, k) THEN done ELSE Append(done, k), <<>>, s)

(* A pure Chinese word. *)
Pure == Han \ Latin

-----------------------------------------------------------------------------
(* _select_search_keywords: words in Latin letters before the others, with *)
(* the first word kept and one Chinese word among them.                    *)
Mixed(s, n) ==
  IF s = <<>> THEN <<>>
  ELSE LET latin == Only(Tail(s), Latin)
           first == IF Head(s) \in Han /\ latin # <<>>
                    THEN Cut(latin, n - 1) \o <<Head(s)>>
                    ELSE <<Head(s)>> \o latin
           chosen == Cut(first \o Without(Tail(s), Latin), n)
           han == Only(s, Han)
       IN IF han # <<>> /\ ToSet(chosen) \cap Han = {}
          THEN Append(Cut(chosen, n - 1), Head(han)) ELSE chosen

(* _select_branch_diverse_keywords: one query of each branch, in their     *)
(* order, then other words.                                                *)
Voices(s, branches, n) ==
  LET Voice(chosen, branch) ==
        LET free == Only(branch.queries, ToSet(s) \ ToSet(chosen))
        IN IF Len(chosen) >= n \/ free = <<>> THEN chosen ELSE Append(chosen, Head(free))
  IN FoldLeft(Voice, <<>>, branches)
Diverse(s, branches, n) ==
  LET voices == Voices(s, branches, n)
      left == n - Len(voices)
  IN IF left <= 0 THEN Cut(voices, n) ELSE voices \o Mixed(Without(s, ToSet(voices)), left)

(* _select_batch_first_keywords: half the places are for the queries of a  *)
(* targeted recovery; the batches follow in their order, then the words of *)
(* no batch.                                                               *)
Asked(s, branches) ==
  LET Ask(asked, branch) ==
        IF branch.targeted THEN asked \o Only(branch.queries, ToSet(s)) ELSE asked
  IN FoldLeft(Ask, <<>>, branches)
Groups(pool) ==
  Append([i \in DOMAIN Batches |-> Only(pool, Batches[i] \ UNION {Batches[j] : j \in 1 .. i - 1})],
         Without(pool, UNION ToSet(Batches)))
Filled(groups, branches, n) ==
  LET Fill(chosen, group) ==
        IF Len(chosen) >= n THEN chosen
        ELSE chosen \o Diverse(group, branches, n - Len(chosen))
  IN FoldLeft(Fill, <<>>, groups)
BatchFirst(s, branches, n) ==
  LET wanted == Unique(Asked(s, branches))
      reserved == Cut(wanted, IF n < 2 THEN 1 ELSE n \div 2)
  IN reserved \o Filled(Groups(Without(s, ToSet(reserved))), branches, n - Len(reserved))

(* The words of a round before they are looked at one by one: core words   *)
(* and words of recall first, as far as the selections leave them in.      *)
Picked(unseen, branches) ==
  LET ordered == Ahead(Ahead(unseen, Core), Recall)
      chosen == IF Batches = <<>> THEN Diverse(ordered, branches, WordLimit)
                ELSE BatchFirst(ordered, branches, WordLimit)
  IN Ahead(chosen, Core)

(* Malformed and generic words are dropped, and so is what another word of *)
(* the round has almost all of, unless it contains the topic.              *)
Cleaned(s) ==
  Unique(Without([i \in DOMAIN s |-> Clean[s[i]]], Generic \cup {NoWord}))
Distinct(s) ==
  FoldLeft(LAMBDA kept, k :
             IF k \notin Anchors /\ Within[k] \cap ToSet(kept) # {} THEN kept ELSE Append(kept, k),
           <<>>, Ahead(s, Recall))

(* A word that contains the topic takes the last place if none has one.    *)
Promoted(s, unseen) ==
  LET anchors == Only(unseen, Anchors)
      anchor == IF Clean[Head(anchors)] = NoWord THEN Head(anchors) ELSE Clean[Head(anchors)]
  IN IF ToSet(s) \cap Anchors # {} \/ anchors = <<>> THEN s
     ELSE IF s = <<>> THEN <<anchor>> ELSE Append(Cut(s, Len(s) - 1), anchor)

(* search_keywords *)
Round(unseen, branches) == Promoted(Distinct(Cleaned(Picked(unseen, branches))), unseen)

-----------------------------------------------------------------------------
(* The word of a round for which CNKI's browser is started: one with the   *)
(* topic, once in a session, or a first Chinese word.                      *)
CnkiAnchors == Recall \cap Anchors \cap Pure
Browsed(round, searched, anchored) ==
  LET anchors == Only(round, CnkiAnchors)
      first == Only(round, Recall \cap Pure)
  IN IF anchored THEN NoWord
     ELSE IF anchors # <<>> THEN Head(anchors)
     ELSE IF searched \/ first = <<>> THEN NoWord ELSE Head(first)
=============================================================================
