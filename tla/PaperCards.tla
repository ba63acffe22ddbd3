----------------------------- MODULE PaperCards -----------------------------
(***************************************************************************)
(* The extraction of one PaperCard: extract_paper_card and what it calls   *)
(* (app/tools/extract_paper_card.py), the choice of the chunks to read     *)
(* (app/tools/chunk_retriever.py) and the tests of literal support         *)
(* (app/services/evidence_support.py, source_alignment.py).                *)
(*                                                                         *)
(* A sentence is a model value with the marks the regular expressions look *)
(* for.  A field's value is the set of sentences that it is joined of: the *)
(* order of the quotes in a value is left out, so two values are the same  *)
(* text when they are the same set.  The gate tests a joined value once,   *)
(* as a whole: a quote that opens or ends badly may pass behind or before  *)
(* others, and which joined values pass is a parameter (one that is cut    *)
(* off does not). The fields without a rule of their own (study_design,    *)
(* sample_size, ...) are left out; "dataset" stands for the two that need  *)
(* explicit support only.                                                  *)
(***************************************************************************)
EXTENDS Integers, Sequences, FiniteSets, SequencesExt, FiniteSetsExt

CONSTANTS
  Sentences,
  CleanValues,     \* _is_clean_evidence_sentence: the joined values that pass
  Marked,          \* with a mark it looks for anywhere: of copyright, of an affiliation
  ProblemText,     \* _PROBLEM_PATTERNS, and so on
  MethodText,
  ResultText,
  LimitationText,
  ContrastValues,  \* those that open with "however" or tell of an existing problem
  Mentions,        \* pairs of a data set's name and a sentence it stands in
  Alike,           \* pairs of a method's and a results' value, _match_score >= 0.85
  Papers,          \* [cnki, abstract, parsed, calls]: the papers to extract, and
                   \* card_extraction_max_chunks of the deployment
  Chunks,          \* the chunks of the parsed text: [family, page, excluded, text, twice]
  Hits,            \* what a retrieval may return: a sequence of chunks for each field
  ChunkAnswers,    \* what the model may answer on a chunk
  AbstractAnswers, \* what it may answer on an abstract: [fields, declared]
  NoCard

Fields ==
  {"research_problem", "method", "results", "contributions", "limitations", "dataset"}
(* The fields whose claims must be clean sentences. *)
ContentFields == Fields \ {"dataset"}
Values == [Fields -> SUBSET Sentences]

(* A claim or an item of a list is one sentence, tested by itself. *)
CleanText == {s \in Sentences : {s} \in CleanValues}

ASSUME CardsAssumption ==
  /\ \A value \in CleanValues : value \cap Marked = {}
  /\ ChunkAnswers \subseteq Values
  /\ \A answer \in AbstractAnswers : answer.fields \in Values

VARIABLES
  paper,
  order,      \* the chunks in the order they are taken
  selected,   \* retrieval.selected_chunk_ids
  degraded,   \* the retrieval failed somewhere
  status,     \* ExtractionChunkRecord of each chunk
  quotes,     \* values: the quotes accepted for each field
  rejected,   \* a quote was rejected
  stopped,    \* a chunk failed
  pc,
  card

cardVars == <<paper, order, selected, degraded, status, quotes, rejected, stopped, pc, card>>

Empty == [f \in Fields |-> {}]

CardsInit ==
  /\ paper \in Papers
  /\ order = <<>> /\ selected = {} /\ degraded = FALSE
  /\ status = [i \in DOMAIN Chunks |-> "unread"]
  /\ quotes = Empty
  /\ rejected = FALSE /\ stopped = FALSE
  /\ pc = "start"
  /\ card = NoCard

-----------------------------------------------------------------------------
(* The choice of the chunks.  Sections take turns, the more important one  *)
(* first; pages stand in for a section that is not known.                  *)
Priority == <<"method", "results", "limitations", "discussion", "abstract",
              "conclusion", "introduction">>
Rank(family) ==
  IF \E n \in DOMAIN Priority : Priority[n] = family
  THEN CHOOSE n \in DOMAIN Priority : Priority[n] = family ELSE 99
GroupOf(i) ==
  <<Chunks[i].family, IF Chunks[i].family = "full_text" THEN Chunks[i].page ELSE 0>>
Included == {i \in DOMAIN Chunks : ~Chunks[i].excluded}
Members(g) == {i \in Included : GroupOf(i) = g}

(* The turn in which a chunk comes: the first of its section, the last,    *)
(* then those between.                                                     *)
Turn(i) ==
  LET group == Members(GroupOf(i))
      before == Cardinality({j \in group : j < i})
  IN IF Cardinality(group) <= 2 THEN before
     ELSE IF i = Max(group) THEN 1
     ELSE IF before = 0 THEN 0 ELSE before + 1

(* Sections of one priority keep the order of the text. *)
Before(i, j) ==
  LET gi == GroupOf(i) gj == GroupOf(j)
  IN \/ Turn(i) < Turn(j)
     \/ /\ Turn(i) = Turn(j)
        /\ \/ Rank(gi[1]) < Rank(gj[1])
           \/ Rank(gi[1]) = Rank(gj[1]) /\ Min(Members(gi)) < Min(Members(gj))

coverageOrder == SetToSortSeq(Included, Before)

(* Half of the calls go to the sections, then the fields take turns, best  *)
(* hit first, and what is left goes to the sections again.                 *)
Unless(seen, i) == IF i \in Range(seen) THEN seen ELSE Append(seen, i)
Interleaved(hits) ==
  LET longest == Max({Len(hits[n]) : n \in DOMAIN hits} \cup {0})
      AtRank(r) == [n \in DOMAIN hits |-> IF r <= Len(hits[n]) THEN <<hits[n][r]>> ELSE <<>>]
  IN FlattenSeq([r \in 1 .. longest |-> FlattenSeq(AtRank(r))])
Prefix(s, n) == SubSeq(s, 1, Min({Len(s), n}))
Selection(hits) ==
  LET half == Prefix(coverageOrder, Max({1, paper.calls \div 2}))
      asked == Prefix(FoldLeft(Unless, half, Interleaved(hits)), paper.calls)
  IN Prefix(FoldLeft(Unless, asked, coverageOrder), paper.calls)

-----------------------------------------------------------------------------
(* CNKI is a source of abstracts: a parsed text it may have is ignored. *)
HasFullText == ~paper.cnki /\ paper.parsed # "none"

(* resolve_evidence_permissions *)
Access ==
  IF HasFullText THEN paper.parsed
  ELSE IF paper.abstract # {} THEN "abstract" ELSE "metadata"
MayStateResults == Access \in {"abstract", "partial_full_text", "full_text"}
MayStateLimitations == Access = "full_text"

(* _deduplicate_card_fields: a sentence answers for one field.             *)
States(value, marks) == value \cap marks # {}
Without(items, taken) == {s \in items : {s} \notin taken}
Deduplicated(v) ==
  LET twice == v.research_problem # {} /\ v.research_problem = v.method
      isMethod == States(v.method, MethodText) /\ ~States(v.research_problem, ProblemText)
      problem1 == IF twice /\ isMethod THEN {} ELSE v.research_problem
      method == IF twice /\ ~isMethod THEN {} ELSE v.method
      contributed == \E s \in v.contributions : {s} = problem1
      problem == IF contributed /\ ~States(problem1, ProblemText) THEN {} ELSE problem1
      contributions == Without(v.contributions, {problem, method, v.results})
      occupied == {problem, method, v.results} \cup {{s} : s \in contributions}
  IN [f \in Fields |->
        CASE f = "research_problem" -> problem
          [] f = "method" -> method
          [] f = "contributions" -> contributions
          [] f = "limitations" -> Without(v.limitations, occupied)
          [] OTHER -> v[f]]

(* Mutant: a field needs some claim, explicit or not. *)
AnyClaim(claims) == claims # {}

(* explicitly_supported *)
Supported(claims) == \E c \in claims : c.explicit

(* The fields that _quality_gate empties. *)
Emptied(v, claims) ==
  {f \in {"research_problem", "method", "results"} : v[f] # {} /\ v[f] \notin CleanValues} \cup
  {f \in {"method"} : v[f] \in ContrastValues /\ ~States(v[f], MethodText)} \cup
  {f \in {"results"} : v[f] # {} /\ ~States(v[f], ResultText)} \cup
  {f \in {"results"} : <<v.method, v.results>> \in Alike} \cup
  {f \in {"method", "results"} :
     v[f] # {} /\ ~(MayStateResults /\ Supported(claims[f]))} \cup
  {f \in {"limitations"} :
     v[f] # {} /\ ~(MayStateLimitations /\ Supported(claims[f]))} \cup
  {f \in {"dataset"} : v[f] # {} /\ ~Supported(claims[f])}

(* What is left of a field: of the lists, the items that pass.             *)
Left(v, emptied, f) ==
  IF f \in emptied THEN {}
  ELSE IF f = "contributions" THEN v[f] \cap CleanText
  ELSE IF f = "limitations" THEN v[f] \cap LimitationText
  ELSE v[f]

(* _quality_gate of a card whose evidence is attached.  Only a field that  *)
(* is emptied loses its claims.                                            *)
Gated(v, attached, source, issue, coverage) ==
  LET claims == [f \in Fields |-> IF f \in ContentFields
                   THEN {c \in attached[f] : c.text \in CleanValues} ELSE attached[f]]
      emptied == Emptied(v, claims) \cup (IF source = "metadata"
                   THEN Fields \ {"contributions"} ELSE {})
      left == [f \in Fields |-> Left(v, emptied, f)]
      meaningful == \E f \in {"research_problem", "method", "results"} : left[f] # {}
      flawed == \/ issue
                \/ source = "metadata"
                \/ \E f \in ContentFields : left[f] # v[f]
  IN [source |-> source, access |-> Access, value |-> left, coverage |-> coverage,
      claims |-> [f \in Fields |-> IF left[f] = {} /\ v[f] # {} THEN {} ELSE claims[f]],
      quality |-> IF ~meaningful THEN "invalid"
                  ELSE IF ~flawed /\ source = "full_text" THEN "valid" ELSE "partial"]

UnavailableCard ==
  [source |-> "metadata", access |-> "metadata", value |-> Empty, coverage |-> "none",
   claims |-> Empty, quality |-> "invalid"]

(* validate_paper_card: what the program builds itself is sound, but the   *)
(* source may be the model's word.                                         *)
Validated(c) ==
  IF c.source \in {"abstract", "full_text", "metadata"} THEN c ELSE UnavailableCard

Done(c) ==
  /\ card' = Validated(c)
  /\ pc' = "done"

-----------------------------------------------------------------------------
reading == <<order, selected, degraded, status, quotes, rejected, stopped>>

(* Nothing to read. *)
NoContent ==
  /\ pc = "start"
  /\ ~HasFullText /\ paper.abstract = {}
  /\ Done(UnavailableCard)
  /\ UNCHANGED <<paper, reading>>

(* The chunks that were chosen come first; the others are recorded too. *)
RetrieveChunks(hits, failed) ==
  /\ pc = "start"
  /\ HasFullText
  /\ LET chosen == Selection(hits)
     IN /\ selected' = Range(chosen)
        /\ order' = chosen \o SetToSortSeq(DOMAIN Chunks \ Range(chosen), <)
  /\ degraded' = failed
  /\ pc' = "chunks"
  /\ UNCHANGED <<paper, status, quotes, rejected, stopped, card>>

Current == Head(order)
Mark(how) ==
  /\ status' = [status EXCEPT ![Current] = how]
  /\ order' = Tail(order)

(* The call limit is that of the selection, so it never stops a chosen one. *)
MayAsk == Current \in Included \cap selected /\ ~stopped

PassChunk ==
  /\ pc = "chunks" /\ order # <<>>
  /\ ~MayAsk
  /\ Mark(IF Chunks[Current].excluded THEN "excluded" ELSE "skipped")
  /\ UNCHANGED <<paper, selected, degraded, quotes, rejected, stopped, pc, card>>

(* locate_quote: a quote that stands twice in the chunk has no place.      *)
Located(i, quote) == quote \in Chunks[i].text /\ quote \notin Chunks[i].twice

Accepted(answer) == [f \in Fields |-> {s \in answer[f] : Located(Current, s)}]

ReadChunk(answer) ==
  /\ pc = "chunks" /\ order # <<>>
  /\ MayAsk
  /\ quotes' = [f \in Fields |-> quotes[f] \cup Accepted(answer)[f]]
  /\ rejected' = (rejected \/ Accepted(answer) # answer)
  /\ Mark("processed")
  /\ UNCHANGED <<paper, selected, degraded, stopped, pc, card>>

(* The call fails, or its answer breaks the protocol: nothing more is paid. *)
FailChunk ==
  /\ pc = "chunks" /\ order # <<>>
  /\ MayAsk
  /\ stopped' = TRUE
  /\ Mark("failed")
  /\ UNCHANGED <<paper, selected, degraded, quotes, rejected, pc, card>>

AllRead ==
  /\ \E i \in DOMAIN Chunks : status[i] = "processed"
  /\ \A i \in DOMAIN Chunks : status[i] \in {"processed", "excluded"}

(* _attach_evidence of quotes: one claim for each that is still in its     *)
(* field and is read again at its place.                                   *)
QuoteClaims(v) ==
  [f \in Fields |-> {[text |-> {s}, explicit |-> TRUE] : s \in v[f]}]

FinishFullText ==
  /\ pc = "chunks" /\ order = <<>>
  /\ LET v == Deduplicated(quotes)
     IN Done(Gated(v, QuoteClaims(v), "full_text",
                   degraded \/ rejected \/ ~AllRead \/ v # quotes,
                   IF AllRead THEN "complete" ELSE "partial"))
  /\ UNCHANGED <<paper, reading>>

(* literal_support: the value is the sentence itself, and a data set's     *)
(* name may stand inside it.                                               *)
Literal(f, value, s) ==
  value = {s} \/ (f = "dataset" /\ \E name \in value : <<name, s>> \in Mentions)

(* _attach_evidence of an abstract.  The program looks for the two likest  *)
(* sentences, titles and metadata among them, and may not find the value's *)
(* own; the claim is the whole value.                                      *)
AbstractClaims(v, found) ==
  [f \in Fields |-> IF v[f] = {} THEN {}
     ELSE {[text |-> v[f],
            explicit |-> /\ f \in found
                         /\ \E s \in paper.abstract \cap CleanText : Literal(f, v[f], s)]}]

ReadAbstract(answer, found) ==
  /\ pc = "start"
  /\ ~HasFullText /\ paper.abstract # {}
  /\ LET v == Deduplicated(answer.fields)
     IN Done(Gated(v, AbstractClaims(v, found), answer.declared, v # answer.fields, "none"))
  /\ UNCHANGED <<paper, reading>>

FailAbstract ==
  /\ pc = "start"
  /\ ~HasFullText /\ paper.abstract # {}
  /\ Done(UnavailableCard)
  /\ UNCHANGED <<paper, reading>>

(* InterruptedError, a stopped execution, a vector store that refuses:     *)
(* there is no card.                                                       *)
Interrupt ==
  /\ pc \in {"start", "chunks"}
  /\ pc' = "raised"
  /\ UNCHANGED <<paper, reading, card>>

CardsNext ==
  \/ NoContent
  \/ \E hits \in Hits, failed \in BOOLEAN : RetrieveChunks(hits, failed)
  \/ PassChunk
  \/ \E answer \in ChunkAnswers : ReadChunk(answer)
  \/ FailChunk
  \/ FinishFullText
  \/ \E answer \in AbstractAnswers : \E found \in SUBSET Fields : ReadAbstract(answer, found)
  \/ FailAbstract
  \/ Interrupt

CardsSpec == CardsInit /\ [][CardsNext]_cardVars

-----------------------------------------------------------------------------
(* The sentences a card may rest on. *)
Readable ==
  IF paper.parsed # "none" /\ ~paper.cnki
  THEN UNION {Chunks[i].text : i \in Included} ELSE paper.abstract

(* Whatever the model answers, a method, a result or a limitation of a     *)
(* card, and every claim that counts as explicitly reported, is literally  *)
(* of the paper, and no copyright line or affiliation is in it; a method   *)
(* or a result that is kept rests on an explicit claim that reads as a     *)
(* sentence by itself, also when a fragment stayed in the joined value; a  *)
(* limitation stands in a full text that may be used, and its authors      *)
(* state it.                                                               *)
Grounded ==
  pc = "done" =>
    /\ \A f \in {"method", "results"} :
         /\ card.value[f] \subseteq Readable \ Marked
         /\ card.value[f] # {} =>
              \E c \in card.claims[f] :
                c.explicit /\ c.text \subseteq card.value[f] /\ c.text \in CleanValues
    /\ card.value.limitations # {} => paper.parsed = "full_text" /\ ~paper.cnki
    /\ card.value.limitations \subseteq Readable \cap LimitationText
    /\ \A f \in ContentFields : \A c \in card.claims[f] :
         c.explicit => c.text \subseteq Readable

(* "complete" says that every chunk that is not a reference list was read, *)
(* and a full text read in part never makes a valid card                   *)
(* (docs/full-text-extraction.md).                                         *)
CompleteRead ==
  pc = "done" /\ (card.coverage = "complete" \/ (HasFullText /\ card.quality = "valid")) =>
    /\ card.coverage = "complete"
    /\ ~stopped
    /\ \A i \in Included : status[i] = "processed"

(* A card says what its paper says, and how much of it was read.           *)
CardSound == Grounded /\ CompleteRead
=============================================================================
