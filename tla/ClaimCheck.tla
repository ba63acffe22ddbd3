----------------------------- MODULE ClaimCheck -----------------------------
(***************************************************************************)
(* What is found about a written text (app/tools/verify_claims.py,         *)
(* validate_deliverable.py, generate_citation.py, core/citation_syntax.py, *)
(* agent/claim_plan.py): each sentence is cut into one unit per paper it   *)
(* cites, a unit with sound evidence is put to the model, the answers are  *)
(* gathered into a report; the whole text is checked for its sections, its *)
(* citations are numbered, and the numbers compared with the claims.       *)
(*                                                                         *)
(* A sentence is [part, says, groups]: its section, what it says, and the  *)
(* bracketed groups of what it cites, papers or, once rendered, numbers.   *)
(* BOUND: a sentence is one clause (";" would make several), no sentence   *)
(* is a piece of another one, and two that say different things are never  *)
(* 92% alike.  Normalising full-width brackets changes no id.  The scores  *)
(* of lexical overlap, which the model's answers replace, are left out.    *)
(***************************************************************************)
EXTENDS Lists

LOCAL INSTANCE SequencesExt

CONSTANTS
  PaperIds,    \* the papers of the session
  Strays,      \* ids a text may cite that are no paper
  Unconfirmed, \* the papers kept by a rule that no model has confirmed
  Poor,        \* the papers with incomplete or unverified metadata
  Claiming,    \* the statements that are facts even without a citation
  Surveys,     \* those that sum up several papers
  FullText,    \* those only a full text can bear out
  Figured,     \* those that give figures
  Soften,      \* a statement without its strong words, another without its
  Unfigure,    \*   figures: functions of the statements that have one
  Flawed,      \* the statements no final text may hold
  Parts,       \* the planned sections
  Routed,      \* those of a route, which need Floor papers and MinBody
  Floor,       \*   sentences: minimum_unique_references and
  MinBody,     \*   route_section_min_plain_chars
  Authorized,  \* the papers each section may rest on
  ClaimSeq,    \* the planned claims: sequence of [says, papers]
  Overlap,     \* the words two statements share
  FewRemoved,  \* sentences that may be removed from a short text,
  MostRemoved, \*   and from a long one
  Nil

ASSUME ClaimCheckAssumption ==
  /\ Unconfirmed \cup Poor \subseteq PaperIds /\ PaperIds \cap Strays = {}
  /\ Routed \subseteq Parts /\ Floor \in Nat /\ MinBody \in Nat
  /\ FewRemoved \in Nat /\ MostRemoved \in Nat /\ FewRemoved <= MostRemoved

-----------------------------------------------------------------------------
(* What a sentence cites: extract_citation_ids, split_citation_group.      *)
Distinct(s) == Entries(s, {k \in DOMAIN s : \A j \in 1 .. k - 1 : s[j] # s[k]})
Cited(s) == Distinct(FlattenSeq(s.groups))
Cites(s) == ToSet(FlattenSeq(s.groups))
CitesOf(text) == UNION {Cites(text[k]) : k \in DOMAIN text}
IsNumber(c) == c \notin PaperIds \cup Strays
Numbered(text) == \E c \in CitesOf(text) : IsNumber(c)

Alike(s, t) == s.says = t.says /\ s.groups = t.groups
IsFact(s) == s.groups # <<>> \/ s.says \in Claiming

(* No citation shares the evidence of another: a unit for each of them.    *)
Units(s) == IF s.groups = <<>> THEN <<Nil>> ELSE Cited(s)

(* A card is [level, spans, figures]: how much of the paper was read, and  *)
(* whether the best pieces of it are there and short enough to be judged.  *)
CardAt(deck, c) == IF c \in PaperIds THEN deck[c] ELSE Nil
Sourced(deck, c) == CardAt(deck, c) # Nil /\ deck[c].spans = "fit"
Suffices(says, card) == card.level # "title" /\ (says \in FullText => card.level = "full")

(* The issues of a unit that no answer of the model can lift; only figures *)
(* that are not found are still put to it.                                 *)
Issue(name, stands) == IF stands THEN {name} ELSE {}

Faults(says, c, deck) ==
  LET card == CardAt(deck, c)
  IN Issue("unsourced", ~Sourced(deck, c))
     \cup Issue("weak", card # Nil /\ ~Suffices(says, card))
     \cup Issue("unfounded", says \in Figured /\ ~(card # Nil /\ card.figures))

Askable(says, c, deck) == Faults(says, c, deck) \subseteq {"unfounded"}

(* What an answer holds for: _entailment_fingerprint.                      *)
Key(says, c, deck) == <<says, c, deck[c]>>

(* A unit: unsupported for good when it cannot be asked, open while there  *)
(* is no answer; "doubtful" is an entailment of low confidence.            *)
Verdict(says, c, deck, known) ==
  LET asked == Askable(says, c, deck)
      label == IF asked /\ Key(says, c, deck) \in DOMAIN known
               THEN known[Key(says, c, deck)] ELSE Nil
      unfounded == "unfounded" \in Faults(says, c, deck)
  IN [status |-> CASE label = Nil \/ unfounded -> "unsupported"
                   [] label = "entailed" -> "supported"
                   [] label = "doubtful" \/ (label = "insufficient" /\ says \in Surveys) -> "partial"
                   [] OTHER -> "unsupported",
      done |-> asked => label # Nil,
      sourced |-> Sourced(deck, c),
      unfounded |-> unfounded]

(* The claim of a sentence is the worst of its units, but of the citations *)
(* it keeps those of the first one: _aggregate_atomic_results.             *)
ClaimOf(s, deck, known) ==
  LET units == Units(s)
      found == [k \in DOMAIN units |-> Verdict(s.says, units[k], deck, known)]
      all(status) == \A k \in DOMAIN found : found[k].status = status
      any(status) == \E k \in DOMAIN found : found[k].status = status
      claim(fact, status, done, sourced, unfounded) ==
        [says |-> s.says, groups |-> s.groups, cites |-> {units[1]} \ {Nil}, fact |-> fact,
         status |-> status, done |-> done, sourced |-> sourced, unfounded |-> unfounded]
  IN IF ~IsFact(s) THEN claim(FALSE, "none", TRUE, TRUE, FALSE)
     ELSE claim(TRUE,
       IF all("supported") THEN "supported" ELSE IF any("unsupported") THEN "unsupported" ELSE "partial",
       \A k \in DOMAIN found : found[k].done,
       \A k \in DOMAIN found : found[k].sourced,
       \E k \in DOMAIN found : found[k].unfounded)

(* Only the targets are looked at again when there is a report on the same *)
(* evidence; an empty list of targets means the whole text.                *)
IsLocal(targets, old, deck) ==
  targets # {} /\ old # Nil /\ old.claims # <<>> /\ old.deck = deck

(* FAULT: a claim is kept for whatever sentence took its place. *)
ReusableByPlace(text, targets, old, deck) ==
  [k \in DOMAIN text |->
     IF IsLocal(targets, old, deck) /\ k \notin targets /\ k \in DOMAIN old.claims THEN k ELSE 0]

(* The old claim each sentence keeps, 0 for none: that of its own place or *)
(* the only one of its wording not taken yet.                              *)
Inherited(kept, s, targets, old) ==
  LET k == Len(kept) + 1
      alike == {j \in DOMAIN old.claims : Alike(old.claims[j], s)}
      free == alike \ ToSet(kept)
  IN IF k \in targets THEN 0
     ELSE IF k \in alike THEN k
     ELSE IF Cardinality(free) = 1 THEN CHOOSE j \in free : TRUE ELSE 0

Reusable(text, targets, old, deck) ==
  IF ~IsLocal(targets, old, deck) THEN [k \in DOMAIN text |-> 0]
  ELSE FoldLeft(LAMBDA kept, s : Append(kept, Inherited(kept, s, targets, old)), <<>>, text)

(* The questions a check asks, and the report it makes.                    *)
Asked(text, targets, old, deck, known) ==
  LET kept == Reusable(text, targets, old, deck)
      anew == {k \in DOMAIN text : kept[k] = 0}
      units == UNION {{<<text[k].says, c>> : c \in ToSet(Units(text[k]))} : k \in anew}
  IN {Key(u[1], u[2], deck) : u \in {u \in units : Askable(u[1], u[2], deck)}} \ DOMAIN known

Reported(text, targets, old, deck, known) ==
  LET kept == Reusable(text, targets, old, deck)
  IN [claims |-> [k \in DOMAIN text |->
        IF kept[k] = 0 THEN ClaimOf(text[k], deck, known) ELSE old.claims[kept[k]]],
      deck |-> deck]

Facts(r) == {k \in DOMAIN r.claims : r.claims[k].fact}
With(r, status) == {k \in Facts(r) : r.claims[k].status = status}
Open(r) == {k \in Facts(r) : ~r.claims[k].done}

-----------------------------------------------------------------------------
(* The whole text: validate_final_review_integrity.  Its messages name the *)
(* sections at fault, so a shorter list is a new message.                  *)
Body(text, part) == {k \in DOMAIN text : text[k].part = part}
Resolved(c, refs) == IF IsNumber(c) /\ c \in DOMAIN refs THEN refs[c] ELSE c

Credited(text, part, deck, refs) ==
  LET cited == {Resolved(c, refs) : c \in UNION {Cites(text[k]) : k \in Body(text, part)}}
      carded == {p \in PaperIds : deck[p] # Nil}
      allowed == IF carded = {} THEN Authorized[part] ELSE Authorized[part] \cap carded
      known == cited = {} \/ carded = {} \/ cited \cap carded # {}
  IN IF allowed # {} /\ known THEN cited \cap allowed ELSE cited

Thin(text, deck, refs) ==
  {p \in Routed : /\ Floor > 0 /\ Body(text, p) # {}
                  /\ \/ Cardinality(Credited(text, p, deck, refs)) < Floor
                     \/ Cardinality(Body(text, p)) < MinBody}

Repeats(text) ==
  {k \in DOMAIN text : \E j \in 1 .. k - 1 : text[j].says = text[k].says}

Errors(text, deck, refs) ==
  {e \in {<<"missing", Parts \ {text[k].part : k \in DOMAIN text}>>,
          <<"thin", Thin(text, deck, refs)>>} : e[2] # {}}
  \cup (IF Repeats(text) # {} THEN {<<"repeated", {}>>} ELSE {})
  \cup (IF \E k \in DOMAIN text : text[k].says \in Flawed THEN {<<"flawed", {}>>} ELSE {})

-----------------------------------------------------------------------------
(* Repairs: the first sentence worded as the claim goes, or is replaced.   *)
Place(text, claim) ==
  LET at == {k \in DOMAIN text : Alike(text[k], claim)}
  IN IF at = {} THEN 0 ELSE CHOOSE k \in at : \A j \in at : k <= j

Drop(text, claim) == IF Place(text, claim) = 0 THEN text ELSE RemoveAt(text, Place(text, claim))

Without(text, claims) == FoldLeft(Drop, text, claims)

(* Removal is for a few sentences of a text it does not harm.              *)
Limit(r) ==
  LET tenth == Cardinality(Facts(r)) \div 10
      most == IF tenth < MostRemoved THEN tenth ELSE MostRemoved
  IN IF most > FewRemoved THEN most ELSE FewRemoved

(* FAULT: a removal is not checked for what it leaves of the text. *)
PrunedAnyway(text, r, bad, limit, deck, refs) ==
  IF Cardinality(bad) <= limit THEN Without(text, Entries(r.claims, bad)) ELSE text

Pruned(text, r, bad, limit, deck, refs) ==
  LET rest == Without(text, Entries(r.claims, bad))
  IN IF Cardinality(bad) <= limit /\ Errors(rest, deck, refs) \subseteq Errors(text, deck, refs)
     THEN rest ELSE text

(* The model's wording, when it cites what the claim keeps of the          *)
(* citations and repeats no other sentence; "tried" are those replaced.    *)
Reword(done, claim, wording) ==
  LET at == Place(done.text, claim)
      new == [part |-> done.text[at].part, says |-> wording.says, groups |-> wording.groups]
  IN IF /\ wording # Nil /\ at # 0
        /\ Cites(wording) = claim.cites
        /\ wording.says # claim.says => \A k \in DOMAIN done.text : done.text[k].says # wording.says
     THEN [text |-> [done.text EXCEPT ![at] = new], tried |-> Append(done.tried, claim)]
     ELSE done

Apply(f, says) == IF says \in DOMAIN f THEN f[says] ELSE says

(* By rule: strong words and, where the figures were not found, figures.   *)
Weaken(done, claim) ==
  LET at == Place(done.text, claim)
      soft == Apply(Soften, claim.says)
      says == IF claim.unfounded THEN Apply(Soften, Apply(Unfigure, soft)) ELSE soft
  IN IF at # 0 /\ says # claim.says /\ ~\E k \in DOMAIN done.tried : Alike(done.tried[k], claim)
     THEN [text |-> [done.text EXCEPT ![at].says = says], tried |-> Append(done.tried, claim)]
     ELSE done

(* "answer" is the model's wording for each of the claims.                 *)
Reworded(text, claims, answer) ==
  LET worded == FoldLeftDomain(LAMBDA done, k : Reword(done, claims[k], answer[k]),
                               [text |-> text, tried |-> <<>>], claims)
  IN FoldLeft(Weaken, worded, claims).text

-----------------------------------------------------------------------------
(* The references are numbered in the order of their first citation; a     *)
(* group keeps three of its papers, what names none stays as it is.        *)
Referenced(text) ==
  LET cited == FlattenSeq([k \in DOMAIN text |-> FlattenSeq(text[k].groups)])
  IN Distinct(Entries(cited, {k \in DOMAIN cited : cited[k] \in PaperIds \ Unconfirmed}))

Number(c, refs) == IF \E n \in DOMAIN refs : refs[n] = c THEN CHOOSE n \in DOMAIN refs : refs[n] = c ELSE c

Rendered(text, refs) ==
  LET group(g) == [i \in 1 .. (IF Len(g) < 3 THEN Len(g) ELSE 3) |-> Number(g[i], refs)]
  IN [k \in DOMAIN text |->
        [text[k] EXCEPT !.groups = [g \in DOMAIN text[k].groups |-> group(text[k].groups[g])]]]

(* citation_validation, as far as the gate reads it.                       *)
Validated(text, refs) ==
  [missing |-> CitesOf(text) \ ToSet(refs), poor |-> ToSet(refs) \cap Poor]

(* The papers a statement may cite: those of the claim it says most of, of *)
(* the claims it says as much of the first that has one of them.           *)
Matching(says) ==
  {k \in DOMAIN ClaimSeq :
     /\ Overlap[says, ClaimSeq[k].says] > 0
     /\ \A j \in DOMAIN ClaimSeq : Overlap[says, ClaimSeq[j].says] <= Overlap[says, ClaimSeq[k].says]}

Licence(says, cited) ==
  LET best == Matching(says)
      meant == {k \in best : ClaimSeq[k].papers \cap cited # {}}
      among == IF meant # {} THEN meant ELSE best
  IN IF best = {} THEN UNION {ClaimSeq[k].papers : k \in DOMAIN ClaimSeq}
     ELSE ClaimSeq[CHOOSE k \in among : \A j \in among : k <= j].papers

(* claim_citation_consistency reads the groups of one number: "[1, 2]" is  *)
(* not matched by its pattern.                                             *)
Single(s, refs) ==
  {refs[c] : c \in {c \in {s.groups[g][1] : g \in {g \in DOMAIN s.groups : Len(s.groups[g]) = 1}} :
                      IsNumber(c) /\ c \in DOMAIN refs}}

Authorised(text, refs) ==
  LET read(k) == Single(text[k], refs)
      granted(k) == Licence(text[k].says, read(k))
      bad == {k \in DOMAIN text : ~(read(k) \subseteq granted(k))}
      taken(k) == IF k \in bad /\ Matching(text[k].says) = {} THEN {} ELSE read(k) \cap granted(k)
  IN [bad |-> Cardinality(bad), valid |-> UNION {taken(k) : k \in DOMAIN text}]
=============================================================================
