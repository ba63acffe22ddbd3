---------------------------- MODULE Verification ----------------------------
(***************************************************************************)
(* The verification of a draft (app/agent/nodes/verification.py, graph.py  *)
(* _verify_generated_draft, nodes/synthesis.py _apply_final_quality_gate): *)
(* the sentences are checked against the cards, unsupported ones removed   *)
(* or reworded and checked again, the citations numbered, compared with    *)
(* the claims, and the gate passed or not; a session whose draft failed is *)
(* run again to verify the rest, to rewrite on the same evidence, or anew. *)
(*                                                                         *)
(* A review is a text or Nil.  The calls of the model are steps of their  *)
(* own, so that its answers are in between; numbering, comparing and the   *)
(* gate follow in one.  Left out: the alignment of claims before the check *)
(* (it records a ratio), the restoring of an older text, best effort (both *)
(* in Pipeline), the branch of a node that raised, and of the gate what it *)
(* reads elsewhere (scope, languages, failed sections, structure).         *)
(***************************************************************************)
EXTENDS ClaimCheck

CONSTANTS
  CardKinds,     \* the cards a paper may have: [level, spans, figures]
  Drafts,        \* the texts the writer may write
  Legacies,      \* the rendered texts of sessions saved before the sources were
  Wordings,      \* what the model may make of a sentence: [says, groups]
  Replies,       \* its answers: "entailed", "doubtful", "insufficient", "contradicted"
  Named,         \* BOUND on the sets of sentences the diagnoses may name
  RefsAsked,     \* required_reference_count
  ExplicitCount, \* max_papers_explicit
  FullShare,     \* synthesis_fulltext_support_rate: <<part, whole>>
  AbstractShare, \* synthesis_abstract_support_rate
  Dominance,     \* synthesis_abstract_dominance
  MaxDrafts,     \* BOUND on the texts written
  MaxSessions    \* BOUND on the runs of the session

VARIABLES
  deck,        \* paper_cards
  review,      \* review
  source,      \* citation_source_text
  rendered,    \* citation_rendered_text
  references,  \* citation_map: the papers in the order of their numbers
  report,      \* claim_verification
  cache,       \* claim_verification_cache
  quality,     \* generation_quality
  citing,      \* citation_validation
  consistency, \* claim_citation_consistency
  gate,        \* quality_gate: the issues found
  carried,     \* local_verification of the run
  must,        \* the run's mandatory action: "write", "verify" or "any"
  check,       \* the verification under way
  answers,     \* history: what the model answered to which question
  drafted, sessions

results == <<references, report, cache, quality, citing, consistency, gate>>
draftVars == <<deck, review, source, rendered, results, carried, must, check, answers,
               drafted, sessions>>

Idle == [phase |-> "idle", base |-> <<>>, body |-> <<>>, next |-> <<>>, first |-> Nil, found |-> Nil]

VerificationInit ==
  /\ deck \in [PaperIds -> CardKinds \cup {Nil}]
  /\ review \in {Nil} \cup Legacies
  /\ source = Nil /\ rendered = Nil /\ references = <<>> /\ report = Nil
  /\ cache = <<>> /\ quality = Nil /\ citing = Nil /\ consistency = Nil /\ gate = Nil
  /\ carried = Nil /\ must = (IF review = Nil THEN "write" ELSE "verify")
  /\ check = Idle /\ answers = {} /\ drafted = 0 /\ sessions = 1

-----------------------------------------------------------------------------
(* The numbers of a text are read in the text it was rendered from, and    *)
(* in no other.                                                            *)
Base == IF review = rendered /\ source # Nil THEN source ELSE review

(* A local check stands only while the evidence is what it was.            *)
Targets == IF carried # Nil /\ carried.deck = deck THEN carried.targets ELSE {}
Prior == IF carried # Nil /\ carried.deck = deck /\ carried.report # Nil THEN carried.report ELSE report

Given(new) == {k \in DOMAIN new : new[k] # Nil}
Learned(new) ==
  [k \in DOMAIN cache \cup Given(new) |-> IF k \in Given(new) THEN new[k] ELSE cache[k]]

Learn(new) == /\ cache' = Learned(new)
              /\ answers' = answers \cup {<<k, new[k]>> : k \in Given(new)}

Answering(text, old) == [Asked(text, Targets, old, deck, cache) -> Replies \cup {Nil}]
Examined(text, old, new) == Reported(text, Targets, old, deck, Learned(new))

(* A repaired text is no longer the one that was rendered.                 *)
Replace(text, by) ==
  IF by = text THEN UNCHANGED <<review, source, rendered>>
  ELSE review' = by /\ source' = Nil /\ rendered' = Nil

Waiting == check.phase = "idle" /\ review # Nil /\ gate = Nil /\ must # "write"

(* The first check; a few unsupported sentences are removed at once, for   *)
(* more of them the model is asked to reword.                              *)
Check(new) ==
  LET r == Examined(Base, Prior, new)
      bad == {k \in With(r, "unsupported") \ Open(r) :
                IsLocal(Targets, Prior, deck) => k \in Targets}
      kept == Pruned(Base, r, bad, Limit(r), deck, references)
  IN /\ Waiting /\ ~Numbered(Base)
     /\ Learn(new) /\ Replace(Base, kept)
     /\ check' = [phase |-> IF kept # Base THEN "pruned"
                            ELSE IF Cardinality(bad) > Limit(r) THEN "rewording" ELSE "checked",
                  base |-> Base, body |-> kept, next |-> Entries(r.claims, bad), first |-> r, found |-> r]
     /\ UNCHANGED <<deck, references, report, quality, citing, consistency, gate, carried, must,
                    drafted, sessions>>

Recheck(new) ==
  /\ check.phase = "pruned"
  /\ Learn(new)
  /\ check' = [check EXCEPT !.phase = "checked", !.found = Examined(check.body, check.found, new)]
  /\ UNCHANGED <<deck, review, source, rendered, references, report, quality, citing, consistency,
                 gate, carried, must, drafted, sessions>>

Rewrite(answer) ==
  LET text == Reworded(check.body, check.next, answer)
  IN /\ check.phase = "rewording"
     /\ check' = [check EXCEPT !.phase = IF text = check.body THEN "checked" ELSE "reworded",
                               !.next = text]
     /\ UNCHANGED <<deck, review, source, rendered, results, carried, must, answers, drafted,
                    sessions>>

(* The rewording is taken when fewer sentences are unsupported and nothing *)
(* else is worse; if only a few are left they are removed.                 *)
Judge(new) ==
  LET r == Examined(check.next, check.found, new)
      better == /\ Cardinality(With(r, "unsupported")) < Cardinality(With(check.found, "unsupported"))
                /\ Errors(check.next, deck, references) \subseteq Errors(check.body, deck, references)
      kept == Pruned(check.next, r, With(r, "unsupported"), Limit(check.first), deck, references)
  IN /\ check.phase = "reworded"
     /\ Learn(new)
     /\ IF better
        THEN /\ Replace(check.body, kept)
             /\ check' = [check EXCEPT !.phase = IF kept = check.next THEN "checked" ELSE "pruned",
                                       !.body = kept, !.found = r]
        ELSE /\ check' = [check EXCEPT !.phase = "checked"]
             /\ UNCHANGED <<review, source, rendered>>
     /\ UNCHANGED <<deck, references, report, quality, citing, consistency, gate, carried, must,
                    drafted, sessions>>

-----------------------------------------------------------------------------
(* generation_quality: twice the weighted rate, as a fraction.             *)
Quality(r) ==
  [open |-> Cardinality(Open(r)),
   unsupported |-> Cardinality(With(r, "unsupported")) - Cardinality(Open(r)),
   backed |-> 2 * Cardinality(With(r, "supported")) + Cardinality(With(r, "partial")),
   facts |-> 2 * Cardinality(Facts(r))]

Reaches(part, whole, share) == part * share[2] >= whole * share[1]

ShareAsked ==
  LET carded == {p \in PaperIds : deck[p] # Nil}
      thin == {p \in carded : deck[p].level # "full"}
  IN IF carded # {} /\ Reaches(Cardinality(thin), Cardinality(carded), Dominance)
     THEN AbstractShare ELSE FullShare

(* _apply_final_quality_gate: what stands against the text.                *)
Unsourced(r) == r # Nil /\ \E k \in DOMAIN r.claims : ~r.claims[k].sourced

TooFew(cited, granted) ==
  /\ ExplicitCount
  /\ (IF granted = Nil THEN Len(cited) ELSE Cardinality(granted.valid)) < RefsAsked

Bibliographic(valid) ==
  Issue("metadata", valid.poor # {}) \cup Issue("missing", valid.missing # {})

Unbacked(q) == q # Nil /\ q.unsupported > 0 /\ ~Reaches(q.backed, q.facts, ShareAsked)
Unfinished(q) == q # Nil /\ q.open > 0
Ungranted(granted) == granted # Nil /\ granted.bad > 0

IssuesOf(text, r, q, cited, valid, granted) ==
  Issue("evidence", Unsourced(r) \/ Unbacked(q))
  \cup Issue("count", TooFew(cited, granted))
  \cup Issue("integrity", Errors(text, deck, cited) # {})
  \cup Bibliographic(valid)
  \cup Issue("open", Unfinished(q))
  \cup Issue("consistency", Ungranted(granted))

Settle ==
  LET text == check.body
      cited == Referenced(text)
      shown == Rendered(text, cited)
      granted == IF ClaimSeq # <<>> /\ cited # <<>> THEN Authorised(shown, cited) ELSE consistency
      valid == Validated(text, cited)
      q == Quality(check.found)
  IN /\ check.phase = "checked"
     /\ report' = check.found /\ quality' = q
     /\ source' = text /\ rendered' = shown /\ review' = shown
     /\ references' = cited /\ citing' = valid /\ consistency' = granted
     /\ gate' = IssuesOf(shown, check.found, q, cited, valid, granted)
     /\ check' = Idle /\ must' = IF must = "verify" THEN "verify" ELSE "any"
     /\ UNCHANGED <<deck, cache, carried, answers, drafted, sessions>>

(* The numbers of a text that was not saved with its source prove nothing. *)
Refuse ==
  LET granted == IF consistency = Nil THEN Nil ELSE [consistency EXCEPT !.valid = {}]
      valid == [missing |-> {}, poor |-> {}]
  IN /\ Waiting /\ Numbered(Base)
     /\ report' = Nil /\ quality' = Nil
     /\ source' = Nil /\ rendered' = Nil /\ references' = <<>>
     /\ citing' = valid /\ consistency' = granted
     /\ gate' = IssuesOf(review, Nil, Nil, <<>>, valid, granted)
     /\ UNCHANGED <<deck, review, cache, carried, must, check, answers, drafted, sessions>>

-----------------------------------------------------------------------------
(* A text is written: the results on the last one stay until it is checked,*)
(* except what would tell where its numbers come from.                     *)
Draft(text) ==
  /\ check.phase = "idle" /\ must # "verify" /\ drafted < MaxDrafts
  /\ review' = text /\ source' = Nil /\ rendered' = Nil
  /\ quality' = Nil /\ gate' = Nil
  /\ must' = "any" /\ drafted' = drafted + 1
  /\ UNCHANGED <<deck, references, report, cache, citing, consistency, carried, check, answers, sessions>>

Clear ==
  /\ review' = Nil /\ source' = Nil /\ rendered' = Nil /\ references' = <<>>
  /\ report' = Nil /\ cache' = <<>> /\ quality' = Nil /\ citing' = Nil
  /\ consistency' = Nil /\ gate' = Nil

(* New evidence takes what was written on the old one away (BOUND: while   *)
(* a text may still be written).                                           *)
Read(p, card) ==
  /\ check.phase = "idle" /\ must # "verify" /\ card # deck[p] /\ drafted < MaxDrafts
  /\ deck' = [deck EXCEPT ![p] = card]
  /\ Clear /\ must' = "write"
  /\ UNCHANGED <<carried, check, answers, drafted, sessions>>

Failed == check.phase = "idle" /\ gate # Nil /\ gate # {} /\ sessions < MaxSessions

(* Verification only: the open claims are targets, with what else the      *)
(* diagnoses name, if it is not settled; without a report, the whole text. *)
VerifyAgain(extra) ==
  LET open == IF report = Nil THEN {} ELSE Open(report) \cup extra
  IN /\ Failed
     /\ report # Nil => /\ report.claims # <<>> => open # {}
                         /\ extra \subseteq DOMAIN report.claims \ Facts(report)
     /\ report = Nil => extra = {}
     /\ carried' = IF open = {} THEN Nil ELSE [targets |-> open, report |-> report, deck |-> deck]
     /\ must' = "verify" /\ gate' = Nil /\ sessions' = sessions + 1
     /\ UNCHANGED <<deck, review, source, rendered, references, report, cache, quality, citing,
                    consistency, check, answers, drafted>>

(* On the same evidence only the sentences named are checked in the new    *)
(* text; else everything that was made from it is made again.              *)
Redraft(targets) ==
  /\ Failed /\ gate \subseteq {"evidence", "count", "integrity", "missing", "consistency"}
  /\ targets \subseteq (IF report = Nil THEN {} ELSE DOMAIN report.claims)
  /\ carried' = [targets |-> targets, report |-> report, deck |-> deck]
  /\ must' = "write" /\ gate' = Nil /\ sessions' = sessions + 1
  /\ UNCHANGED <<deck, review, source, rendered, references, report, cache, quality, citing,
                 consistency, check, answers, drafted>>

Rebuild ==
  /\ Failed
  /\ Clear /\ carried' = Nil /\ must' = "write" /\ sessions' = sessions + 1
  /\ UNCHANGED <<deck, check, answers, drafted>>

VerificationNext ==
  \/ Waiting /\ ~Numbered(Base) /\ \E new \in Answering(Base, Prior) : Check(new)
  \/ check.phase = "pruned" /\ \E new \in Answering(check.body, check.found) : Recheck(new)
  \/ check.phase = "rewording" /\ \E answer \in [DOMAIN check.next -> Wordings \cup {Nil}] : Rewrite(answer)
  \/ check.phase = "reworded" /\ \E new \in Answering(check.next, check.found) : Judge(new)
  \/ Settle
  \/ Refuse
  \/ \E text \in Drafts : Draft(text)
  \/ \E p \in PaperIds, card \in CardKinds : Read(p, card)
  \/ \E extra \in Named : VerifyAgain(extra)
  \/ \E targets \in Named : Redraft(targets)
  \/ Rebuild

-----------------------------------------------------------------------------
(* A delivered text shows what was checked: every sentence was put to the  *)
(* report, every number in it is a confirmed paper that sentence cited and *)
(* whose evidence is there, a sentence that counts as backed was answered  *)
(* for by the model for each of its papers on the card as it is, no fact   *)
(* is without a citation, and unsupported ones are within the share.  (A   *)
(* text that was refused is held back by the number of references asked    *)
(* for: ExplicitCount; without one the gate lets it through.)              *)
Backs(says, label) ==
  label \in {"entailed", "doubtful"} \/ (label = "insufficient" /\ says \in Surveys)

DeliveredJudged ==
  gate = {} =>
    /\ Len(report.claims) = Len(source) /\ Len(review) = Len(source)
    /\ \A k \in DOMAIN source :
         /\ Alike(report.claims[k], source[k])
         /\ \A c \in Cites(review[k]) :
              /\ IsNumber(c) /\ c \in DOMAIN references
              /\ references[c] \in Cites(source[k]) \ Unconfirmed
              /\ Sourced(deck, references[c])
         /\ report.claims[k].status \in {"supported", "partial"} =>
              \A c \in Cites(source[k]) : \E a \in answers :
                 a[1] = Key(source[k].says, c, deck) /\ Backs(source[k].says, a[2])
         /\ source[k].says \in Claiming => source[k].groups # <<>>
    /\ With(report, "unsupported") # {} =>
         Reaches(2 * Cardinality(With(report, "supported")) + Cardinality(With(report, "partial")),
                 2 * Cardinality(Facts(report)), ShareAsked)

(* However a text is repaired between two calls of the model, no planned   *)
(* section is lost, no sentence cites a paper it or its section did not    *)
(* cite, no sentence that was supported is gone, and no more sentences are *)
(* unsupported than before.                                                *)
RepairSound ==
  check.phase = "checked" /\ check'.phase = "idle" =>
    /\ \A k \in DOMAIN check.base : check.base[k].part \in Parts =>
         \E j \in DOMAIN source' : source'[j].part = check.base[k].part
    /\ \A j \in DOMAIN source' : \E k \in DOMAIN check.base :
         check.base[k].part = source'[j].part /\ Cites(source'[j]) \subseteq Cites(check.base[k])
    /\ \A k \in With(check.first, "supported") : \E j \in DOMAIN source' :
         Alike(source'[j], check.base[k])
    /\ Cardinality(With(report', "unsupported")) <= Cardinality(With(check.first, "unsupported"))

RepairsSound == [][RepairSound]_draftVars

(* synthesis.py 1960: not one sentence of a delivered text cites a paper   *)
(* that the claim it makes does not rest on.                               *)
CitesAuthorized ==
  gate = {} => \A k \in DOMAIN source :
    LET cited == {references[c] : c \in Cites(review[k])}
    IN cited \subseteq Licence(source[k].says, cited)
=============================================================================
