--------------------------- MODULE PipelineProofs ---------------------------
(***************************************************************************)
(* Proofs about Pipeline: what a text rests on is current, for any number  *)
(* of papers, contents, texts and runs.                                    *)
(***************************************************************************)
EXTENDS Pipeline, TLAPS

(* The products are a record and stay one, also those that are saved; the  *)
(* source of a saved text holds its own claims.                            *)
ProductKeys == {"text", "claims", "gate", "issues", "blocked", "pending", "verified"}
Shaped(p) == p = [k \in ProductKeys |-> p[k]]
PreviousSound ==
  previous # Unsaved =>
    Shaped(previous.products) /\ previous.source[3] = previous.products.claims
Tables ==
  details = [p \in Papers |-> details[p]] /\ cards = [p \in Papers |-> cards[p]]

EInv == Tables /\ Shaped(products) /\ PreviousSound /\ EvidenceCurrent

LEMMA BlankShaped == Shaped(Blank) /\ Blank.claims = None
  BY DEF Shaped, ProductKeys, Blank

LEMMA InitEInv == Init => EInv
<1> SUFFICES ASSUME Init PROVE EInv
  OBVIOUS
<1>1. Tables /\ Carded = {}
  BY DEF Init, Tables, NoPapers, Carded
<1>2. Shaped(products) /\ products.claims = None
  BY BlankShaped DEF Init
<1>3. QED
  BY <1>1, <1>2 DEF Init, EInv, PreviousSound, EvidenceCurrent

(* Writing, judging and restoring keep the record and the claims. *)
LEMMA WrittenShaped ==
  ASSUME Shaped(products), NEW r \in {"text", "notice", "nothing", "error"}
  PROVE  /\ Shaped([Written(r) EXCEPT !.pending = Written(r).text # 0])
         /\ [Written(r) EXCEPT !.pending = Written(r).text # 0].claims = products.claims
<1>1. CASE r = "text"
  BY <1>1 DEF Shaped, ProductKeys, Written
<1>2. CASE r = "notice"
  BY <1>2 DEF Shaped, ProductKeys, Written
<1>3. CASE r = "nothing"
  BY <1>3 DEF Shaped, ProductKeys, Written
<1>4. CASE r = "error"
  BY <1>4 DEF Shaped, ProductKeys, Written
<1> QED
  BY <1>1, <1>2, <1>3, <1>4

LEMMA JudgedShaped ==
  ASSUME Shaped(products), NEW found
  PROVE  Shaped(Verified(Judged(found))) /\ Verified(Judged(found)).claims = products.claims
<1>1. Shaped(Judged(found)) /\ Judged(found).claims = products.claims
  BY DEF Shaped, ProductKeys, Judged
<1>2. QED
  BY <1>1 DEF Shaped, ProductKeys, Verified

LEMMA RestoredShaped ==
  ASSUME NEW old, Shaped(old)
  PROVE  Shaped(Restored(old)) /\ Restored(old).claims = old.claims
  BY DEF Shaped, ProductKeys, Restored

(* A change of the evidence that takes the routes and the products with it. *)
LEMMA InvalidateKeeps ==
  ASSUME EInv, NEW changed \in BOOLEAN, Invalidate(changed),
         ~changed => cards' = cards,
         Tables', \A p \in Carded' : cards'[p].of = details'[p],
         UNCHANGED sufficiency
  PROVE  EInv'
<1>1. CASE changed
  <2>1. routes' = None /\ products' = Blank /\ previous' = Unsaved
    BY <1>1 DEF Invalidate
  <2>2. QED
    BY <2>1, BlankShaped DEF EInv, EvidenceCurrent, PreviousSound, Shaped
<1>2. CASE ~changed
  BY <1>2 DEF Invalidate, EInv, EvidenceCurrent, PreviousSound, Shaped
<1>3. QED
  BY <1>1, <1>2

LEMMA FetchEInv ==
  ASSUME EInv, NEW confirmed \in BOOLEAN, NEW admitted, NEW read,
         Fetch(confirmed, admitted, read)
  PROVE  EInv'
<1> DEFINE next == Fetched(confirmed, admitted, read)
<1>1. details' = next /\ (next = details => cards' = cards)
      /\ (next # details => cards' = StillValid(next))
      /\ Invalidate(next # details) /\ UNCHANGED sufficiency
  BY DEF Fetch
<1>2. Tables'
  BY <1>1 DEF EInv, Tables, Fetched, StillValid
<1>3. ASSUME NEW p \in Carded'
      PROVE  cards'[p].of = details'[p]
  <2>1. p \in Papers /\ cards'[p] # None
    BY <1>3 DEF Carded
  <2>2. CASE next = details
    BY <1>1, <2>1, <2>2 DEF EInv, EvidenceCurrent, Carded
  <2>3. CASE next # details
    <3>1. cards'[p] = IF next[p] = details[p] THEN cards[p] ELSE None
      BY <1>1, <2>1, <2>3 DEF StillValid
    <3>2. next[p] = details[p] /\ cards[p] # None
      BY <2>1, <3>1
    <3>3. QED
      BY <1>1, <2>1, <3>1, <3>2 DEF EInv, EvidenceCurrent, Carded
  <2>4. QED
    BY <2>2, <2>3
<1>4. QED
  BY <1>1, <1>2, <1>3, InvalidateKeeps

LEMMA ExtractEInv ==
  ASSUME EInv, NEW take, Extract(take)
  PROVE  EInv'
<1>1. UNCHANGED <<details, sufficiency>> /\ Invalidate(cards' # cards)
  BY DEF Extract
<1>2. cards' = [p \in Papers |-> IF Reused(p) THEN cards[p]
                  ELSE IF details[p] # None THEN [of |-> details[p], take |-> take]
                  ELSE None]
  BY DEF Extract
<1>3. Tables'
  BY <1>1, <1>2 DEF EInv, Tables
<1>4. ASSUME NEW p \in Carded'
      PROVE  cards'[p].of = details'[p]
  <2>1. p \in Papers /\ cards'[p] # None
    BY <1>4 DEF Carded
  <2>2. CASE Reused(p)
    BY <1>1, <1>2, <2>1, <2>2 DEF EInv, EvidenceCurrent, Carded, Reused
  <2>3. CASE ~Reused(p)
    <3>1. cards'[p] = [of |-> details[p], take |-> take]
      BY <1>2, <2>1, <2>3
    <3>2. QED
      BY <1>1, <3>1
  <2>4. QED
    BY <2>2, <2>3
<1>5. QED
  BY <1>1, <1>3, <1>4, InvalidateKeeps

LEMMA RegenerateEInv ==
  ASSUME EInv, NEW conservative \in BOOLEAN, NEW directed \in BOOLEAN,
         NEW refresh \in BOOLEAN, NEW how, NEW effort \in BOOLEAN,
         NEW excluded \in SUBSET Papers,
         Regenerate(conservative, directed, refresh, how, effort, excluded)
  PROVE  EInv'
<1> DEFINE local == Local(conservative) /\ ~refresh /\ excluded = {}
<1>1. /\ details' = [p \in Papers |-> IF p \in excluded THEN None ELSE details[p]]
      /\ cards' = [p \in Papers |-> IF p \in excluded THEN None ELSE cards[p]]
      /\ routes' = IF local THEN routes ELSE None
      /\ sufficiency' = IF local THEN sufficiency ELSE None
      /\ products' = IF local THEN [products EXCEPT !.verified = None] ELSE Blank
      /\ previous' = IF local THEN previous ELSE Unsaved
  BY DEF Regenerate
<1>2. Tables'
  BY <1>1 DEF Tables
<1>3. \A p \in Carded' : cards'[p].of = details'[p]
  BY <1>1 DEF EInv, EvidenceCurrent, Carded
<1>4. CASE local
  <2>1. cards' = cards
    BY <1>1, <1>4 DEF EInv, Tables
  <2>2. Shaped(products') /\ products'.claims = products.claims
    BY <1>1, <1>4 DEF EInv, Shaped, ProductKeys
  <2>3. routes' = routes /\ sufficiency' = sufficiency /\ previous' = previous
    BY <1>1, <1>4
  <2>4. QED
    BY <1>2, <1>3, <2>1, <2>2, <2>3 DEF EInv, EvidenceCurrent, PreviousSound, Shaped
<1>5. CASE ~local
  BY <1>1, <1>2, <1>3, <1>5, BlankShaped
     DEF EInv, EvidenceCurrent, PreviousSound, Shaped
<1>6. QED
  BY <1>4, <1>5

LEMMA ValidateEInv ==
  ASSUME EInv, NEW found, ValidateResult(found)
  PROVE  EInv'
<1> DEFINE judged == Verified(Judged(found))
           restore == Comparable /\ ~NotWorse(previous.products, judged)
<1>1. products' = (IF restore THEN Restored(previous.products) ELSE judged)
      /\ previous' = Unsaved /\ UNCHANGED <<details, cards, routes, sufficiency>>
  BY DEF ValidateResult, evidence, analysis
<1>2. Shaped(products') /\ products'.claims = products.claims
  <2>1. CASE restore
    <3>1. Shaped(previous.products) /\ previous.products.claims = products.claims
      BY <2>1 DEF Comparable, Source, EInv, PreviousSound
    <3>2. QED
      BY <1>1, <2>1, <3>1, RestoredShaped
  <2>2. CASE ~restore
    BY <1>1, <2>2, JudgedShaped DEF EInv
  <2>3. QED
    BY <2>1, <2>2
<1>3. QED
  BY <1>1, <1>2 DEF EInv, Tables, EvidenceCurrent, PreviousSound, Carded, Shaped

LEMMA WriteEInv ==
  ASSUME EInv, NEW r \in {"text", "notice", "nothing", "error"}, Write(r)
  PROVE  EInv'
<1>1. /\ products' = [Written(r) EXCEPT !.pending = Written(r).text # 0]
      /\ previous' = Saved
      /\ UNCHANGED <<details, cards, routes, sufficiency>>
  BY DEF Write, evidence, analysis
<1>2. Shaped(products') /\ products'.claims = products.claims
  BY <1>1, WrittenShaped DEF EInv
<1>3. PreviousSound'
  BY <1>1 DEF EInv, Saved, Source, PreviousSound, Shaped
<1>4. QED
  BY <1>1, <1>2, <1>3 DEF EInv, Tables, EvidenceCurrent, Carded

LEMMA ClaimsEInv ==
  ASSUME EInv, NEW plan, NEW computed \in BOOLEAN, PlanClaims(plan, computed)
  PROVE  EInv'
<1>1. /\ products' = [products EXCEPT !.claims =
             IF Structure = None THEN None
             ELSE [cards |-> cards, on |-> Structure, plan |-> plan]]
      /\ sufficiency' = (IF computed THEN cards ELSE None)
      /\ UNCHANGED <<details, cards, routes, previous>>
  BY DEF PlanClaims, evidence
<1>2. Shaped(products')
      /\ products'.claims # None => products'.claims.cards = cards
  BY <1>1 DEF EInv, Shaped, ProductKeys
<1>3. QED
  BY <1>1, <1>2 DEF EInv, Tables, EvidenceCurrent, PreviousSound, Carded, Shaped

(* Operations and entries that leave cards, claims and saved text alone.   *)
LEMMA OthersEInv ==
  ASSUME EInv, UNCHANGED <<details, cards, products, previous>>,
         routes' = routes \/ (routes' # None => routes'.cards = cards),
         sufficiency' \in {sufficiency, cards}
  PROVE  EInv'
  BY DEF EInv, Tables, EvidenceCurrent, PreviousSound, Carded, Shaped

LEMMA StopEInv ==
  ASSUME EInv, NEW status, NEW missing \in BOOLEAN, Stop(status, missing)
  PROVE  EInv'
<1>1. UNCHANGED <<details, cards, routes, sufficiency, previous>>
  BY DEF Stop, analysis
<1>2. Shaped(products') /\ products'.claims = products.claims
  BY DEF Stop, EInv, Shaped, ProductKeys
<1>3. QED
  BY <1>1, <1>2 DEF EInv, Tables, EvidenceCurrent, PreviousSound, Carded, Shaped

LEMMA OperationEInv == EInv /\ Operation => EInv'
<1> SUFFICES ASSUME EInv, Operation PROVE EInv'
  OBVIOUS
<1>1. CASE \E found \in SUBSET Papers : Search(found) \/ TargetedSearch(found)
  BY <1>1, OthersEInv DEF Search, TargetedSearch, analysis, drafts
<1>2. CASE \E confirmed \in BOOLEAN, admitted \in SUBSET Papers,
            read \in [Papers -> Contents \cup {None}] : Fetch(confirmed, admitted, read)
  BY <1>2, FetchEInv
<1>3. CASE \E take \in Takes : Extract(take)
  BY <1>3, ExtractEInv
<1>4. CASE \E found \in BOOLEAN, take \in Takes : ValidateRoutes(found, take)
  BY <1>4, OthersEInv DEF ValidateRoutes, drafts
<1>5. CASE \E take \in Takes : Cluster(take)
  BY <1>5, OthersEInv DEF Cluster, evidence, drafts
<1>6. CASE \E plan \in Plans, computed \in BOOLEAN : PlanClaims(plan, computed)
  BY <1>6, ClaimsEInv
<1>7. CASE \E result \in {"text", "notice", "nothing", "error"} : Write(result)
  BY <1>7, WriteEInv
<1>8. CASE \E found \in SUBSET Issues : ValidateResult(found)
  BY <1>8, ValidateEInv
<1>9. QED
  BY <1>1, <1>2, <1>3, <1>4, <1>5, <1>6, <1>7, <1>8 DEF Operation

LEMMA ContinueEInv ==
  ASSUME EInv, NEW focus \in BOOLEAN, Continue(focus)
  PROVE  EInv'
  BY BlankShaped DEF Continue, analysis, EInv, Tables, EvidenceCurrent, PreviousSound,
                     Carded, Shaped

LEMMA EntryEInv == EInv /\ Entry => EInv'
<1> SUFFICES ASSUME EInv, Entry PROVE EInv'
  OBVIOUS
<1>1. CASE \E focus \in BOOLEAN : Continue(focus)
  BY <1>1, ContinueEInv
<1>2. CASE \E conservative, directed, refresh, effort \in BOOLEAN,
            how \in {"routes", "cluster", "none"}, excluded \in SUBSET Papers :
            Regenerate(conservative, directed, refresh, how, effort, excluded)
  BY <1>2, RegenerateEInv
<1>3. CASE Reverify
  BY <1>3, OthersEInv DEF Reverify, analysis
<1>4. QED
  BY <1>1, <1>2, <1>3 DEF Entry

LEMMA NextEInv == EInv /\ [Next]_vars => EInv'
<1> SUFFICES ASSUME EInv, [Next]_vars PROVE EInv'
  OBVIOUS
<1>1. CASE Operation
  BY <1>1, OperationEInv
<1>2. CASE \E unmet \in BOOLEAN : Finish(unmet)
  BY <1>2, OthersEInv DEF Finish, analysis, drafts
<1>3. CASE \E status \in {"blocked", "stopped"}, missing \in BOOLEAN : Stop(status, missing)
  BY <1>3, StopEInv
<1>4. CASE Entry
  BY <1>4, EntryEInv
<1>5. CASE UNCHANGED vars
  BY <1>5, OthersEInv DEF vars, evidence, analysis, drafts
<1>6. QED
  BY <1>1, <1>2, <1>3, <1>4, <1>5 DEF Next

(* What a text may rest on is always read from the present details: no     *)
(* fetch, rebuilding, restored text or new run leaves a card, a route or   *)
(* an authorised claim of older evidence behind.                           *)
THEOREM EvidenceStaysCurrent == Spec => []EvidenceCurrent
<1>1. Init => EInv
  BY InitEInv
<1>2. EInv /\ [Next]_vars => EInv'
  BY NextEInv
<1>3. EInv => EvidenceCurrent
  BY DEF EInv
<1>4. QED
  BY <1>1, <1>2, <1>3, PTL DEF Spec

-----------------------------------------------------------------------------
(* The judgement that products carry is the last one on their text, and    *)
(* their gate is what it says.                                             *)
Ready(p) == p.gate \in {"passed", "released"}
Known(p) ==
  p.verified # None /\ Ready(p) =>
    /\ p.text \in 1 .. texts
    /\ verdict[p.text] = [details |-> p.verified.details, cards |-> p.verified.cards,
                          claims |-> p.verified.claims, issues |-> p.issues]
GateSound(p) ==
  /\ p.gate = "passed" => p.issues = {}
  /\ p.gate = "released" => p.issues \cap Unsafe = {}

(* A text that is compared is not the current one, unless an error left it *)
(* in place.                                                               *)
SavedSound ==
  previous # Unsaved =>
    /\ previous.products.text \in 1 .. texts
    /\ Known(previous.products) /\ GateSound(previous.products)
    /\ products.text = previous.products.text => products.gate = "pre"

Counted ==
  /\ texts \in 0 .. MaxTexts /\ products.text \in 0 .. texts
  /\ verdict = [t \in 1 .. MaxTexts |-> verdict[t]]
Delivered == outcome \in {"completed", "partial"}
DInv ==
  /\ EInv /\ Counted /\ SavedSound
  /\ Known(products) /\ GateSound(products)
  /\ Delivered => mode = "idle"
  /\ DeliveredVerified

USE PipelineAssumption

LEMMA InitDInv == Init => DInv
<1> SUFFICES ASSUME Init PROVE DInv
  OBVIOUS
<1>1. EInv
  BY InitEInv
<1>2. Counted /\ SavedSound /\ Known(products) /\ GateSound(products)
  BY DEF Init, Counted, SavedSound, Known, GateSound, Ready, Blank
<1>3. QED
  BY <1>1, <1>2 DEF Init, DInv, Delivered, DeliveredVerified

(* Steps within a run that leave the texts' judgements and gates alone.    *)
LEMMA SameDraft ==
  ASSUME DInv, EInv', mode' = mode, outcome' = outcome, mode # "idle",
         UNCHANGED <<texts, verdict>>,
         \/ UNCHANGED <<products, previous>>
         \/ products' = Blank /\ previous' = Unsaved
         \/ /\ previous' = previous
            /\ products'.text = products.text /\ products'.gate = products.gate
            /\ products'.issues = products.issues
            /\ products'.verified = products.verified
  PROVE  DInv'
<1>1. ~Delivered /\ ~Delivered'
  BY DEF DInv, Delivered
<1>2. Counted' /\ SavedSound' /\ Known(products)' /\ GateSound(products)'
  <2>1. CASE UNCHANGED <<products, previous>>
    BY <2>1 DEF DInv, Counted, SavedSound, Known, GateSound, Ready
  <2>2. CASE products' = Blank /\ previous' = Unsaved
    BY <2>2 DEF DInv, Counted, SavedSound, Known, GateSound, Ready, Blank
  <2>3. CASE /\ previous' = previous
             /\ products'.text = products.text /\ products'.gate = products.gate
             /\ products'.issues = products.issues
             /\ products'.verified = products.verified
    BY <2>3 DEF DInv, Counted, SavedSound, Known, GateSound, Ready
  <2>4. QED
    BY <2>1, <2>2, <2>3
<1>3. QED
  BY <1>1, <1>2 DEF DInv, Delivered, DeliveredVerified

LEMMA WriteDInv ==
  ASSUME DInv, EInv', NEW r \in {"text", "notice", "nothing", "error"}, Write(r)
  PROVE  DInv'
<1> DEFINE w == Written(r)
<1>1. /\ mode # "idle" /\ mode' = mode /\ outcome' = outcome
      /\ texts < MaxTexts /\ previous' = Saved
      /\ products' = [w EXCEPT !.pending = w.text # 0]
      /\ texts' = (IF r \in {"text", "notice"} THEN texts + 1 ELSE texts)
      /\ verdict' = verdict
  BY DEF Write, Chosen, Consume, history
<1>2. Shaped(products)
  BY DEF DInv, EInv
<1>3. /\ products'.verified = None
      /\ products'.gate \in {"none", "pre"}
      /\ r = "error" => products'.gate = "pre" /\ products'.text = products.text
      /\ r \in {"text", "notice"} => products'.text = texts + 1
      /\ r = "nothing" => products'.text = 0
  BY <1>1, <1>2 DEF Written, Shaped, ProductKeys
<1>4. Counted' /\ Known(products)' /\ GateSound(products)'
  BY <1>1, <1>3 DEF DInv, Counted, Known, GateSound, Ready
<1>5. SavedSound'
  <2>1. CASE products.text # 0 /\ previous = Unsaved
    <3>1. previous'.products = products
      BY <1>1, <2>1 DEF Saved
    <3>2. products.text \in 1 .. texts /\ products.text \in 1 .. texts'
      BY <1>1, <2>1 DEF DInv, Counted
    <3>3. Known(products) /\ GateSound(products)
      BY DEF DInv
    <3>4. products'.text = products.text => products'.gate = "pre"
      BY <1>1, <1>3, <3>2, <2>1 DEF DInv, Counted
    <3>5. QED
      BY <1>1, <3>1, <3>2, <3>3, <3>4 DEF SavedSound, Known, GateSound, Ready
  <2>2. CASE previous # Unsaved
    <3>1. previous' = previous
      BY <1>1, <2>2 DEF Saved
    <3>2. previous.products.text \in 1 .. texts /\ texts \in Nat
      BY <2>2 DEF DInv, SavedSound, Counted
    <3>3. products'.text = previous.products.text => products'.gate = "pre"
      BY <1>3, <3>2
    <3>4. QED
      BY <1>1, <2>2, <3>1, <3>2, <3>3 DEF DInv, SavedSound, Known, GateSound, Ready
  <2>3. CASE products.text = 0 /\ previous = Unsaved
    BY <1>1, <2>3 DEF Saved, SavedSound
  <2>4. QED
    BY <2>1, <2>2, <2>3
<1>6. QED
  BY <1>1, <1>4, <1>5 DEF DInv, Delivered, DeliveredVerified

LEMMA JudgedGate ==
  ASSUME Shaped(products), NEW found
  PROVE  /\ Judged(found).text = products.text
         /\ products.gate = "pre" => Judged(found).gate = "pre"
         /\ products.gate # "pre" => GateSound(Judged(found))
BY DEF Shaped, ProductKeys, Judged, GateSound

LEMMA ValidateDInv ==
  ASSUME DInv, EInv', NEW found, ValidateResult(found)
  PROVE  DInv'
<1> DEFINE judged == Verified(Judged(found))
           restore == Comparable /\ ~NotWorse(previous.products, judged)
           entry == [details |-> details, cards |-> cards, claims |-> products.claims,
                     issues |-> judged.issues]
<1>1. /\ mode # "idle" /\ mode' = mode /\ outcome' = outcome /\ texts' = texts
      /\ products.text # 0
      /\ products' = (IF restore THEN Restored(previous.products) ELSE judged)
      /\ previous' = Unsaved
      /\ verdict' = [verdict EXCEPT ![products.text] =
                      IF products.gate = "pre" THEN @ ELSE entry]
  BY DEF ValidateResult, Chosen, Allowed, Consume
<1>2. Shaped(products)
  BY DEF DInv, EInv
<1>3. products.text \in 1 .. texts /\ products.text \in 1 .. MaxTexts
  BY <1>1 DEF DInv, Counted
<1>4. /\ judged.text = products.text /\ judged.claims = products.claims
      /\ products.gate = "pre" => judged.gate = "pre"
      /\ products.gate # "pre" => GateSound(judged)
      /\ judged.verified.details = details /\ judged.verified.cards = cards
      /\ judged.verified.claims = products.claims
  <2>1. Shaped(Judged(found)) /\ Judged(found).claims = products.claims
    BY <1>2 DEF Shaped, ProductKeys, Judged
  <2>2. QED
    BY <1>2, <2>1, JudgedGate DEF Verified, Fingerprint, Shaped, ProductKeys, GateSound
<1>5. CASE ~restore
  <2>1. products' = judged
    BY <1>1, <1>5
  <2>2. GateSound(products)'
    <3>1. CASE products.gate = "pre"
      BY <1>4, <2>1, <3>1 DEF GateSound
    <3>2. CASE products.gate # "pre"
      BY <1>4, <2>1, <3>2 DEF GateSound
    <3>3. QED
      BY <3>1, <3>2
  <2>3. Known(products)'
    <3>1. CASE products.gate = "pre"
      BY <1>4, <2>1, <3>1 DEF Known, Ready
    <3>2. CASE products.gate # "pre"
      <4>1. verdict'[products.text] = entry
        BY <1>1, <1>3, <3>2 DEF DInv, Counted
      <4>2. QED
        BY <1>1, <1>3, <1>4, <2>1, <4>1 DEF Known, Ready
    <3>3. QED
      BY <3>1, <3>2
  <2>4. Counted'
    BY <1>1, <1>4, <2>1 DEF DInv, Counted
  <2>5. QED
    BY <1>1, <2>2, <2>3, <2>4 DEF DInv, SavedSound, Delivered, DeliveredVerified
<1>6. CASE restore
  <2> DEFINE old == previous.products
  <2>1. previous # Unsaved /\ Shaped(old)
    BY <1>6 DEF Comparable, DInv, EInv, PreviousSound
  <2>2. old.text \in 1 .. texts /\ Known(old) /\ GateSound(old)
        /\ (products.text = old.text => products.gate = "pre")
    BY <2>1 DEF DInv, SavedSound
  <2>3. /\ products'.text = old.text /\ products'.gate = old.gate
        /\ products'.issues = old.issues
        /\ products'.verified \in {old.verified, None}
    BY <1>1, <1>6, <2>1 DEF Restored, Shaped, ProductKeys
  <2>4. verdict'[old.text] = verdict[old.text]
    BY <1>1, <1>3, <2>2 DEF DInv, Counted
  <2>5. Known(products)' /\ GateSound(products)'
    BY <1>1, <2>2, <2>3, <2>4 DEF Known, GateSound, Ready
  <2>6. Counted'
    <3>1. products'.text \in 0 .. texts' /\ texts' \in 0 .. MaxTexts
      BY <1>1, <2>2, <2>3 DEF DInv, Counted
    <3>2. verdict' = [t \in 1 .. MaxTexts |-> verdict'[t]]
      BY <1>1 DEF DInv, Counted
    <3>3. QED
      BY <3>1, <3>2 DEF Counted
  <2>7. QED
    BY <1>1, <2>5, <2>6 DEF DInv, SavedSound, Delivered, DeliveredVerified
<1>7. QED
  BY <1>5, <1>6

LEMMA FinishDInv ==
  ASSUME DInv, EInv', NEW unmet \in BOOLEAN, Finish(unmet)
  PROVE  DInv'
<1>1. /\ Deliverable /\ mode' = "idle"
      /\ outcome' = (IF products.gate = "released" \/ unmet THEN "partial" ELSE "completed")
      /\ UNCHANGED <<details, cards, products, previous, texts, verdict>>
  BY DEF Finish, EndRun, drafts, history
<1>2. Ready(products) /\ products.verified = Fingerprint(products)
      /\ products.verified # None
  BY <1>1 DEF Deliverable, Ready
<1>3. products.text \in 1 .. texts /\ products.text # 0
      /\ verdict[products.text] =
           [details |-> details, cards |-> cards, claims |-> products.claims,
            issues |-> products.issues]
  BY <1>1, <1>2 DEF DInv, Known, Fingerprint, Deliverable
<1>4. products.issues \cap Unsafe = {}
      /\ (products.gate # "released" => products.issues = {})
  BY <1>2 DEF DInv, GateSound, Ready
<1>5. DeliveredVerified'
  BY <1>1, <1>3, <1>4 DEF DeliveredVerified
<1>6. QED
  BY <1>1, <1>5 DEF DInv, Counted, SavedSound, Known, GateSound, Ready, Delivered

LEMMA StopDInv ==
  ASSUME DInv, EInv', NEW status \in {"blocked", "stopped"}, NEW missing \in BOOLEAN,
         Stop(status, missing)
  PROVE  DInv'
<1>1. /\ mode # "idle" /\ mode' = "idle" /\ outcome' = status
      /\ UNCHANGED <<previous, texts, verdict>>
  BY DEF Stop, EndRun, history
<1>2. Shaped(products)
  BY DEF DInv, EInv
<1>3. /\ products'.text = products.text /\ products'.verified = products.verified
      /\ \/ products'.gate = products.gate /\ products'.issues = products.issues
         \/ products'.gate = "pre"
  BY <1>2 DEF Stop, Shaped, ProductKeys
<1>4. Counted' /\ SavedSound' /\ Known(products)' /\ GateSound(products)'
  BY <1>1, <1>3 DEF DInv, Counted, SavedSound, Known, GateSound, Ready
<1>5. QED
  BY <1>1, <1>4 DEF DInv, Delivered, DeliveredVerified

(* A run begins with the session's text or with none. *)
LEMMA EntryDInv ==
  ASSUME DInv, EInv', mode' # "idle", outcome' = "running",
         UNCHANGED <<texts, verdict>>,
         \/ UNCHANGED <<products, previous>>
         \/ products' = Blank /\ previous' = Unsaved
         \/ products' = [products EXCEPT !.verified = None] /\ previous' = previous
  PROVE  DInv'
<1>1. ~Delivered'
  BY DEF Delivered
<1>2. Counted' /\ SavedSound' /\ Known(products)' /\ GateSound(products)'
  <2>1. CASE UNCHANGED <<products, previous>>
    BY <2>1 DEF DInv, Counted, SavedSound, Known, GateSound, Ready
  <2>2. CASE products' = Blank /\ previous' = Unsaved
    BY <2>2 DEF DInv, Counted, SavedSound, Known, GateSound, Ready, Blank
  <2>3. CASE products' = [products EXCEPT !.verified = None] /\ previous' = previous
    <3>1. Shaped(products)
      BY DEF DInv, EInv
    <3>2. /\ products'.text = products.text /\ products'.gate = products.gate
          /\ products'.issues = products.issues /\ products'.verified = None
      BY <2>3, <3>1 DEF Shaped, ProductKeys
    <3>3. QED
      BY <2>3, <3>2 DEF DInv, Counted, SavedSound, Known, GateSound, Ready
  <2>4. QED
    BY <2>1, <2>2, <2>3
<1>3. QED
  BY <1>1, <1>2 DEF DInv, Delivered, DeliveredVerified

LEMMA OperationDInv ==
  ASSUME DInv, EInv', Operation
  PROVE  DInv'
<1>1. CASE \E found \in SUBSET Papers : Search(found) \/ TargetedSearch(found)
  BY <1>1, SameDraft DEF Search, TargetedSearch, Chosen, Consume, drafts, history
<1>2. CASE \E confirmed \in BOOLEAN, admitted \in SUBSET Papers,
            read \in [Papers -> Contents \cup {None}] : Fetch(confirmed, admitted, read)
  BY <1>2, SameDraft DEF Fetch, Invalidate, Chosen, Consume
<1>3. CASE \E take \in Takes : Extract(take)
  BY <1>3, SameDraft DEF Extract, Invalidate, Chosen, Consume
<1>4. CASE \E found \in BOOLEAN, take \in Takes : ValidateRoutes(found, take)
  BY <1>4, SameDraft DEF ValidateRoutes, Chosen, Consume, drafts
<1>5. CASE \E take \in Takes : Cluster(take)
  BY <1>5, SameDraft DEF Cluster, Chosen, Consume, drafts
<1>6. CASE \E plan \in Plans, computed \in BOOLEAN : PlanClaims(plan, computed)
  <2>1. PICK plan \in Plans, computed \in BOOLEAN : PlanClaims(plan, computed)
    BY <1>6
  <2>2. Shaped(products)
    BY DEF DInv, EInv
  <2>3. /\ previous' = previous
        /\ products'.text = products.text /\ products'.gate = products.gate
        /\ products'.issues = products.issues
        /\ products'.verified = products.verified
    BY <2>1, <2>2 DEF PlanClaims, Shaped, ProductKeys
  <2>4. QED
    BY <2>1, <2>3, SameDraft DEF PlanClaims, Chosen, Consume
<1>7. CASE \E result \in {"text", "notice", "nothing", "error"} : Write(result)
  BY <1>7, WriteDInv
<1>8. CASE \E found \in SUBSET Issues : ValidateResult(found)
  BY <1>8, ValidateDInv
<1>9. QED
  BY <1>1, <1>2, <1>3, <1>4, <1>5, <1>6, <1>7, <1>8 DEF Operation

LEMMA NextDInv == DInv /\ [Next]_vars => DInv'
<1> SUFFICES ASSUME DInv, [Next]_vars PROVE DInv'
  OBVIOUS
<1>0. EInv'
  BY NextEInv DEF DInv
<1>1. CASE Operation
  BY <1>0, <1>1, OperationDInv
<1>2. CASE \E unmet \in BOOLEAN : Finish(unmet)
  BY <1>0, <1>2, FinishDInv
<1>3. CASE \E status \in {"blocked", "stopped"}, missing \in BOOLEAN : Stop(status, missing)
  BY <1>0, <1>3, StopDInv
<1>4. CASE Entry
  <2>1. CASE \E focus \in BOOLEAN : Continue(focus)
    BY <1>0, <2>1, EntryDInv DEF Continue, Begin
  <2>2. CASE \E conservative, directed, refresh, effort \in BOOLEAN,
              how \in {"routes", "cluster", "none"}, excluded \in SUBSET Papers :
              Regenerate(conservative, directed, refresh, how, effort, excluded)
    BY <1>0, <2>2, EntryDInv DEF Regenerate, Begin
  <2>3. CASE Reverify
    BY <1>0, <2>3, EntryDInv DEF Reverify, Begin
  <2>4. QED
    BY <1>4, <2>1, <2>2, <2>3 DEF Entry
<1>5. CASE UNCHANGED vars
  BY <1>0, <1>5 DEF vars, control, evidence, drafts, history, DInv, Counted, SavedSound,
                    Known, GateSound, Ready, Delivered, DeliveredVerified
<1>6. QED
  BY <1>1, <1>2, <1>3, <1>4, <1>5 DEF Next

(* No order of writings, failures, rejected rewritings, stopped runs and   *)
(* new runs hands out a text whose last judgement is of other evidence or  *)
(* found something unsafe.                                                 *)
THEOREM DeliveryIsVerified == Spec => []DeliveredVerified
<1>1. Init => DInv
  BY InitDInv
<1>2. DInv /\ [Next]_vars => DInv'
  BY NextDInv
<1>3. DInv => DeliveredVerified
  BY DEF DInv
<1>4. QED
  BY <1>1, <1>2, <1>3, PTL DEF Spec

-----------------------------------------------------------------------------
(* A saved text knows what it was written from.                            *)
SavedInput ==
  previous # Unsaved =>
    /\ previous.products.text # 0
    /\ previous.input = <<previous.source[2],
         IF previous.source[4] # None THEN previous.source[4] ELSE previous.source[5],
         previous.products.text, previous.products.claims>>

(* The settled text is the current one, or the saved one of the same source. *)
SettledSound ==
  settled # None =>
    /\ settled.text # 0
    /\ IF previous = Unsaved
       THEN products.text = settled.text /\ products.issues = settled.issues
       ELSE /\ previous.source = Source
            /\ previous.products.text = settled.text
            /\ previous.products.issues = settled.issues

RInv == EInv /\ SavedInput /\ SettledSound

LEMMA InitRInv == Init => RInv
BY InitEInv DEF Init, RInv, SavedInput, SettledSound

(* Steps that leave the draft, and what it rests on or what was settled.   *)
LEMMA SameSettled ==
  ASSUME RInv, EInv', previous' = previous,
         settled' = None \/ (settled' = settled /\ Source' = Source),
         settled # None =>
           products'.text = products.text /\
           (products.text # 0 => products'.issues = products.issues)
  PROVE  RInv'
<1>1. SavedInput'
  BY DEF RInv, SavedInput
<1>2. SettledSound'
  BY DEF RInv, SettledSound
<1> QED
  BY <1>1, <1>2 DEF RInv

LEMMA Forgotten ==
  ASSUME EInv', previous' = Unsaved, settled' = None
  PROVE  RInv'
BY DEF RInv, SavedInput, SettledSound

LEMMA InvalidateRInv ==
  ASSUME RInv, EInv', NEW changed \in BOOLEAN, Invalidate(changed),
         ~changed => UNCHANGED <<details, cards>>, UNCHANGED taxonomy
  PROVE  RInv'
<1>1. CASE changed
  BY <1>1, Forgotten DEF Invalidate
<1>2. CASE ~changed
  <2>1. UNCHANGED <<details, cards, routes, taxonomy, products, previous, settled>>
    BY <1>2 DEF Invalidate
  <2> QED
    BY <2>1, SameSettled DEF Source
<1> QED
  BY <1>1, <1>2

LEMMA WriteRInv ==
  ASSUME RInv, EInv', NEW r \in {"text", "notice", "nothing", "error"}, Write(r)
  PROVE  RInv'
<1>1. UNCHANGED <<details, cards, routes, taxonomy, settled>> /\ previous' = Saved
  BY DEF Write, evidence, analysis, history
<1>2. Source' = Source
  <2>1. products' = [Written(r) EXCEPT !.pending = Written(r).text # 0]
    BY DEF Write
  <2>2. products'.claims = products.claims
    BY <2>1, WrittenShaped DEF RInv, EInv
  <2> QED
    BY <1>1, <2>2 DEF Source
<1>3. CASE products.text # 0 /\ previous = Unsaved
  <2>1. previous' = [products |-> products, input |-> Input(products), source |-> Source]
    BY <1>1, <1>3 DEF Saved
  <2>2. SavedInput'
    BY <1>3, <2>1 DEF SavedInput, Input, Source, Structure
  <2>3. previous' # Unsaved
    BY <1>3, <2>1 DEF Unsaved, Blank
  <2>4. SettledSound'
    BY <1>1, <1>2, <1>3, <2>1, <2>3 DEF RInv, SettledSound
  <2> QED
    BY <2>2, <2>4 DEF RInv
<1>4. CASE ~(products.text # 0 /\ previous = Unsaved)
  <2>1. previous' = previous
    BY <1>1, <1>4 DEF Saved
  <2>2. SavedInput'
    BY <2>1 DEF RInv, SavedInput
  <2>3. settled # None => previous # Unsaved
    BY <1>4 DEF RInv, SettledSound
  <2>4. SettledSound'
    BY <1>1, <1>2, <2>1, <2>3 DEF RInv, SettledSound
  <2> QED
    BY <2>2, <2>4 DEF RInv
<1> QED
  BY <1>3, <1>4

(* The comparison: the saved text comes back, or the new one repairs it.   *)
LEMMA ValidateSettles ==
  ASSUME RInv, NEW found, ValidateResult(found)
  PROVE  /\ settled'.text # 0 /\ settled' = [text |-> products'.text, issues |-> products'.issues]
         /\ settled # None /\ settled'.text # settled.text => settled'.issues \subseteq settled.issues
<1> DEFINE judged == Verified(Judged(found))
           restore == Comparable /\ ~NotWorse(previous.products, judged)
<1>1. /\ products.text # 0
      /\ products' = (IF restore THEN Restored(previous.products) ELSE judged)
      /\ settled' = [text |-> products'.text, issues |-> products'.issues]
  BY DEF ValidateResult, Chosen, Allowed
<1>2. settled'.text = products'.text /\ settled'.issues = products'.issues
  BY <1>1
<1>3. CASE restore
  <2>1. previous # Unsaved /\ Shaped(previous.products)
    BY <1>3 DEF Comparable, RInv, EInv, PreviousSound
  <2>2. products'.text = previous.products.text
    BY <1>1, <1>3, <2>1 DEF Restored, Shaped, ProductKeys
  <2>3. previous.products.text # 0
    BY <2>1 DEF RInv, SavedInput
  <2>4. settled # None => settled.text = previous.products.text
    BY <2>1 DEF RInv, SettledSound
  <2> QED
    BY <1>1, <1>2, <2>2, <2>3, <2>4
<1>4. CASE ~restore
  <2>1. products'.text = products.text /\ products' = judged
    <3>1. Shaped(Judged(found)) /\ Judged(found).text = products.text
      BY JudgedGate DEF Shaped, ProductKeys, Judged, RInv, EInv
    <3> QED
      BY <1>1, <1>4, <3>1 DEF Verified, Shaped, ProductKeys
  <2>2. ASSUME settled # None, products.text # settled.text
        PROVE  judged.issues \subseteq settled.issues
    <3>1. /\ previous # Unsaved /\ previous.source = Source
          /\ previous.products.issues = settled.issues
      BY <2>2 DEF RInv, SettledSound
    <3>2. previous.input = Input(previous.products)
      BY <3>1 DEF RInv, SavedInput, Source, Input, Structure
    <3> QED
      BY <1>4, <3>1, <3>2 DEF Comparable, NotWorse
  <2> QED
    BY <1>1, <1>2, <2>1, <2>2
<1> QED
  BY <1>3, <1>4

LEMMA ValidateRInv ==
  ASSUME RInv, EInv', NEW found, ValidateResult(found)
  PROVE  RInv'
<1>1. previous' = Unsaved
  BY DEF ValidateResult
<1>2. settled'.text # 0 /\ settled'.text = products'.text /\ settled'.issues = products'.issues
  BY ValidateSettles
<1> QED
  BY <1>1, <1>2 DEF RInv, SavedInput, SettledSound

LEMMA RegenerateRInv ==
  ASSUME RInv, EInv', NEW conservative \in BOOLEAN, NEW directed \in BOOLEAN,
         NEW refresh \in BOOLEAN, NEW how, NEW effort \in BOOLEAN,
         NEW excluded \in SUBSET Papers,
         Regenerate(conservative, directed, refresh, how, effort, excluded)
  PROVE  RInv'
<1> DEFINE local == Local(conservative) /\ ~refresh /\ excluded = {}
<1>1. /\ details' = [p \in Papers |-> IF p \in excluded THEN None ELSE details[p]]
      /\ cards' = [p \in Papers |-> IF p \in excluded THEN None ELSE cards[p]]
      /\ routes' = IF local THEN routes ELSE None
      /\ taxonomy' = IF local THEN taxonomy ELSE None
      /\ products' = IF local THEN [products EXCEPT !.verified = None] ELSE Blank
      /\ previous' = IF local THEN previous ELSE Unsaved
      /\ settled' = IF local THEN settled ELSE None
  BY DEF Regenerate
<1>2. CASE local
  <2>1. details' = details /\ cards' = cards
    BY <1>1, <1>2 DEF RInv, EInv, Tables
  <2>2. /\ products'.claims = products.claims /\ products'.text = products.text
        /\ products'.issues = products.issues
    BY <1>1, <1>2 DEF RInv, EInv, Shaped, ProductKeys
  <2>3. UNCHANGED <<routes, taxonomy, previous, settled>>
    BY <1>1, <1>2
  <2> QED
    BY <2>1, <2>2, <2>3, SameSettled DEF Source
<1>3. CASE ~local
  BY <1>1, <1>3, Forgotten
<1> QED
  BY <1>2, <1>3

LEMMA StopRInv ==
  ASSUME RInv, EInv', NEW status, NEW missing \in BOOLEAN, Stop(status, missing)
  PROVE  RInv'
<1>1. UNCHANGED <<details, cards, routes, taxonomy, previous, settled>>
  BY DEF Stop, analysis, history
<1>2. /\ products'.text = products.text /\ products'.claims = products.claims
      /\ products.text # 0 => products'.issues = products.issues
  BY DEF Stop, RInv, EInv, Shaped, ProductKeys
<1> QED
  BY <1>1, <1>2, SameSettled DEF Source

LEMMA AnalysisRInv ==
  ASSUME RInv, EInv', Unsettled, UNCHANGED previous,
         products'.text = products.text, products'.issues = products.issues
  PROVE  RInv'
BY SameSettled DEF Unsettled

LEMMA NextRInv ==
  ASSUME RInv, [Next]_vars
  PROVE  RInv'
<1>0. EInv'
  BY NextEInv DEF RInv
<1>1. CASE \/ \E found \in SUBSET Papers : Search(found) \/ TargetedSearch(found)
           \/ \E unmet \in BOOLEAN : Finish(unmet)
           \/ Reverify \/ UNCHANGED vars
  <2>1. UNCHANGED <<details, cards, routes, taxonomy, products, previous, settled>>
    BY <1>1 DEF Search, TargetedSearch, Finish, Reverify, vars, evidence, analysis, drafts, history
  <2> QED
    BY <1>0, <2>1, SameSettled DEF Source
<1>2. CASE \E confirmed \in BOOLEAN, admitted \in SUBSET Papers,
            read \in [Papers -> Contents \cup {None}] : Fetch(confirmed, admitted, read)
  <2>1. PICK confirmed \in BOOLEAN, admitted \in SUBSET Papers,
             read \in [Papers -> Contents \cup {None}] : Fetch(confirmed, admitted, read)
    BY <1>2
  <2>2. PICK changed \in BOOLEAN : changed <=> Fetched(confirmed, admitted, read) # details
    OBVIOUS
  <2>3. /\ Invalidate(changed) /\ UNCHANGED taxonomy
        /\ ~changed => UNCHANGED <<details, cards>>
    BY <2>1, <2>2 DEF Fetch
  <2> QED
    BY <1>0, <2>3, InvalidateRInv
<1>3. CASE \E take \in Takes : Extract(take)
  <2>1. PICK changed \in BOOLEAN : changed <=> cards' # cards
    OBVIOUS
  <2>2. /\ Invalidate(changed) /\ UNCHANGED taxonomy
        /\ ~changed => UNCHANGED <<details, cards>>
    BY <1>3, <2>1 DEF Extract
  <2> QED
    BY <1>0, <2>2, InvalidateRInv
<1>4. CASE \/ \E found \in BOOLEAN, take \in Takes : ValidateRoutes(found, take)
           \/ \E take \in Takes : Cluster(take)
  BY <1>0, <1>4, AnalysisRInv DEF ValidateRoutes, Cluster, drafts
<1>5. CASE \E plan \in Plans, computed \in BOOLEAN : PlanClaims(plan, computed)
  <2>1. PICK plan \in Plans, computed \in BOOLEAN : PlanClaims(plan, computed)
    BY <1>5
  <2>2. products'.text = products.text /\ products'.issues = products.issues
    BY <2>1 DEF PlanClaims, RInv, EInv, Shaped, ProductKeys
  <2> QED
    BY <1>0, <2>1, <2>2, AnalysisRInv DEF PlanClaims
<1>6. CASE \E result \in {"text", "notice", "nothing", "error"} : Write(result)
  BY <1>0, <1>6, WriteRInv
<1>7. CASE \E found \in SUBSET Issues : ValidateResult(found)
  BY <1>0, <1>7, ValidateRInv
<1>8. CASE \E status \in {"blocked", "stopped"}, missing \in BOOLEAN : Stop(status, missing)
  BY <1>0, <1>8, StopRInv
<1>9. CASE \E focus \in BOOLEAN : Continue(focus)
  BY <1>0, <1>9, Forgotten DEF Continue
<1>10. CASE \E conservative, directed, refresh, effort \in BOOLEAN,
             how \in {"routes", "cluster", "none"}, excluded \in SUBSET Papers :
             Regenerate(conservative, directed, refresh, how, effort, excluded)
  BY <1>0, <1>10, RegenerateRInv
<1> QED
  BY <1>1, <1>2, <1>3, <1>4, <1>5, <1>6, <1>7, <1>8, <1>9, <1>10 DEF Next, Operation, Entry

(* Only a judgement settles a text: every other step leaves what is        *)
(* settled or takes it away.                                               *)
LEMMA OnlyJudged ==
  ASSUME [Next]_vars, ~ \E found \in SUBSET Issues : ValidateResult(found)
  PROVE  settled' \in {settled, None}
<1>1. CASE Operation
  BY <1>1 DEF Operation, Search, TargetedSearch, Fetch, Extract, Invalidate, ValidateRoutes, Cluster,
     PlanClaims, Unsettled, Write, history
<1>2. CASE \E unmet \in BOOLEAN : Finish(unmet)
  BY <1>2 DEF Finish, history
<1>3. CASE \E status \in {"blocked", "stopped"}, missing \in BOOLEAN : Stop(status, missing)
  BY <1>3 DEF Stop, history
<1>4. CASE Entry
  BY <1>4 DEF Entry, Continue, Regenerate, Reverify
<1>5. CASE UNCHANGED vars
  BY <1>5 DEF vars, history
<1> QED
  BY <1>1, <1>2, <1>3, <1>4, <1>5 DEF Next

(* While its source stands, a settled text is replaced only by one without *)
(* a new issue: failed, stopped and repeated writings in between do not    *)
(* let a worse text in (_validate_result, candidate_is_not_worse).         *)
THEOREM SettledTextsImprove == Spec => NoRegression
<1> DEFINE Improves == settled # None /\ settled' # None /\ settled'.text # settled.text
                         => settled'.issues \subseteq settled.issues
<1>1. Init => RInv
  BY InitRInv
<1>2. RInv /\ [Next]_vars => RInv'
  BY NextRInv
<1>3. RInv /\ [Next]_vars => [Improves]_vars
  <2> SUFFICES ASSUME RInv, [Next]_vars
               PROVE  Improves
    OBVIOUS
  <2>1. CASE \E found \in SUBSET Issues : ValidateResult(found)
    BY <2>1, ValidateSettles
  <2>2. CASE ~ \E found \in SUBSET Issues : ValidateResult(found)
    BY <2>2, OnlyJudged
  <2> QED
    BY <2>1, <2>2
<1> QED
  BY <1>1, <1>2, <1>3, PTL DEF Spec, NoRegression
=============================================================================
