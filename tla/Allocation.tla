----------------------------- MODULE Allocation -----------------------------
(***************************************************************************)
(* Which paper is cited in which section (app/agent/nodes/synthesis.py):   *)
(* the number of references is shared out over the texts, papers are       *)
(* selected theme by theme, and each goes to one section of its text.      *)
(*                                                                         *)
(* The papers of a section are in the order of the ranking.  The fit of a  *)
(* paper and a section keeps what decides it for the sections the planner  *)
(* still makes: a route's section, and shared words (in quarters).         *)
(***************************************************************************)
EXTENDS Lists, SequencesExt, FiniteSetsExt, Functions

CONSTANTS
  PaperSeq,   \* ranked_papers, and the papers of the remaining cards
  Cards,      \* papers with a card that is not invalid
  CardWords,  \* what the card says, as a set of words
  FloorFrom,  \* _SECTION_FLOOR_MIN_REVIEW_SIZE, and 20 in the allocation
  RouteFloor  \* _MIN_ROUTE_SECTION_REFERENCES

ASSUME AllocationAssumption ==
  /\ PaperSeq \in Seq(Range(PaperSeq)) /\ IsInjective(PaperSeq) /\ Cards \subseteq Range(PaperSeq)
  /\ \A p \in Cards : IsFiniteSet(CardWords[p])
  /\ FloorFrom \in Nat /\ RouteFloor \in Nat

Types == {"background", "status", "related", "review"}

InOrder(papers) == Entries(PaperSeq, {i \in DOMAIN PaperSeq : PaperSeq[i] \in papers})
Pool(sections) == UNION {sections[i].papers : i \in DOMAIN sections}

-----------------------------------------------------------------------------
Weight == [background |-> 4, status |-> 12, related |-> 6, review |-> 12]
Least == [background |-> 2, status |-> 4, related |-> 2, review |-> 5]

SumOver(f, types) ==
  LET of(t) == IF t \in types THEN f[t] ELSE 0
  IN of("background") + of("status") + of("related") + of("review")

(* _global_deliverable_citation_quotas: least shares, the rest by weight   *)
(* with the largest remainders; one each for the first when they exceed.   *)
Quota(texts, target) ==
  LET types == Range(texts)
      least == [t \in types |-> Min({target, Least[t]})]
      assigned == SumOver(least, types)
      whole == SumOver(Weight, types)
      left == target - assigned
      share == [t \in types |-> (left * Weight[t]) \div whole]
      part(t) == (left * Weight[t]) % whole
      place(t) == CHOOSE i \in DOMAIN texts : texts[i] = t
      over == left - SumOver(share, types)
      order == Arranged(types, {x \in types \X types :
                 \/ part(x[1]) > part(x[2])
                 \/ part(x[1]) = part(x[2]) /\ Weight[x[1]] > Weight[x[2]]
                 \/ /\ part(x[1]) = part(x[2]) /\ Weight[x[1]] = Weight[x[2]]
                    /\ place(x[1]) < place(x[2])})
  IN IF target <= 0 THEN [t \in types |-> 0]
     ELSE IF Len(texts) = 1 THEN [t \in types |-> target]
     ELSE IF assigned > target
     THEN [t \in types |-> IF place(t) <= target THEN 1 ELSE 0]
     ELSE [t \in types |-> least[t] + share[t]
             + IF t \in Range(SubSeq(order, 1, over)) THEN 1 ELSE 0]

(* _citation_allocation_budget *)
Budget(required, usable, limit) == Min({usable, Max({required, limit})})

-----------------------------------------------------------------------------
(* The papers a text may cite: those of its sections that a claim rests    *)
(* on; the status of a request in two parts may use all of the latter.     *)
Allowed(type, sections, authorized, twoPart) ==
  LET inSections == Pool(sections) \cap Cards
      all == IF inSections = {} THEN Cards ELSE inSections
  IN IF authorized = {} THEN all
     ELSE (all \cap authorized) \cup IF type = "status" /\ twoPart THEN authorized ELSE {}

(* Papers no text before has come first, alone if they are enough.         *)
Available(allowed, excluded, target) ==
  LET fresh == InOrder(allowed \ excluded)
  IN IF Len(fresh) >= target THEN fresh ELSE fresh \o InOrder(allowed \cap excluded)

(* The themes take turns; papers of no theme follow, then those of the     *)
(* themes that only collect the rest (not in the sequence of themes).      *)
ByTurns(available, themeOf, themes) ==
  LET those(S) == Entries(available, {k \in DOMAIN available : themeOf[available[k]] \in S})
      of(i) == those({themes[i]})
      others == {themeOf[p] : p \in Range(available)} \ (Range(themes) \cup {"none"})
      turn(k) == FlattenSeq([i \in DOMAIN themes |->
                   IF k <= Len(of(i)) THEN <<of(i)[k]>> ELSE <<>>])
  IN FlattenSeq([k \in DOMAIN available |-> turn(k)]) \o those({"none"}) \o those(others)

(* A theme whose papers all went to the text before lends one of them.     *)
WithThemes(selected, allowed, excluded, themeOf, themes) ==
  LET absent == Entries(themes, {k \in DOMAIN themes :
                  \A i \in DOMAIN selected : themeOf[selected[i]] # themes[k]})
      lent(t) == InOrder({p \in allowed \cap excluded : themeOf[p] = t})
  IN selected \o FlattenSeq([i \in DOMAIN absent |->
                   SubSeq(lent(absent[i]), 1, Min({1, Len(lent(absent[i]))}))])

(* A section below its floor adds papers of its own.                       *)
WithFloor(done, section, allowed, available) ==
  LET own == section.papers \cap Cards
      lacking == section.floor - Cardinality(own \cap Range(done))
      more == InOrder((own \cap Range(available)) \ Range(done))
                \o InOrder((own \cap allowed) \ (Range(done) \cup Range(available)))
  IN IF lacking <= 0 THEN done ELSE done \o SubSeq(more, 1, Min({lacking, Len(more)}))

WithFloors(selected, sections, allowed, available) ==
  FoldLeft(LAMBDA done, section : WithFloor(done, section, allowed, available), selected, sections)

Target(wanted, budget, size) ==
  LET least == Min({wanted, size})
  IN IF budget > least THEN Min({budget, size}) ELSE least

Select(type, sections, allowed, excluded, target, themeOf, themes) ==
  LET available == Available(allowed, excluded, target)
      turns == ByTurns(available, themeOf, themes)
      first == SubSeq(turns, 1, Min({target, Len(turns)}))
      voiced == IF type = "status" /\ excluded # {}
                THEN WithThemes(first, allowed, excluded, themeOf, themes) ELSE first
  IN WithFloors(voiced, sections, allowed, available)

-----------------------------------------------------------------------------
(* The sections that get citations: [key, id, papers, words, floor], where *)
(* key is the place of the section in the plan.                            *)
Structural == {"conclusion"}

Cited(sections, selected, authorized) ==
  LET within(i) == [key |-> i, id |-> sections[i].id, words |-> sections[i].words,
                    papers |-> sections[i].papers \cap Range(selected),
                    floor |-> sections[i].floor]
      some == Entries([i \in DOMAIN sections |-> within(i)],
                {i \in DOMAIN sections :
                   within(i).papers # {} /\ sections[i].id \notin Structural})
      body == [key |-> 0, id |-> "body", papers |-> Range(selected), words |-> {}, floor |-> 0]
      specs == IF some = <<>> /\ selected # <<>> THEN <<body>> ELSE some
      homeless == (Range(selected) \cap authorized) \ Pool(specs)
  IN IF specs = <<>> THEN specs ELSE [specs EXCEPT ![1].papers = @ \cup homeless]

(* _citation_section_fit_score, in quarters.                               *)
Fit(paper, section) ==
  (IF section.id = "theme" THEN 32 ELSE 0)
    + Min({8, Cardinality(section.words \cap CardWords[paper])})

(* Each selected paper goes to the section that fits best among those with *)
(* room; then the model's preference, the load and the order decide.       *)
Place(done, p, specs, capacity, prefers) ==
  LET better(i, j) ==
        LET score(k) == <<Fit(p, specs[k]), IF p \in prefers[k] THEN 1 ELSE 0,
                          -Len(done[k]), IF specs[k].id = "theme" THEN 1 ELSE 0, -k>>
            a == score(i) b == score(j)
            at == {k \in 1 .. 5 : a[k] # b[k]}
        IN at = {} \/ a[Min(at)] > b[Min(at)]
      may == {i \in DOMAIN specs : p \in specs[i].papers}
      room == {i \in may : Len(done[i]) < capacity}
      among == IF room # {} THEN room ELSE may
      best == CHOOSE i \in among : \A j \in among : better(i, j)
  IN IF may = {} THEN done ELSE [done EXCEPT ![best] = Append(@, p)]

Placed(specs, selected, target, prefers) ==
  LET n == Max({1, Len(specs)})
      capacity == Max({3, (target + n - 1) \div n + 2})
  IN FoldLeft(LAMBDA done, p : Place(done, p, specs, capacity, prefers),
              [i \in DOMAIN specs |-> <<>>], selected)

FloorOf(type, section, target) ==
  IF section.floor > 0 THEN section.floor
  ELSE IF type = "status" /\ target >= FloorFrom /\ section.id = "theme" THEN 2 ELSE 0

(* FAULT: a section gives papers away below its own floor.                 *)
MovedAny(placed, specs, floors, at) ==
  LET others == UNION {{i} \X DOMAIN placed[i] : i \in DOMAIN placed \ {at}}
      from == {x \in others : placed[x[1]][x[2]] \in specs[at].papers}
      gain(x) == Fit(placed[x[1]][x[2]], specs[at]) - Fit(placed[x[1]][x[2]], specs[x[1]])
      best == CHOOSE x \in from : \A y \in from : gain(x) >= gain(y)
  IN IF Len(placed[at]) >= floors[at] \/ from = {} THEN placed
     ELSE [placed EXCEPT ![best[1]] = RemoveAt(@, best[2]),
                         ![at] = Append(@, placed[best[1]][best[2]])]

(* One paper for a section below its floor, from one that can spare it.    *)
Moved(placed, specs, floors, at) ==
  LET spare(i) == Len(placed[i]) > IF floors[i] > 0 THEN floors[i] ELSE 1
      others == UNION {{i} \X DOMAIN placed[i] : i \in DOMAIN placed \ {at}}
      from == {x \in others : spare(x[1]) /\ placed[x[1]][x[2]] \in specs[at].papers}
      gain(x) == Fit(placed[x[1]][x[2]], specs[at]) - Fit(placed[x[1]][x[2]], specs[x[1]])
      best == CHOOSE x \in from : \A y \in from :
                \/ gain(x) > gain(y)
                \/ gain(x) = gain(y) /\ (x[1] < y[1] \/ (x[1] = y[1] /\ x[2] <= y[2]))
  IN IF Len(placed[at]) >= floors[at] \/ from = {} THEN placed
     ELSE [placed EXCEPT ![best[1]] = RemoveAt(@, best[2]),
                         ![at] = Append(@, placed[best[1]][best[2]])]

(* The sections are served in their order, and those that stay short are   *)
(* reported.                                                               *)
Served(given, specs, floors, at) ==
  FoldLeft(LAMBDA g, k : Moved(g, specs, floors, at), given, [k \in 1 .. floors[at] |-> k])

Level(done, at, specs, floors) ==
  LET given == Served(done.given, specs, floors, at)
  IN [given |-> given,
      short |-> done.short \cup IF Len(given[at]) < floors[at] THEN {specs[at].key} ELSE {}]

Levelled(placed, specs, floors) ==
  FoldLeft(LAMBDA done, at : Level(done, at, specs, floors), [given |-> placed, short |-> {}],
           [at \in DOMAIN specs |-> at])

(* _plan_citation_allocation: the papers given to each section, and the    *)
(* sections reported as short.                                             *)
Allocate(type, specs, selected, target, prefers) ==
  Levelled(Placed(specs, selected, target, prefers), specs,
           [i \in DOMAIN specs |-> FloorOf(type, specs[i], target)])

(* What the model may prefer for the sections. BOUND: all in one section.  *)
Preferences(specs) ==
  {[i \in DOMAIN specs |-> IF i = k THEN specs[i].papers ELSE {}] : k \in 0 .. Len(specs)}
=============================================================================
