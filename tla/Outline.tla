------------------------------ MODULE Outline ------------------------------
(***************************************************************************)
(* The sections of a text (app/agent/writing_plan.py): the themes of the   *)
(* taxonomy and the evidence the user's frame requires become a few routes *)
(* with a section each.  Nothing is dropped on the way: a route too small, *)
(* or one too many, is merged into another one.                            *)
(*                                                                         *)
(* A route is [name, claims, labels, papers]: the words of its title, the  *)
(* words of what its papers state, the titles it absorbed, its papers.  A  *)
(* title is a set of segments, one word each; that it also has to be short *)
(* is left out, as are purposes, claims to establish and word counts.      *)
(***************************************************************************)
EXTENDS Lists, SequencesExt, FiniteSetsExt, Functions

CONSTANTS
  WordsOf,    \* what a card states, as a set of words
  Focuses,    \* required_focuses, each as the set of its aliases
  TopicWords, \* words of the request and of its topic
  Comparable, \* _MIN_PAPERS_PER_SUBSECTION
  Profile     \* words of the user's own paper

ASSUME OutlineAssumption ==
  /\ Comparable \in Nat \ {0} /\ Focuses \in Seq(Range(Focuses))
  /\ \A p \in DOMAIN WordsOf : IsFiniteSet(WordsOf[p])

Text(route) == route.name \cup route.claims
Stated(papers) == UNION {WordsOf[p] : p \in papers}

Sizes(routes) == {Cardinality(routes[i].papers) : i \in DOMAIN routes}
PapersIn(routes) == UNION {routes[i].papers : i \in DOMAIN routes}

-----------------------------------------------------------------------------
(* _merge_theme_records: the first route, with the evidence of both.       *)
Merge(first, second) ==
  [first EXCEPT !.papers = @ \cup second.papers, !.claims = @ \cup second.claims,
                !.labels = @ \cup second.labels]

(* _absorb_focus_label: the other title is kept as a label, and joins the  *)
(* route's own while that has three segments at most.                      *)
Absorb(route, title) ==
  IF title = {} THEN route
  ELSE [route EXCEPT
          !.labels = @ \cup {title},
          !.name = IF ~(title \subseteq @) /\ Cardinality(@) + Cardinality(title) <= 3
                   THEN @ \cup title ELSE @]

(* The route nearest to the source: by words, then size, then order.       *)
Nearest(routes, source, among) ==
  LET shared(i) == Cardinality(Text(source) \cap Text(routes[i]))
      size(i) == Cardinality(routes[i].papers)
  IN CHOOSE i \in among : \A j \in among :
       \/ shared(i) > shared(j)
       \/ shared(i) = shared(j) /\ size(i) > size(j)
       \/ shared(i) = shared(j) /\ size(i) = size(j) /\ i <= j

(* FAULT: what is over the number is cut off.                              *)
MergeOverflowDrops(routes, source) == routes

(* _merge_overflow_route *)
MergeOverflow(routes, source) ==
  IF routes = <<>> THEN <<source>>
  ELSE LET at == Nearest(routes, source, DOMAIN routes)
       IN [routes EXCEPT ![at] = Absorb(Merge(@, source), source.name)]

-----------------------------------------------------------------------------
(* _rebalance_sparse_routes, one round: a route with one paper joins its   *)
(* nearest, which takes its title when it serves a focus of the user.      *)
MergeLone(routes) ==
  LET lone == {i \in DOMAIN routes : Cardinality(routes[i].papers) < 2}
  IN IF Len(routes) <= 1 \/ lone = {} THEN routes
     ELSE LET at == CHOOSE i \in lone : \A j \in lone :
                      LET a == Cardinality(routes[i].papers) b == Cardinality(routes[j].papers)
                      IN a < b \/ (a = b /\ i <= j)
              to == Nearest(routes, routes[at], DOMAIN routes \ {at})
              both == Merge(routes[to], routes[at])
              serves == \E f \in Range(Focuses) : f \cap Text(routes[at]) # {}
          IN RemoveAt([routes EXCEPT ![to] =
               IF serves THEN Absorb(both, routes[at].name) ELSE both], at)

(* and a round of its last loop: the smallest route over the number joins. *)
MergeExtra(routes, max) ==
  IF Len(routes) <= max THEN routes
  ELSE LET at == CHOOSE i \in DOMAIN routes : \A j \in DOMAIN routes :
                   LET a == Cardinality(routes[i].papers) b == Cardinality(routes[j].papers)
                   IN a < b \/ (a = b /\ i >= j)
       IN MergeOverflow(RemoveAt(routes, at), routes[at])

(* As many rounds of each as there were routes.                            *)
Paired(routes) == FoldLeft(LAMBDA r, i : MergeLone(r), routes, [i \in DOMAIN routes |-> i])
Cut(routes, paired, max) ==
  FoldLeft(LAMBDA r, i : MergeExtra(r, max), paired, [i \in DOMAIN routes |-> i])

Rebalanced(routes, max) ==
  IF Len(routes) <= 1 THEN routes ELSE Cut(routes, Paired(routes), max)

-----------------------------------------------------------------------------
(* _required_evidence_routes: a group of requirements with the papers that *)
(* meet them, and the statements of the theme that shares most of them.    *)
RequiredRoute(group, themes) ==
  LET shared(i) == Cardinality(themes[i].papers \cap group.papers)
      near == {i \in DOMAIN themes : shared(i) > 0}
      best == CHOOSE i \in near : \A j \in near :
                shared(i) > shared(j) \/ (shared(i) = shared(j) /\ i <= j)
  IN [name |-> group.name, papers |-> group.papers, labels |-> {},
      claims |-> IF near = {} THEN {} ELSE themes[best].claims]

RequiredRoutes(groups, themes) ==
  LET met == Entries(groups, {i \in DOMAIN groups : groups[i].papers # {}})
  IN [i \in DOMAIN met |-> RequiredRoute(met[i], themes)]

(* is_monolithic_anchor: the required routes are the whole subject.        *)
Monolithic(required, themes) ==
  LET union == Cardinality(PapersIn(required))
      threshold == Max({2, (3 * Cardinality(PapersIn(themes))) \div 4})
  IN /\ required # <<>> /\ Len(themes) >= 2
     /\ \/ \E n \in Sizes(required) : n >= threshold
        \/ /\ Len(required) > 1 /\ union >= threshold
           /\ union <= Max({1, (5 * Max(Sizes(required))) \div 4})

(* A required route with enough papers to compare is selected, a smaller   *)
(* one is attached to the theme that shares most papers, if one does.      *)
Attach(done, route) ==
  LET places == DOMAIN done.pool
      shared(i) == Cardinality(done.pool[i].papers \cap route.papers)
      best == CHOOSE i \in places : \A j \in places :
                shared(i) > shared(j) \/ (shared(i) = shared(j) /\ i >= j)
  IN IF Cardinality(route.papers) >= Comparable
     THEN [done EXCEPT !.selected = Append(@, route)]
     ELSE IF \E i \in places : shared(i) > 0
     THEN [done EXCEPT !.pool[best] = Absorb(Merge(@, route), route.name)]
     ELSE [done EXCEPT !.deferred = Append(@, route)]

Attached(required, themes) ==
  FoldLeft(Attach, [pool |-> themes, selected |-> <<>>, deferred |-> <<>>], required)

(* Routes are taken while they bring papers and there is room.             *)
BySize(pool) ==
  LET size(i) == Cardinality(pool[i].papers)
  IN Arranged(DOMAIN pool, {x \in (DOMAIN pool) \X (DOMAIN pool) :
       \/ size(x[1]) > size(x[2])
       \/ size(x[1]) = size(x[2]) /\ x[1] < x[2]})

Take(done, route, max) ==
  IF route.papers \subseteq done.papers THEN done
  ELSE IF Len(done.routes) >= max THEN [done EXCEPT !.over = Append(@, route)]
  ELSE [routes |-> Append(done.routes, route), over |-> done.over,
        papers |-> done.papers \cup route.papers]

TakeAll(attached, max) ==
  FoldLeft(LAMBDA done, i : Take(done, attached.pool[i], max),
           [routes |-> attached.selected, over |-> <<>>, papers |-> PapersIn(attached.selected)],
           BySize(attached.pool))

Filled(attached, max) ==
  LET taken == TakeAll(attached, max)
      room == Max({0, max - Len(taken.routes)})
      late == Min({room, Len(attached.deferred)})
  IN [routes |-> taken.routes \o SubSeq(attached.deferred, 1, late),
      over |-> taken.over \o SubSeq(attached.deferred, late + 1, Len(attached.deferred))]

FromRequired(required, themes, max) ==
  LET filled == Filled(Attached(required, themes), max)
  IN FoldLeft(MergeOverflow, filled.routes, filled.over)

-----------------------------------------------------------------------------
(* The themes by what they share with the request, then size, then order.  *)
Ranked(themes) ==
  LET focus == TopicWords \cup UNION Range(Focuses)
      shared(i) == Cardinality(focus \cap Text(themes[i]))
      size(i) == Cardinality(themes[i].papers)
      places == DOMAIN themes
  IN Arranged(places, {x \in places \X places :
       \/ shared(x[1]) > shared(x[2])
       \/ shared(x[1]) = shared(x[2]) /\ size(x[1]) > size(x[2])
       \/ shared(x[1]) = shared(x[2]) /\ size(x[1]) = size(x[2]) /\ x[1] < x[2]})

(* The places of the themes that are not chosen, in the ranking.           *)
Unchosen(themes, chosen) ==
  LET order == Ranked(themes)
  IN Entries(order, {k \in DOMAIN order : order[k] \notin Range(chosen)})

(* For each focus the best theme not selected yet, then the ranking.       *)
ForFocus(themes, max, done, focus) ==
  LET open == DOMAIN themes \ Range(done)
      shared(i) == Cardinality(focus \cap Text(themes[i]))
      best == CHOOSE i \in open : \A j \in open :
                shared(i) > shared(j) \/ (shared(i) = shared(j) /\ i >= j)
  IN IF Len(done) >= max \/ \A i \in open : shared(i) = 0 THEN done ELSE Append(done, best)

ForFocuses(themes, max) ==
  FoldLeft(LAMBDA done, focus : ForFocus(themes, max, done, focus), <<>>, Focuses)

Selected(themes, max) ==
  LET first == ForFocuses(themes, max)
      rest == Unchosen(themes, first)
  IN first \o SubSeq(rest, 1, Min({Len(rest), max - Len(first)}))

(* A theme that is not selected joins the one with the nearest words, or   *)
(* the smallest one.                                                       *)
Join(done, theme) ==
  LET shared(k) == Cardinality(Text(theme) \cap done.words[k])
      all(k) == Max({1, Cardinality(Text(theme) \cup done.words[k])})
      size(k) == Cardinality(done.routes[k].papers)
      slots == DOMAIN done.routes
      near == CHOOSE k \in slots : \A l \in slots :
                LET a == shared(k) * all(l) b == shared(l) * all(k)
                IN a > b \/ (a = b /\ k <= l)
      small == CHOOSE k \in slots : \A l \in slots :
                 size(k) < size(l) \/ (size(k) = size(l) /\ k <= l)
      to == IF shared(near) > 0 THEN near ELSE small
  IN [routes |-> [done.routes EXCEPT ![to] = Merge(@, theme)],
      words |-> [done.words EXCEPT ![to] = @ \cup Text(theme)]]

Seeds(themes, chosen) ==
  LET routes == [k \in DOMAIN chosen |-> themes[chosen[k]]]
  IN [routes |-> routes, words |-> [k \in DOMAIN routes |-> Text(routes[k])]]

JoinAll(themes, chosen) ==
  FoldLeft(LAMBDA done, i : Join(done, themes[i]), Seeds(themes, chosen), Unchosen(themes, chosen))

FromThemes(themes, max) == JoinAll(themes, Selected(themes, max)).routes

(* _merge_and_select_themes; evidence is 0 where the number is not scaled. *)
MaxRoutes(max, evidence, required) ==
  IF evidence = 0 THEN max
  ELSE Min({max, Max({1, Len(required), Len(Focuses), evidence \div Comparable})})

Routes(themes, groups, max, evidence) ==
  LET required == RequiredRoutes(groups, themes)
      most == MaxRoutes(max, evidence, required)
  IN Rebalanced(IF required # <<>> /\ ~Monolithic(required, themes)
                THEN FromRequired(required, themes, most)
                ELSE IF themes = <<>> THEN <<>> ELSE FromThemes(themes, most), most)

-----------------------------------------------------------------------------
(* _theme_section and the sections that are not a route's.                 *)
ThemeSection(route, floor) ==
  [id |-> "theme", papers |-> route.papers, words |-> route.name \cup UNION route.labels,
   floor |-> floor]
Section(id, papers) == [id |-> id, papers |-> papers, words |-> {}, floor |-> 0]

ThemeSections(routes, floor) == [i \in DOMAIN routes |-> ThemeSection(routes[i], floor)]

(* _build_background_plan *)
BackgroundSections(usable) == <<Section("background_body", usable)>>

(* _build_research_status_plan: all usable papers may be in the overview,  *)
(* and those of the routes.                                                *)
StatusSections(themes, groups, usable, max, floor) ==
  LET routes == Routes(themes, groups, max, Cardinality(usable))
  IN <<Section("status_overview", usable \cup IF groups = <<>> THEN {} ELSE PapersIn(routes))>>
       \o ThemeSections(routes, floor)

(* _select_related_themes: the three nearest to the user's paper.          *)
RelatedRoutes(themes, max) ==
  LET shared(i) == Cardinality(Profile \cap Text(themes[i]))
      places == DOMAIN themes
      order == Arranged(places, {x \in places \X places :
                 shared(x[1]) > shared(x[2]) \/ (shared(x[1]) = shared(x[2]) /\ x[1] < x[2])})
      near == Entries(order, {k \in DOMAIN order : shared(order[k]) > 0})
      from == IF near # <<>> THEN near ELSE order
  IN [k \in 1 .. Min({max, Len(from)}) |-> themes[from[k]]]

(* _build_related_work_plan *)
RelatedSections(themes, usable, max) ==
  LET routes == RelatedRoutes(themes, Max({1, max - 1}))
  IN <<Section("related_work_overview", usable)>> \o ThemeSections(routes, 0)
       \o IF Len(routes) + 1 < 5 THEN <<Section("gap_and_positioning", usable)>> ELSE <<>>

(* _build_narrative_review_plan *)
ReviewSections(themes, groups, usable) ==
  <<Section("review_title", usable), Section("introduction", usable)>>
    \o ThemeSections(Routes(themes, groups, 3, 0), 0)
    \o <<Section("comparison_and_gaps", usable), Section("conclusion", usable)>>
=============================================================================
