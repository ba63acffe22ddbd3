--------------------------- MODULE WritingProofs ---------------------------
(***************************************************************************)
(* Proofs about RouteValidation, Claims and Sections: what the routes and  *)
(* their themes rest on and what is searched for them, which claims the    *)
(* gate lets through, what a checkpoint is reused for, what a text may     *)
(* cite, and that no section is lost.                                      *)
(***************************************************************************)
EXTENDS Claims, Sections, RouteValidation, ListProofs, TLAPS

-----------------------------------------------------------------------------
(* The routes and their themes                                             *)
RouteNames == DOMAIN Suggested
RouteRecords ==
  [id : [of : RouteNames, part : Nat], status : {"keep", "weak"},
   core : SUBSET RoutePapers, support : SUBSET RoutePapers]

RoutesTypeOK ==
  /\ DOMAIN framework \subseteq RouteNames
  /\ profile \in Readings /\ cards \subseteq RoutePapers
  /\ DOMAIN decided \subseteq RouteNames
  /\ \A r \in DOMAIN decided : decided[r].core \subseteq RoutePapers
  /\ validated \in Seq(RouteRecords)

LEMMA RouteNamesFinite == IsFiniteSet(RouteNames) /\ RouteNames \subseteq Nat
<1>1. RouteNames = 1 .. Len(Suggested) /\ Len(Suggested) \in Nat
  BY RoutesAssumption DEF RouteNames
<1>2. IsFiniteSet(1 .. Len(Suggested))
  BY <1>1, FS_Interval
<1> QED
  BY <1>1, <1>2

LEMMA SomeRouteNames ==
  ASSUME NEW R, R \subseteq RouteNames
  PROVE  IsFiniteSet(R) /\ R \subseteq Int
<1>1. R \in SUBSET RouteNames /\ IsFiniteSet(RouteNames)
  BY RouteNamesFinite
<1>2. IsFiniteSet(R)
  BY <1>1, FS_Subset
<1> QED
  BY <1>2, RouteNamesFinite

(* Of the routes a paper matches there is a best. *)
LEMMA BestFitIn ==
  ASSUME RoutesTypeOK, NEW p \in cards, NEW R, R \subseteq RouteNames, R # {}
  PROVE  BestFit(p, R) \in R
<1> DEFINE fit(r) == profile[p].at[r].fit
           better == {x \in R \X R : \/ fit(x[1]) > fit(x[2])
                                     \/ fit(x[1]) = fit(x[2]) /\ x[1] < x[2]}
<1>1. IsFiniteSet(R) /\ R \subseteq Int
  BY SomeRouteNames
<1>2. \A r \in R : fit(r) \in Int
  BY RoutesAssumption DEF RoutesTypeOK, RouteNames
<1> HIDE DEF fit
<1>3. ASSUME NEW x \in R, NEW y \in R
      PROVE  <<x, y>> \in better <=> fit(x) > fit(y) \/ (fit(x) = fit(y) /\ x < y)
  OBVIOUS
<1> HIDE DEF better
<1>4. Orders(better, R)
  <2>1. ASSUME NEW x \in R PROVE <<x, x>> \notin better
    BY <1>1, <1>2, <1>3
  <2>2. ASSUME NEW x \in R, NEW y \in R, x # y
        PROVE  <<x, y>> \in better \/ <<y, x>> \in better
    <3>1. x \in Int /\ y \in Int /\ fit(x) \in Int /\ fit(y) \in Int
      BY <1>1, <1>2
    <3> QED
      BY <1>3, <2>2, <3>1
  <2>3. ASSUME NEW x \in R, NEW y \in R, NEW z \in R, <<x, y>> \in better, <<y, z>> \in better
        PROVE  <<x, z>> \in better
    <3>1. /\ x \in Int /\ y \in Int /\ z \in Int
          /\ fit(x) \in Int /\ fit(y) \in Int /\ fit(z) \in Int
      BY <1>1, <1>2
    <3> QED
      BY <1>3, <2>3, <3>1
  <2> QED
    BY <2>1, <2>2, <2>3 DEF Orders
<1>5. PICK best \in R : \A other \in R \ {best} : <<best, other>> \in better
  <2>1. \E x \in R : \A y \in R \ {x} : <<x, y>> \in better
    <3>1. IsFiniteSet(R) /\ R # {} /\ Orders(better, R)
      BY <1>1, <1>4
    <3> QED
      BY <3>1, FirstExists
  <2> QED
    BY <2>1
<1>6. \A other \in R \ {best} :
        fit(best) > fit(other) \/ (fit(best) = fit(other) /\ best < other)
  BY <1>3, <1>5
<1>7. \E r \in R : \A other \in R \ {r} :
        \/ profile[p].at[r].fit > profile[p].at[other].fit
        \/ profile[p].at[r].fit = profile[p].at[other].fit /\ r < other
  BY <1>6 DEF fit
<1> QED
  BY <1>7, Zenon DEF BestFit

LEMMA VerdictOf ==
  ASSUME NEW defs, NEW r
  PROVE  /\ Decision(defs, r).status \in {"keep", "weak", "drop"}
         /\ Decision(defs, r).core = AtLevel(defs, r, "core")
         /\ Decision(defs, r).support = AtLevel(defs, r, "supporting")
BY DEF Decision

LEMMA AtLevelCards ==
  ASSUME RoutesTypeOK, NEW defs, NEW r, NEW level
  PROVE  AtLevel(defs, r, level) \subseteq RoutePapers
BY DEF RoutesTypeOK, AtLevel

-----------------------------------------------------------------------------
(* What survives are whole routes, each once, with what their cards give.  *)
WholeRoutes(kept, defs) ==
  /\ kept \in Seq(RouteRecords)
  /\ \A i \in DOMAIN kept :
       /\ kept[i].id.part = 0 /\ kept[i].id.of \in DOMAIN defs
       /\ kept[i].core = AtLevel(defs, kept[i].id.of, "core")
       /\ kept[i].support = AtLevel(defs, kept[i].id.of, "supporting")
  /\ \A i, j \in DOMAIN kept : kept[i].id.of = kept[j].id.of => i = j

LEMMA SurvivingWhole ==
  ASSUME RoutesTypeOK, NEW defs, DOMAIN defs \subseteq RouteNames,
         NEW verdicts, verdicts = [r \in DOMAIN defs |-> Decision(defs, r)]
  PROVE  WholeRoutes(Surviving(verdicts), defs)
<1> DEFINE S == {r \in DOMAIN verdicts : verdicts[r].status # "drop"}
           spot == Ascending(S)
           n == Cardinality(S)
           kept == Surviving(verdicts)
<1>1. S \subseteq RouteNames /\ S \subseteq DOMAIN defs
  OBVIOUS
<1>2. IsFiniteSet(S) /\ S \subseteq Int
  BY <1>1, SomeRouteNames
<1>3. Arranges(spot, S, {x \in S \X S : x[1] < x[2]})
  BY <1>2, AscendingOrder
<1>4. /\ n \in Nat /\ spot \in [1 .. n -> S]
      /\ \A k, l \in 1 .. n : spot[k] = spot[l] => k = l
  BY <1>3 DEF Arranges
<1>5. ASSUME NEW r \in S
      PROVE  /\ verdicts[r].status \in {"keep", "weak"}
             /\ verdicts[r].core = AtLevel(defs, r, "core")
             /\ verdicts[r].support = AtLevel(defs, r, "supporting")
  BY VerdictOf
<1>6. kept = [i \in 1 .. n |-> [id |-> RouteId(spot[i], 0), status |-> verdicts[spot[i]].status,
                                core |-> verdicts[spot[i]].core, support |-> verdicts[spot[i]].support]]
  BY <1>4 DEF Surviving
<1> HIDE DEF S, spot, n, kept
<1>7. ASSUME NEW i \in 1 .. n
      PROVE  /\ kept[i] \in RouteRecords
             /\ kept[i].id.part = 0 /\ kept[i].id.of = spot[i] /\ spot[i] \in S
             /\ kept[i].core = AtLevel(defs, spot[i], "core")
             /\ kept[i].support = AtLevel(defs, spot[i], "supporting")
  <2>1. spot[i] \in S /\ spot[i] \in RouteNames
    BY <1>1, <1>4
  <2>2. /\ AtLevel(defs, spot[i], "core") \subseteq RoutePapers
        /\ AtLevel(defs, spot[i], "supporting") \subseteq RoutePapers
    BY AtLevelCards
  <2>3. /\ kept[i] = [id |-> [of |-> spot[i], part |-> 0], status |-> verdicts[spot[i]].status,
                      core |-> AtLevel(defs, spot[i], "core"),
                      support |-> AtLevel(defs, spot[i], "supporting")]
        /\ verdicts[spot[i]].status \in {"keep", "weak"}
    BY <1>5, <1>6, <2>1 DEF RouteId
  <2> QED
    BY <2>1, <2>2, <2>3 DEF RouteRecords
<1>8. kept \in Seq(RouteRecords) /\ DOMAIN kept = 1 .. n
  <2>1. DOMAIN kept = 1 .. n /\ \A i \in 1 .. n : kept[i] \in RouteRecords
    BY <1>6, <1>7
  <2>2. kept = [i \in 1 .. n |-> kept[i]]
    BY <1>6
  <2> HIDE DEF RouteRecords
  <2> QED
    BY <1>4, <2>1, <2>2
<1>9. \A i, j \in 1 .. n : kept[i].id.of = kept[j].id.of => i = j
  BY <1>4, <1>7
<1>10. \A i \in 1 .. n : kept[i].id.of \in DOMAIN defs
  BY <1>1, <1>7
<1>11. ASSUME NEW i \in 1 .. n
       PROVE  /\ kept[i].id.part = 0 /\ kept[i].id.of \in DOMAIN defs
              /\ kept[i].core = AtLevel(defs, kept[i].id.of, "core")
              /\ kept[i].support = AtLevel(defs, kept[i].id.of, "supporting")
  BY <1>7, <1>10
<1>12. WholeRoutes(kept, defs)
  BY <1>8, <1>9, <1>11 DEF WholeRoutes
<1> QED
  BY <1>12 DEF kept

-----------------------------------------------------------------------------
(* A route is split into parts of what it owns, and no two share a paper.  *)
LEMMA OwnedIn ==
  ASSUME RoutesTypeOK, NEW defs, NEW kept, NEW r
  PROVE  /\ DOMAIN Owner(defs, kept) \subseteq cards
         /\ Exclusive(Owner(defs, kept), r) \subseteq DOMAIN Owner(defs, kept)
         /\ IsFiniteSet(DOMAIN Owner(defs, kept))
         /\ IsFiniteSet(Exclusive(Owner(defs, kept), r))
<1>1. /\ DOMAIN Owner(defs, kept) \in SUBSET RoutePapers
      /\ DOMAIN Owner(defs, kept) \subseteq cards
  BY DEF Owner, RoutesTypeOK
<1>2. Exclusive(Owner(defs, kept), r) \in SUBSET (DOMAIN Owner(defs, kept))
  BY DEF Exclusive
<1>3. IsFiniteSet(RoutePapers)
  BY RoutesAssumption
<1>4. IsFiniteSet(DOMAIN Owner(defs, kept))
  BY <1>1, <1>3, FS_Subset
<1>5. IsFiniteSet(Exclusive(Owner(defs, kept), r))
  BY <1>2, <1>4, FS_Subset
<1> QED
  BY <1>1, <1>2, <1>4, <1>5

LEMMA PartCountNat ==
  ASSUME RoutesTypeOK, NEW defs, NEW kept \in Seq(RouteRecords), NEW r,
         IsOversized(Owner(defs, kept), kept, r)
  PROVE  PartCount(Owner(defs, kept), kept, r) \in Nat
<1> DEFINE owner == Owner(defs, kept)
           members == Cardinality(Exclusive(owner, r))
           all == Cardinality(DOMAIN owner)
<1>1. IsFiniteSet(DOMAIN owner) /\ Exclusive(owner, r) \subseteq DOMAIN owner
  BY OwnedIn
<1>2. members \in Nat /\ all \in Nat /\ Len(kept) \in Nat
  BY <1>1, OwnedIn, FS_CardinalityType
<1>3. all # 0
  <2> SUFFICES ASSUME all = 0 PROVE FALSE
    OBVIOUS
  <2>1. DOMAIN owner = {}
    BY <1>1, FS_EmptySet
  <2>2. Exclusive(owner, r) = {}
    BY <1>1, <2>1
  <2>3. members = 0
    BY <2>2, FS_EmptySet
  <2>4. members * Len(kept) * Oversized[2] > all * Oversized[1]
    BY DEF IsOversized
  <2>5. Oversized[1] \in Nat /\ Oversized[2] \in Nat
    BY RoutesAssumption
  <2> HIDE DEF members, all
  <2>6. 0 * Len(kept) * Oversized[2] > 0 * Oversized[1]
    BY <2>3, <2>4
  <2> QED
    BY <1>2, <2>5, <2>6
<1> HIDE DEF members, all
<1>4. ASSUME NEW a \in Nat PROVE RoundedQuotient(a, all) \in Int
  <2>1. a \div all \in Int
    BY <1>2, <1>3
  <2> QED
    BY <2>1 DEF RoundedQuotient
<1>5. members * Len(kept) \in Nat
  BY <1>2
<1> DEFINE shares == RoundedQuotient(members * Len(kept), all)
<1>6. shares \in Int
  BY <1>4, <1>5
<1> HIDE DEF shares
<1> DEFINE more == Max({2, shares})
<1>7. more \in Int /\ more >= 2
  <2>1. 2 \in Int
    OBVIOUS
  <2> QED
    BY <1>6, <2>1, OfTwo
<1>8. MaxSubRoutes \in Nat
  BY RoutesAssumption
<1> HIDE DEF more
<1>9. Min({MaxSubRoutes, more}) \in Nat
  <2>1. MaxSubRoutes \in Int
    BY <1>8
  <2>2. Min({MaxSubRoutes, more}) \in {MaxSubRoutes, more}
    BY <1>7, <2>1, OfTwo
  <2> QED
    BY <1>7, <1>8, <2>2
<1> QED
  BY <1>9 DEF PartCount, more, shares, members, all, owner

Divided(parts, members, support) ==
  /\ parts \in Seq(SUBSET RoutePapers)
  /\ \A k \in DOMAIN parts : parts[k] \subseteq members /\ Sufficient(parts[k], support)
  /\ \A k, l \in DOMAIN parts : k # l => parts[k] \cap parts[l] = {}

LEMMA SplitDivided ==
  ASSUME RoutesTypeOK, NEW defs, NEW kept, WholeRoutes(kept, defs),
         NEW choice \in SplitChoices(Owner(defs, kept), kept),
         NEW r \in DOMAIN choice, choice[r] # Whole
  PROVE  Divided(choice[r], Exclusive(Owner(defs, kept), r), RouteOf(kept, RouteId(r, 0)).support)
<1> DEFINE owner == Owner(defs, kept)
           members == Exclusive(owner, r)
           count == PartCount(owner, kept, r)
           parts == choice[r]
           of(f, i) == {p \in members : f[p] = i}
           support == RouteOf(kept, RouteId(r, 0)).support
<1>1. IsOversized(owner, kept, r) /\ parts \in Splits(owner, kept, r)
  <2>1. DOMAIN choice = {id.of : id \in {id \in RouteIds(kept) : IsOversized(owner, kept, id.of)}}
    BY DEF SplitChoices
  <2>2. \A x \in DOMAIN choice : choice[x] \in {Whole} \cup Splits(owner, kept, x)
    BY DEF SplitChoices
  <2> QED
    BY <2>1, <2>2
<1>2. kept \in Seq(RouteRecords)
  BY DEF WholeRoutes
<1>3. count \in Nat
  BY <1>1, <1>2, PartCountNat
<1>4. parts \in Divisions(members, count) /\ \A i \in DOMAIN parts : Sufficient(parts[i], support)
  BY <1>1 DEF Splits
<1>5. members \subseteq RoutePapers
  BY OwnedIn DEF RoutesTypeOK
<1> HIDE DEF members, count, support, parts
<1>6. PICK f : parts = [i \in 1 .. count |-> of(f, i)]
  <2>1. CASE Cardinality(members) < 2 * count
    BY <1>4, <2>1 DEF Divisions
  <2>2. CASE ~(Cardinality(members) < 2 * count)
    BY <1>4, <2>2 DEF Divisions
  <2> QED
    BY <2>1, <2>2
<1>7. DOMAIN parts = 1 .. count /\ \A i \in 1 .. count : parts[i] \in SUBSET RoutePapers
  BY <1>5, <1>6
<1>8. parts \in Seq(SUBSET RoutePapers)
  BY <1>3, <1>6, <1>7
<1>9. ASSUME NEW k \in 1 .. count, NEW l \in 1 .. count, k # l PROVE parts[k] \cap parts[l] = {}
  BY <1>6, <1>9
<1>10. \A k \in 1 .. count : parts[k] \subseteq members
  BY <1>6
<1> QED
  BY <1>4, <1>7, <1>8, <1>9, <1>10 DEF Divided, members, parts, support

-----------------------------------------------------------------------------
(* The routes after the splits: each id once; a whole route has the core   *)
(* its cards give, a part is divided from what its route owns.             *)
SplitRoutes(routes, defs, owner) ==
  /\ routes \in Seq(RouteRecords)
  /\ \A i \in DOMAIN routes :
       /\ routes[i].id.of \in DOMAIN defs
       /\ routes[i].id.part = 0 => routes[i].core = AtLevel(defs, routes[i].id.of, "core")
       /\ routes[i].id.part > 0 => /\ routes[i].core \subseteq Exclusive(owner, routes[i].id.of)
                                   /\ Sufficient(routes[i].core, routes[i].support)
  /\ \A i, j \in DOMAIN routes : routes[i].id = routes[j].id => i = j
  /\ \A i, j \in DOMAIN routes :
       routes[i].id.part > 0 /\ routes[j].id.part > 0 /\ i # j =>
         routes[i].core \cap routes[j].core = {}

(* What route i becomes: itself, or the parts it was divided into.         *)
Becomes(kept, choice, i) ==
  IF kept[i].id.of \in DOMAIN choice /\ choice[kept[i].id.of] # Whole
  THEN Parts(kept[i], choice[kept[i].id.of]) ELSE <<kept[i]>>

LEMMA RouteOfOnly ==
  ASSUME NEW routes, NEW i \in DOMAIN routes,
         \A j, k \in DOMAIN routes : routes[j].id = routes[k].id => j = k
  PROVE  RouteOf(routes, routes[i].id) = routes[i]
<1> DEFINE spot == CHOOSE j \in DOMAIN routes : routes[j].id = routes[i].id
<1>1. spot \in DOMAIN routes /\ routes[spot].id = routes[i].id
  OBVIOUS
<1>2. spot = i
  BY <1>1
<1> QED
  BY <1>2 DEF RouteOf

LEMMA BecomesWhole ==
  ASSUME NEW defs, NEW kept, WholeRoutes(kept, defs), NEW choice, NEW i \in DOMAIN kept,
         ~(kept[i].id.of \in DOMAIN choice /\ choice[kept[i].id.of] # Whole)
  PROVE  /\ Becomes(kept, choice, i) \in Seq(RouteRecords)
         /\ \A k \in DOMAIN Becomes(kept, choice, i) : k = 1 /\ Becomes(kept, choice, i)[k] = kept[i]
<1>1. Becomes(kept, choice, i) = <<kept[i]>>
  BY DEF Becomes
<1>2. kept[i] \in RouteRecords
  BY DEF WholeRoutes
<1>3. <<kept[i]>> \in Seq(RouteRecords) /\ DOMAIN <<kept[i]>> = {1} /\ <<kept[i]>>[1] = kept[i]
  <2> HIDE DEF RouteRecords
  <2> QED
    BY <1>2
<1> QED
  BY <1>1, <1>3

LEMMA BecomesParts ==
  ASSUME RoutesTypeOK, NEW defs, NEW kept, WholeRoutes(kept, defs),
         NEW choice \in SplitChoices(Owner(defs, kept), kept), NEW i \in DOMAIN kept,
         kept[i].id.of \in DOMAIN choice, choice[kept[i].id.of] # Whole
  PROVE  LET new == Becomes(kept, choice, i) r == kept[i].id.of IN
         /\ new \in Seq(RouteRecords) /\ DOMAIN new = DOMAIN choice[r]
         /\ Divided(choice[r], Exclusive(Owner(defs, kept), r), kept[i].support)
         /\ \A k \in DOMAIN new : /\ new[k].id = RouteId(r, k) /\ k \in Nat /\ k > 0
                                  /\ new[k].core = choice[r][k] /\ new[k].support = kept[i].support
<1> DEFINE new == Becomes(kept, choice, i)
           r == kept[i].id.of
           parts == choice[r]
<1>1. kept[i] \in RouteRecords /\ kept[i].id = RouteId(r, 0)
  <2>1. kept[i] \in RouteRecords /\ kept[i].id.part = 0
    BY DEF WholeRoutes
  <2> QED
    BY <2>1 DEF RouteRecords, RouteId
<1>2. RouteOf(kept, RouteId(r, 0)) = kept[i]
  <2>1. \A j, k \in DOMAIN kept : kept[j].id = kept[k].id => j = k
    BY DEF WholeRoutes
  <2>2. RouteOf(kept, kept[i].id) = kept[i]
    BY <2>1, RouteOfOnly
  <2> QED
    BY <1>1, <2>2
<1>3. Divided(parts, Exclusive(Owner(defs, kept), r), kept[i].support)
  BY <1>2, SplitDivided
<1>4. parts \in Seq(SUBSET RoutePapers) /\ DOMAIN parts = 1 .. Len(parts) /\ Len(parts) \in Nat
  BY <1>3 DEF Divided
<1>5. new = [k \in DOMAIN parts |-> [kept[i] EXCEPT !.id = RouteId(r, k), !.core = parts[k]]]
  BY DEF Becomes, Parts
<1> HIDE DEF parts, r, new
<1>6. ASSUME NEW k \in DOMAIN parts
      PROVE  /\ new[k] \in RouteRecords
             /\ new[k].id = RouteId(r, k) /\ k \in Nat /\ k > 0
             /\ new[k].core = parts[k] /\ new[k].support = kept[i].support
  <2>1. k \in Nat /\ k > 0 /\ parts[k] \subseteq RoutePapers
    BY <1>4
  <2>2. r \in RouteNames
    BY <1>1 DEF RouteRecords, r
  <2>3. RouteId(r, k) \in [of : RouteNames, part : Nat]
    BY <2>1, <2>2 DEF RouteId
  <2>4. kept[i] = [id |-> kept[i].id, status |-> kept[i].status, core |-> kept[i].core,
                   support |-> kept[i].support]
          /\ kept[i].status \in {"keep", "weak"} /\ kept[i].support \subseteq RoutePapers
    BY <1>1 DEF RouteRecords
  <2>5. new[k] = [id |-> RouteId(r, k), status |-> kept[i].status, core |-> parts[k],
                  support |-> kept[i].support]
    BY <1>5, <2>4
  <2> QED
    BY <2>1, <2>3, <2>4, <2>5 DEF RouteRecords
<1>7. DOMAIN new = DOMAIN parts
  BY <1>5
<1>8. new \in Seq(RouteRecords)
  <2>1. new = [k \in 1 .. Len(parts) |-> new[k]] /\ \A k \in 1 .. Len(parts) : new[k] \in RouteRecords
    BY <1>4, <1>5, <1>6
  <2> HIDE DEF RouteRecords
  <2> QED
    BY <1>4, <2>1
<1> QED
  BY <1>3, <1>6, <1>7, <1>8 DEF new, r, parts

LEMMA WithPartsSplit ==
  ASSUME RoutesTypeOK, NEW defs, NEW kept, WholeRoutes(kept, defs),
         NEW choice \in SplitChoices(Owner(defs, kept), kept)
  PROVE  SplitRoutes(WithParts(kept, choice), defs, Owner(defs, kept))
<1> DEFINE ss == [i \in DOMAIN kept |-> Becomes(kept, choice, i)]
           routes == FlattenSeq(ss)
           owner == Owner(defs, kept)
           divided(i) == kept[i].id.of \in DOMAIN choice /\ choice[kept[i].id.of] # Whole
<1>1. /\ kept \in Seq(RouteRecords) /\ DOMAIN kept = 1 .. Len(kept) /\ Len(kept) \in Nat
      /\ \A i \in DOMAIN kept :
           /\ kept[i].id.part = 0 /\ kept[i].id.of \in DOMAIN defs
           /\ kept[i].core = AtLevel(defs, kept[i].id.of, "core")
      /\ \A i, j \in DOMAIN kept : kept[i].id.of = kept[j].id.of => i = j
  BY DEF WholeRoutes
<1>2. WithParts(kept, choice) = routes
  BY DEF WithParts, Becomes
<1>3. ASSUME NEW i \in DOMAIN kept, ~divided(i)
      PROVE  /\ ss[i] \in Seq(RouteRecords)
             /\ \A k \in DOMAIN ss[i] : k = 1 /\ ss[i][k] = kept[i]
  BY <1>3, BecomesWhole
<1>4. ASSUME NEW i \in DOMAIN kept, divided(i)
      PROVE  /\ ss[i] \in Seq(RouteRecords) /\ DOMAIN ss[i] = DOMAIN choice[kept[i].id.of]
             /\ Divided(choice[kept[i].id.of], Exclusive(owner, kept[i].id.of), kept[i].support)
             /\ \A k \in DOMAIN ss[i] :
                  /\ ss[i][k].id = RouteId(kept[i].id.of, k) /\ k \in Nat /\ k > 0
                  /\ ss[i][k].core = choice[kept[i].id.of][k] /\ ss[i][k].support = kept[i].support
  BY <1>4, BecomesParts
<1>5. ss \in Seq(Seq(RouteRecords))
  <2>1. \A i \in 1 .. Len(kept) : ss[i] \in Seq(RouteRecords)
    BY <1>1, <1>3, <1>4
  <2>2. ss = [i \in 1 .. Len(kept) |-> ss[i]]
    BY <1>1
  <2> HIDE DEF ss, RouteRecords
  <2> QED
    BY <1>1, <2>1, <2>2
<1>6. DOMAIN ss = DOMAIN kept
  OBVIOUS
<1> HIDE DEF ss, divided
<1>7. routes \in Seq(RouteRecords) /\ \E row, col : Flattens(routes, ss, row, col)
  <2> HIDE DEF RouteRecords
  <2> QED
    BY <1>5, FlattenAt
<1> HIDE DEF routes
<1>8. PICK row, col : Flattens(routes, ss, row, col)
  BY <1>7
<1>9. ASSUME NEW j \in DOMAIN routes
      PROVE  /\ row[j] \in DOMAIN kept /\ col[j] \in DOMAIN ss[row[j]]
             /\ routes[j] = ss[row[j]][col[j]]
  BY <1>6, <1>8 DEF Flattens
<1>10. ASSUME NEW i \in DOMAIN routes, NEW j \in DOMAIN routes,
              row[i] = row[j], col[i] = col[j]
       PROVE  i = j
  BY <1>8, <1>10 DEF Flattens
<1>11. ASSUME NEW j \in DOMAIN routes
       PROVE  /\ routes[j].id.of = kept[row[j]].id.of
              /\ ~divided(row[j]) => routes[j] = kept[row[j]] /\ routes[j].id.part = 0 /\ col[j] = 1
              /\ divided(row[j]) =>
                   /\ routes[j].id.part = col[j] /\ col[j] > 0
                   /\ routes[j].core = choice[kept[row[j]].id.of][col[j]]
                   /\ routes[j].support = kept[row[j]].support
                   /\ col[j] \in DOMAIN choice[kept[row[j]].id.of]
                   /\ Divided(choice[kept[row[j]].id.of], Exclusive(owner, kept[row[j]].id.of),
                              kept[row[j]].support)
  <2>1. CASE ~divided(row[j])
    BY <1>1, <1>3, <1>9, <2>1
  <2>2. CASE divided(row[j])
    <3> DEFINE i == row[j]
               k == col[j]
    <3>1. i \in DOMAIN kept /\ k \in DOMAIN ss[i] /\ routes[j] = ss[i][k]
      BY <1>9
    <3>2. /\ ss[i][k].id = RouteId(kept[i].id.of, k) /\ k > 0
          /\ ss[i][k].core = choice[kept[i].id.of][k] /\ ss[i][k].support = kept[i].support
          /\ k \in DOMAIN choice[kept[i].id.of]
          /\ Divided(choice[kept[i].id.of], Exclusive(owner, kept[i].id.of), kept[i].support)
      BY <1>4, <2>2, <3>1
    <3>3. RouteId(kept[i].id.of, k).of = kept[i].id.of /\ RouteId(kept[i].id.of, k).part = k
      BY DEF RouteId
    <3> QED
      BY <2>2, <3>1, <3>2, <3>3
  <2> QED
    BY <2>1, <2>2
<1>12. ASSUME NEW j \in DOMAIN routes
       PROVE  /\ routes[j].id.of \in DOMAIN defs
              /\ routes[j].id.part = 0 => routes[j].core = AtLevel(defs, routes[j].id.of, "core")
              /\ routes[j].id.part > 0 => /\ routes[j].core \subseteq Exclusive(owner, routes[j].id.of)
                                          /\ Sufficient(routes[j].core, routes[j].support)
  <2>1. CASE ~divided(row[j])
    BY <1>1, <1>9, <1>11, <2>1
  <2>2. CASE divided(row[j])
    <3>1. routes[j].id.part > 0 /\ ~(routes[j].id.part = 0) /\ routes[j].id.of \in DOMAIN defs
      <4>1. col[j] \in Nat
        BY <1>4, <1>9, <2>2
      <4> QED
        BY <1>1, <1>9, <1>11, <2>2, <4>1
    <3> QED
      BY <1>11, <2>2, <3>1 DEF Divided
  <2> QED
    BY <2>1, <2>2
<1>13. ASSUME NEW i \in DOMAIN routes, NEW j \in DOMAIN routes, routes[i].id = routes[j].id
       PROVE  i = j
  <2>1. row[i] = row[j]
    BY <1>1, <1>9, <1>11, <1>13
  <2>2. col[i] = col[j]
    BY <1>11, <1>13, <2>1
  <2> QED
    BY <1>10, <2>1, <2>2
<1>14. ASSUME NEW i \in DOMAIN routes, NEW j \in DOMAIN routes,
              routes[i].id.part > 0, routes[j].id.part > 0, i # j
       PROVE  routes[i].core \cap routes[j].core = {}
  <2>1. divided(row[i]) /\ divided(row[j])
    BY <1>11, <1>14
  <2>2. CASE row[i] = row[j]
    <3>1. col[i] # col[j]
      BY <1>10, <1>14, <2>2
    <3> DEFINE parts == choice[kept[row[j]].id.of]
    <3>2. /\ routes[i].core = parts[col[i]] /\ col[i] \in DOMAIN parts
          /\ routes[j].core = parts[col[j]] /\ col[j] \in DOMAIN parts
      BY <1>11, <2>1, <2>2
    <3>3. \A k, l \in DOMAIN parts : k # l => parts[k] \cap parts[l] = {}
      BY <1>11, <2>1 DEF Divided
    <3> QED
      BY <3>1, <3>2, <3>3
  <2>3. CASE row[i] # row[j]
    <3>1. kept[row[i]].id.of # kept[row[j]].id.of
      BY <1>1, <1>9, <2>3
    <3>2. /\ routes[i].core \subseteq Exclusive(owner, kept[row[i]].id.of)
          /\ routes[j].core \subseteq Exclusive(owner, kept[row[j]].id.of)
      BY <1>11, <2>1 DEF Divided
    <3> QED
      BY <3>1, <3>2 DEF Exclusive
  <2> QED
    BY <2>2, <2>3
<1> QED
  BY <1>2, <1>7, <1>12, <1>13, <1>14 DEF SplitRoutes

-----------------------------------------------------------------------------
(* AssignmentsSound and ThemesSound, of any routes, assignment and taxonomy. *)
HoldsCore(routes, id, p) == id \in RouteIds(routes) /\ p \in RouteOf(routes, id).core

AssignedWell(routes, assignment) ==
  /\ \A p \in Understood(assignment) :
       \A id \in {assignment[p].primary} \cup assignment[p].others : HoldsCore(routes, id, p)
  /\ \A i \in DOMAIN routes : routes[i].core \subseteq Understood(assignment)
  /\ \A i, j \in DOMAIN routes :
       routes[i].id.part > 0 /\ routes[j].id.part > 0 /\ i # j =>
         routes[i].core \cap routes[j].core = {}
  /\ \A i \in DOMAIN routes :
       routes[i].id.part > 0 => Sufficient(routes[i].core, routes[i].support)

LEMMA AssignmentWell ==
  ASSUME RoutesTypeOK, NEW defs, DOMAIN defs \subseteq RouteNames, NEW kept, NEW routes,
         SplitRoutes(routes, defs, Owner(defs, kept)),
         NEW assignment, assignment = [p \in cards |-> Assignment(defs, routes, p)]
  PROVE  AssignedWell(routes, assignment)
<1> DEFINE parts(p) == {i \in DOMAIN routes : routes[i].id.part > 0 /\ p \in routes[i].core}
           core(p) == MatchedBy(defs, routes, p, "core")
           best(p) == RouteId(BestFit(p, core(p)), 0)
<1>1. /\ \A i, j \in DOMAIN routes : routes[i].id = routes[j].id => i = j
      /\ \A i \in DOMAIN routes : routes[i] \in RouteRecords
  BY DEF SplitRoutes
<1>2. ASSUME NEW i \in DOMAIN routes, NEW p \in routes[i].core
      PROVE  HoldsCore(routes, routes[i].id, p)
  <2>1. RouteOf(routes, routes[i].id) = routes[i]
    BY <1>1, RouteOfOnly
  <2> QED
    BY <2>1 DEF HoldsCore, RouteIds
<1>3. ASSUME NEW p \in cards, NEW r \in core(p)
      PROVE  HoldsCore(routes, RouteId(r, 0), p)
  <2>1. r \in DOMAIN defs /\ MatchLevel(defs, r, p) = "core" /\ RouteId(r, 0) \in RouteIds(routes)
    BY DEF MatchedBy
  <2>2. PICK i \in DOMAIN routes : routes[i].id = RouteId(r, 0)
    BY <2>1 DEF RouteIds
  <2>3. routes[i].id.part = 0 /\ routes[i].id.of = r
    BY <2>2 DEF RouteId
  <2>4. routes[i].core = AtLevel(defs, r, "core")
    BY <2>3 DEF SplitRoutes
  <2>5. p \in routes[i].core
    BY <2>1, <2>4 DEF AtLevel
  <2> QED
    BY <1>2, <2>2, <2>5
<1>4. ASSUME NEW p \in cards, core(p) # {} PROVE best(p) \in {RouteId(r, 0) : r \in core(p)}
  <2>1. core(p) \subseteq RouteNames
    BY DEF MatchedBy
  <2>2. BestFit(p, core(p)) \in core(p)
    BY <1>4, <2>1, BestFitIn
  <2> QED
    BY <2>2
<1>5. ASSUME NEW p \in cards
      PROVE  /\ parts(p) # {} =>
                  /\ assignment[p].type = "single" /\ assignment[p].others = {}
                  /\ \E i \in parts(p) : assignment[p].primary = routes[i].id
             /\ parts(p) = {} /\ core(p) # {} =>
                  /\ assignment[p].type \in {"single", "cross"}
                  /\ assignment[p].primary = best(p)
                  /\ assignment[p].others \subseteq {RouteId(r, 0) : r \in core(p)}
             /\ parts(p) = {} /\ core(p) = {} => assignment[p].type \in {"ambiguous", "unassigned"}
  <2>1. assignment[p] = Assignment(defs, routes, p)
    OBVIOUS
  <2>2. CASE parts(p) # {}
    <3>1. assignment[p] = [type |-> "single", primary |-> routes[CHOOSE i \in parts(p) : TRUE].id,
                           others |-> {}]
      BY <2>1, <2>2 DEF Assignment
    <3> QED
      BY <2>2, <3>1
  <2>3. CASE parts(p) = {} /\ core(p) # {}
    <3>1. assignment[p] = [type |-> IF Cardinality(core(p)) = 1 THEN "single" ELSE "cross",
                           primary |-> best(p),
                           others |-> {RouteId(r, 0) : r \in core(p)} \ {best(p)}]
      BY <2>1, <2>3 DEF Assignment
    <3> QED
      BY <2>3, <3>1
  <2>4. CASE parts(p) = {} /\ core(p) = {}
    BY <2>1, <2>4 DEF Assignment
  <2> QED
    BY <2>2, <2>3, <2>4
<1> HIDE DEF parts, core, best
<1>6. ASSUME NEW p \in Understood(assignment),
             NEW id \in {assignment[p].primary} \cup assignment[p].others
      PROVE  HoldsCore(routes, id, p)
  <2>1. p \in cards /\ assignment[p].type \in {"single", "cross"}
    BY DEF Understood
  <2>2. CASE parts(p) # {}
    <3>1. PICK i \in parts(p) : assignment[p].primary = routes[i].id
      BY <1>5, <2>1, <2>2
    <3>2. id = routes[i].id
      BY <1>5, <2>1, <2>2, <3>1
    <3> QED
      BY <1>2, <3>2 DEF parts
  <2>3. CASE parts(p) = {} /\ core(p) # {}
    <3>1. id \in {RouteId(r, 0) : r \in core(p)}
      BY <1>4, <1>5, <2>1, <2>3
    <3> QED
      BY <1>3, <2>1, <3>1
  <2>4. CASE parts(p) = {} /\ core(p) = {}
    BY <1>5, <2>1, <2>4
  <2> QED
    BY <2>2, <2>3, <2>4
<1>7. ASSUME NEW i \in DOMAIN routes, NEW p \in routes[i].core
      PROVE  p \in Understood(assignment)
  <2>1. p \in cards /\ (parts(p) # {} \/ core(p) # {})
    <3>1. CASE routes[i].id.part > 0
      <4>1. p \in Exclusive(Owner(defs, kept), routes[i].id.of)
        BY <3>1 DEF SplitRoutes
      <4>2. p \in cards
        BY <4>1, OwnedIn
      <4>3. i \in parts(p)
        BY <3>1 DEF parts
      <4> QED
        BY <4>2, <4>3
    <3>2. CASE routes[i].id.part = 0
      <4>1. routes[i].id.of \in DOMAIN defs /\ p \in AtLevel(defs, routes[i].id.of, "core")
        BY <3>2 DEF SplitRoutes
      <4>2. p \in cards /\ MatchLevel(defs, routes[i].id.of, p) = "core"
        BY <4>1 DEF AtLevel
      <4>3. RouteId(routes[i].id.of, 0) = routes[i].id
        BY <1>1, <3>2 DEF RouteRecords, RouteId
      <4>4. RouteId(routes[i].id.of, 0) \in RouteIds(routes)
        BY <4>3 DEF RouteIds
      <4>5. routes[i].id.of \in core(p)
        BY <4>1, <4>2, <4>4 DEF core, MatchedBy
      <4> QED
        BY <4>2, <4>5
    <3> QED
      BY <1>1, <3>1, <3>2 DEF RouteRecords
  <2>2. assignment[p].type \in {"single", "cross"}
    BY <1>5, <2>1
  <2> QED
    BY <2>1, <2>2 DEF Understood
<1>8. \A i, j \in DOMAIN routes :
        routes[i].id.part > 0 /\ routes[j].id.part > 0 /\ i # j =>
          routes[i].core \cap routes[j].core = {}
  BY DEF SplitRoutes
<1>9. \A i \in DOMAIN routes :
        routes[i].id.part > 0 => Sufficient(routes[i].core, routes[i].support)
  BY DEF SplitRoutes
<1> QED
  BY <1>6, <1>7, <1>8, <1>9 DEF AssignedWell

ThemedWell(of, assignment) ==
  LET themes == of.themes IN
  /\ DOMAIN of.primary = UNION {Listed(themes[i]) : i \in DOMAIN themes}
  /\ \A p \in DOMAIN of.primary :
       /\ p \in Listed(themes[of.primary[p]])
       /\ (\E i \in DOMAIN themes : p \in themes[i].core) => p \in themes[of.primary[p]].core
       /\ p \in Understood(assignment) => \A i \in DOMAIN themes :
            themes[i].id = assignment[p].primary => of.primary[p] = i

(* The strong routes are some of the routes. *)
LEMMA StrongIn ==
  ASSUME NEW routes \in Seq(RouteRecords)
  PROVE  Strong(routes) \subseteq DOMAIN routes /\ IsFiniteSet(DOMAIN routes)
<1> DEFINE D == DOMAIN routes
           size(i) == Size(routes[i])
           bigger == {x \in D \X D : size(x[1]) > size(x[2]) \/ (size(x[1]) = size(x[2]) /\ x[1] < x[2])}
           largest == {i \in D : \A j \in D : size(i) >= size(j)}
<1>1. D = 1 .. Len(routes) /\ Len(routes) \in Nat
  OBVIOUS
<1>2. IsFiniteSet(D) /\ D \subseteq Int
  BY <1>1, FS_Interval
<1>3. ASSUME NEW i \in D PROVE size(i) \in Int
  <2>1. routes[i].core \in SUBSET RoutePapers /\ Listed(routes[i]) \in SUBSET RoutePapers
    <3>1. routes[i] \in RouteRecords
      BY <1>1
    <3> QED
      BY <3>1 DEF RouteRecords, Listed
  <2>2. IsFiniteSet(routes[i].core) /\ IsFiniteSet(Listed(routes[i]))
    BY <2>1, RoutesAssumption, FS_Subset
  <2> QED
    BY <2>2, FS_CardinalityType DEF Size
<1> HIDE DEF size
<1>4. ASSUME NEW x \in D, NEW y \in D
      PROVE  <<x, y>> \in bigger <=> size(x) > size(y) \/ (size(x) = size(y) /\ x < y)
  OBVIOUS
<1> HIDE DEF bigger
<1>5. Orders(bigger, D)
  <2>1. ASSUME NEW x \in D PROVE <<x, x>> \notin bigger
    BY <1>2, <1>3, <1>4
  <2>2. ASSUME NEW x \in D, NEW y \in D, x # y
        PROVE  <<x, y>> \in bigger \/ <<y, x>> \in bigger
    <3>1. x \in Int /\ y \in Int /\ size(x) \in Int /\ size(y) \in Int
      BY <1>2, <1>3
    <3> QED
      BY <1>4, <2>2, <3>1
  <2>3. ASSUME NEW x \in D, NEW y \in D, NEW z \in D, <<x, y>> \in bigger, <<y, z>> \in bigger
        PROVE  <<x, z>> \in bigger
    <3>1. /\ x \in Int /\ y \in Int /\ z \in Int
          /\ size(x) \in Int /\ size(y) \in Int /\ size(z) \in Int
      BY <1>2, <1>3
    <3> QED
      BY <1>4, <2>3, <3>1
  <2> QED
    BY <2>1, <2>2, <2>3 DEF Orders
<1>6. ASSUME D # {} PROVE Min(largest) \in D
  <2>1. PICK x \in D : \A y \in D \ {x} : <<x, y>> \in bigger
    <3>1. IsFiniteSet(D) /\ D # {} /\ Orders(bigger, D)
      BY <1>2, <1>5, <1>6
    <3>2. \E x \in D : \A y \in D \ {x} : <<x, y>> \in bigger
      <4> HIDE DEF D
      <4> QED
        BY <3>1, FirstExists
    <3> QED
      BY <3>2
  <2>2. ASSUME NEW y \in D PROVE size(x) >= size(y)
    <3>1. size(x) \in Int /\ size(y) \in Int
      BY <1>3
    <3>2. x # y => size(x) > size(y) \/ size(x) = size(y)
      BY <1>4, <2>1
    <3> QED
      BY <3>1, <3>2
  <2>3. largest # {} /\ largest \in SUBSET D
    BY <2>2
  <2>4. IsFiniteSet(largest) /\ largest \subseteq Int
    BY <1>2, <2>3, FS_Subset
  <2> QED
    BY <2>3, <2>4, FiniteExtremes
<1>7. Strong(routes) \subseteq D
  <2>1. CASE Len(routes) <= 1
    BY <2>1 DEF Strong
  <2>2. CASE ~(Len(routes) <= 1)
    <3>1. D # {}
      BY <1>1, <2>2
    <3>2. Min(largest) \in D
      BY <1>6, <3>1
    <3>3. Strong(routes) = IF {i \in D : routes[i].status # "weak"} # {}
                           THEN {i \in D : routes[i].status # "weak"} ELSE {Min(largest)}
      BY <2>2 DEF Strong, size
    <3> QED
      BY <3>2, <3>3
  <2> QED
    BY <2>1, <2>2
<1> QED
  BY <1>2, <1>7

LEMMA TaxonomyWell ==
  ASSUME NEW routes \in Seq(RouteRecords),
         \A i, j \in DOMAIN routes : routes[i].id = routes[j].id => i = j,
         NEW assignment, AssignedWell(routes, assignment), NEW into
  PROVE  ThemedWell(RouteTaxonomy(WrittenRoutes(routes, into), assignment), assignment)
<1> DEFINE strong == Strong(routes)
           order == Ascending(strong)
           n == Cardinality(strong)
           written == WrittenRoutes(routes, into)
           I == {i \in DOMAIN written : Listed(written[i]) # {}}
           themes == Entries(written, I)
           of == RouteTaxonomy(written, assignment)
           X == {written[k] : k \in DOMAIN written}
<1>1. strong \subseteq DOMAIN routes /\ IsFiniteSet(strong) /\ strong \subseteq Int
  <2>1. DOMAIN routes \subseteq Int
    OBVIOUS
  <2>2. strong \in SUBSET DOMAIN routes /\ IsFiniteSet(DOMAIN routes)
    BY StrongIn
  <2>3. IsFiniteSet(strong)
    BY <2>2, FS_Subset
  <2> QED
    BY <2>1, <2>2, <2>3
<1>2. n \in Nat /\ order \in [1 .. n -> strong] /\ \A k, l \in 1 .. n : order[k] = order[l] => k = l
  <2>1. Arranges(order, strong, {x \in strong \X strong : x[1] < x[2]})
    BY <1>1, AscendingOrder
  <2> QED
    BY <2>1 DEF Arranges
<1> HIDE DEF order, n
<1>3. /\ written = [k \in 1 .. n |-> written[k]]
      /\ \A k \in 1 .. n : /\ written[k].id = routes[order[k]].id
                           /\ routes[order[k]].core \subseteq written[k].core
  <2>1. DOMAIN order = 1 .. n
    BY <1>2
  <2> QED
    BY <2>1 DEF WrittenRoutes, order
<1>4. written \in Seq(X) /\ DOMAIN written = 1 .. n
  BY <1>2, <1>3
<1> HIDE DEF written
<1>5. I \in SUBSET DOMAIN written
  OBVIOUS
<1>6. /\ IsFiniteSet(I) /\ themes \in Seq(X) /\ Len(themes) = Cardinality(I)
      /\ \E spot : Selects(themes, written, I, spot)
  <2> HIDE DEF X, I
  <2> QED
    BY <1>4, <1>5, EntriesAt
<1> HIDE DEF themes
<1> DEFINE D == DOMAIN themes
<1>7. PICK spot : /\ \A k \in D : spot[k] \in I /\ themes[k] = written[spot[k]]
                /\ \A k, l \in D : spot[k] = spot[l] => k = l
  BY <1>6 DEF Selects
<1>8. ASSUME NEW S \in SUBSET D, S # {} PROVE Min(S) \in S
  <2>1. IsFiniteSet(D) /\ D \subseteq Int
    <3> HIDE DEF D
    <3>1. D = 1 .. Len(themes) /\ Len(themes) \in Int
      BY <1>6 DEF D
    <3> QED
      BY <3>1, FS_Interval
  <2> HIDE DEF D
  <2>2. IsFiniteSet(S) /\ S \subseteq Int
    BY <2>1, FS_Subset
  <2> QED
    BY <1>8, <2>2, FiniteExtremes
<1>9. of = [by |-> "routes", themes |-> themes,
            primary |-> [p \in UNION {Listed(themes[i]) : i \in D} |-> ThemeOf(themes, assignment, p)]]
  BY DEF RouteTaxonomy, themes
<1> DEFINE listed == UNION {Listed(themes[i]) : i \in D}
<1>10. ASSUME NEW k \in D, NEW l \in D, themes[k].id = themes[l].id PROVE k = l
  <2>1. /\ spot[k] \in 1 .. n /\ spot[l] \in 1 .. n
        /\ themes[k] = written[spot[k]] /\ themes[l] = written[spot[l]]
    BY <1>4, <1>7
  <2>2. routes[order[spot[k]]].id = routes[order[spot[l]]].id
    BY <1>3, <1>10, <2>1
  <2>3. order[spot[k]] \in DOMAIN routes /\ order[spot[l]] \in DOMAIN routes
    BY <1>1, <1>2, <2>1
  <2>4. spot[k] = spot[l]
    BY <1>2, <2>1, <2>2, <2>3
  <2> QED
    BY <1>7, <2>4
<1>11. ASSUME NEW p \in Understood(assignment), NEW k \in D, themes[k].id = assignment[p].primary
       PROVE  p \in themes[k].core
  <2>1. spot[k] \in 1 .. n /\ themes[k] = written[spot[k]]
    BY <1>4, <1>7
  <2>2. routes[order[spot[k]]].id = assignment[p].primary /\ order[spot[k]] \in DOMAIN routes
    BY <1>1, <1>2, <1>3, <1>11, <2>1
  <2>3. HoldsCore(routes, routes[order[spot[k]]].id, p)
    BY <2>2 DEF AssignedWell
  <2>4. p \in routes[order[spot[k]]].core
    <3>1. RouteOf(routes, routes[order[spot[k]]].id) = routes[order[spot[k]]]
      BY <2>2, RouteOfOnly
    <3> QED
      BY <2>3, <3>1 DEF HoldsCore
  <2> QED
    BY <1>3, <2>1, <2>4
<1> HIDE DEF I
<1>12. ASSUME NEW p \in listed
       PROVE  LET i == ThemeOf(themes, assignment, p) IN
              /\ i \in D /\ p \in Listed(themes[i])
              /\ (\E j \in D : p \in themes[j].core) => p \in themes[i].core
              /\ p \in Understood(assignment) => \A j \in D :
                   themes[j].id = assignment[p].primary => i = j
  <2> DEFINE own == {i \in D : themes[i].id = assignment[p].primary}
             core == {i \in D : p \in themes[i].core}
             in == {i \in D : p \in Listed(themes[i])}
  <2>1. own \in SUBSET D /\ core \in SUBSET D /\ in \in SUBSET D /\ in # {}
    OBVIOUS
  <2>2. CASE p \in Understood(assignment) /\ own # {}
    <3>1. ThemeOf(themes, assignment, p) = Min(own)
      BY <2>2 DEF ThemeOf
    <3>2. Min(own) \in own
      BY <1>8, <2>1, <2>2
    <3>3. p \in themes[Min(own)].core
      BY <1>11, <2>2, <3>2
    <3>4. \A j \in D : themes[j].id = assignment[p].primary => Min(own) = j
      BY <1>10, <3>2
    <3> QED
      BY <3>1, <3>2, <3>3, <3>4 DEF Listed
  <2>3. CASE ~(p \in Understood(assignment) /\ own # {}) /\ core # {}
    <3>1. ThemeOf(themes, assignment, p) = Min(core)
      BY <2>3 DEF ThemeOf
    <3>2. Min(core) \in core
      BY <1>8, <2>1, <2>3
    <3> QED
      BY <2>3, <3>1, <3>2 DEF Listed
  <2>4. CASE ~(p \in Understood(assignment) /\ own # {}) /\ core = {}
    <3>1. ThemeOf(themes, assignment, p) = Min(in)
      BY <2>4 DEF ThemeOf
    <3>2. Min(in) \in in
      BY <1>8, <2>1
    <3> QED
      BY <2>4, <3>1, <3>2
  <2> QED
    BY <2>2, <2>3, <2>4
<1>13. /\ of.themes = themes /\ DOMAIN of.primary = listed
       /\ \A p \in listed : of.primary[p] = ThemeOf(themes, assignment, p)
  BY <1>9
<1> HIDE DEF of, listed
<1>14. ThemedWell(of, assignment)
  BY <1>12, <1>13 DEF ThemedWell, listed
<1> QED
  BY <1>14 DEF of, written

-----------------------------------------------------------------------------
RoutesInv == RoutesTypeOK /\ AssignmentsSound /\ ThemesSound

LEMMA RoutesSoundAs ==
  /\ AssignmentsSound <=> (validated # <<>> => AssignedWell(validated, assigned))
  /\ ThemesSound <=> (taxonomy.by = "routes" => ThemedWell(taxonomy, assigned))
BY DEF AssignmentsSound, AssignedWell, HoldsCore, ThemesSound, ThemedWell

LEMMA RoutesInitInv == RoutesInit => RoutesInv
<1> SUFFICES ASSUME RoutesInit PROVE RoutesInv
  OBVIOUS
<1>1. RoutesTypeOK
  <2>1. DOMAIN framework \subseteq RouteNames
    BY RoutesAssumption DEF RoutesInit, RouteNames
  <2>2. DOMAIN decided = {} /\ validated \in Seq(RouteRecords)
    BY DEF RoutesInit
  <2> QED
    BY <2>1, <2>2, RoutesAssumption DEF RoutesInit, RoutesTypeOK
<1> QED
  BY <1>1 DEF RoutesInit, RoutesInv, AssignmentsSound, ThemesSound, Unsorted

(* A sorting keeps the cards among the papers, and leaves the taxonomy the *)
(* routes' own or a clustering, which promises nothing about routes.       *)
LEMMA SortedCards ==
  ASSUME cards \subseteq RoutePapers, NEW routes, NEW themes, Sorted(routes, themes)
  PROVE  /\ cards' \subseteq RoutePapers
         /\ IF \E i \in DOMAIN routes : Listed(routes[i]) # {} THEN taxonomy' = themes
            ELSE taxonomy'.by = "cluster"
<1>1. CASE \E i \in DOMAIN routes : Listed(routes[i]) # {}
  BY <1>1 DEF Sorted
<1>2. CASE ~\E i \in DOMAIN routes : Listed(routes[i]) # {}
  <2>1. PICK other \in Others :
          \/ taxonomy' = Clustered(cards, other) /\ UNCHANGED cards
          \/ cards' = cards \ other /\ taxonomy' = Clustered(cards \ other, {})
    BY <1>2 DEF Sorted
  <2>2. ASSUME NEW papers, NEW rest PROVE Clustered(papers, rest).by = "cluster"
    BY DEF Clustered
  <2> QED
    BY <1>2, <2>1, <2>2
<1> QED
  BY <1>1, <1>2

(* What a validation leaves is sound when its routes and themes are. *)
LEMMA ConcludeSound ==
  ASSUME RoutesInv, NEW defs, DOMAIN defs \subseteq RouteNames,
         NEW verdicts, DOMAIN verdicts \subseteq RouteNames,
         \A r \in DOMAIN verdicts : verdicts[r].core \subseteq RoutePapers,
         NEW routes \in Seq(RouteRecords), NEW assignment, NEW themes,
         Conclude(defs, verdicts, routes, assignment, themes),
         routes # <<>> => AssignedWell(routes, assignment),
         (\E i \in DOMAIN routes : Listed(routes[i]) # {}) => ThemedWell(themes, assignment)
  PROVE  RoutesInv'
<1>1. /\ framework' = defs /\ decided' = verdicts /\ validated' = routes
      /\ assigned' = assignment /\ profile' = profile /\ Sorted(routes, themes)
  BY DEF Conclude
<1>2. RoutesTypeOK'
  <2>1. cards' \subseteq RoutePapers
    BY <1>1, SortedCards DEF RoutesInv, RoutesTypeOK
  <2> QED
    BY <1>1, <2>1 DEF RoutesInv, RoutesTypeOK
<1>3. AssignmentsSound'
  BY <1>1 DEF AssignmentsSound, AssignedWell, HoldsCore, Sufficient
<1>4. ThemesSound'
  <2>1. CASE \E i \in DOMAIN routes : Listed(routes[i]) # {}
    <3>1. taxonomy' = themes
      BY <1>1, <2>1 DEF Sorted
    <3> QED
      BY <1>1, <2>1, <3>1 DEF ThemesSound, ThemedWell
  <2>2. CASE ~(\E i \in DOMAIN routes : Listed(routes[i]) # {})
    <3>1. taxonomy'.by = "cluster"
      BY <1>1, <2>2, SortedCards DEF RoutesInv, RoutesTypeOK
    <3> QED
      BY <3>1 DEF ThemesSound
  <2> QED
    BY <2>1, <2>2
<1> QED
  BY <1>2, <1>3, <1>4 DEF RoutesInv

LEMMA ValidateRoutesSound ==
  ASSUME RoutesInv, ValidateRoutes
  PROVE  RoutesInv'
<1> DEFINE defs == [r \in DOMAIN framework |-> Prepared(framework[r])]
           verdicts == [r \in DOMAIN defs |-> Decision(defs, r)]
           kept == Surviving(verdicts)
           assignment(routes) == [p \in cards |-> Assignment(defs, routes, p)]
<1>1. PICK choice \in SplitChoices(Owner(defs, kept), kept) :
        \E into \in Mergings(WithParts(kept, choice)) :
          Conclude(defs, verdicts, WithParts(kept, choice), assignment(WithParts(kept, choice)),
                   RouteTaxonomy(WrittenRoutes(WithParts(kept, choice), into),
                                 assignment(WithParts(kept, choice))))
  BY DEF ValidateRoutes
<1> DEFINE routes == WithParts(kept, choice)
           dealt == assignment(routes)
<1>2. PICK into \in Mergings(routes) :
        Conclude(defs, verdicts, routes, dealt, RouteTaxonomy(WrittenRoutes(routes, into), dealt))
  BY <1>1
<1>3. DOMAIN defs = DOMAIN framework /\ DOMAIN defs \subseteq RouteNames
  BY DEF RoutesInv, RoutesTypeOK
<1>4. verdicts = [r \in DOMAIN defs |-> Decision(defs, r)] /\ DOMAIN verdicts = DOMAIN defs
  OBVIOUS
<1>5. dealt = [p \in cards |-> Assignment(defs, routes, p)]
  OBVIOUS
<1> HIDE DEF defs
<1>6. \A r \in DOMAIN verdicts : verdicts[r].core \subseteq RoutePapers
  <2> SUFFICES ASSUME NEW r \in DOMAIN verdicts PROVE verdicts[r].core \subseteq RoutePapers
    OBVIOUS
  <2>1. verdicts[r].core = AtLevel(defs, r, "core")
    BY <1>4, VerdictOf
  <2> QED
    BY <2>1, AtLevelCards DEF RoutesInv
<1> HIDE DEF verdicts
<1>7. WholeRoutes(kept, defs)
  BY <1>3, <1>4, SurvivingWhole DEF RoutesInv
<1> HIDE DEF kept
<1>8. SplitRoutes(routes, defs, Owner(defs, kept))
  BY <1>7, WithPartsSplit DEF RoutesInv
<1> HIDE DEF routes, assignment
<1>9. AssignedWell(routes, dealt)
  BY <1>3, <1>5, <1>8, AssignmentWell DEF RoutesInv
<1>10. /\ routes \in Seq(RouteRecords)
       /\ \A i, j \in DOMAIN routes : routes[i].id = routes[j].id => i = j
  BY <1>8 DEF SplitRoutes
<1> HIDE DEF dealt
<1>11. ThemedWell(RouteTaxonomy(WrittenRoutes(routes, into), dealt), dealt)
  BY <1>9, <1>10, TaxonomyWell
<1> QED
  BY <1>2, <1>3, <1>4, <1>6, <1>9, <1>10, <1>11, ConcludeSound

LEMMA ValidationFailsSound ==
  ASSUME RoutesInv, ValidationFails
  PROVE  RoutesInv'
<1>1. Conclude(framework, <<>>, <<>>, <<>>, taxonomy)
  BY DEF ValidationFails
<1>2. DOMAIN framework \subseteq RouteNames /\ DOMAIN <<>> = {} /\ <<>> \in Seq(RouteRecords)
  BY DEF RoutesInv, RoutesTypeOK
<1> QED
  BY <1>1, <1>2, ConcludeSound

LEMMA ClusterPapersSound ==
  ASSUME RoutesInv, ClusterPapers
  PROVE  RoutesInv'
<1>1. Sorted(<<>>, taxonomy) /\ UNCHANGED <<framework, profile, validated, decided, assigned>>
  BY DEF ClusterPapers, judgements
<1>2. cards' \subseteq RoutePapers
  BY <1>1, SortedCards DEF RoutesInv, RoutesTypeOK
<1>3. taxonomy'.by = "cluster"
  BY <1>1, SortedCards DEF RoutesInv, RoutesTypeOK
<1>4. RoutesTypeOK'
  BY <1>1, <1>2 DEF RoutesInv, RoutesTypeOK
<1>5. AssignmentsSound'
  BY <1>1 DEF RoutesInv, AssignmentsSound, Sufficient
<1>6. ThemesSound'
  BY <1>3 DEF ThemesSound
<1> QED
  BY <1>4, <1>5, <1>6 DEF RoutesInv

LEMMA ExtractCardsSound ==
  ASSUME RoutesInv, ExtractCards
  PROVE  RoutesInv'
<1>1. /\ UNCHANGED <<framework, profile, assigned, taxonomy>> /\ validated' = <<>> /\ decided' = <<>>
      /\ cards' \subseteq RoutePapers
  BY DEF ExtractCards, RoutesInv, RoutesTypeOK
<1>2. RoutesTypeOK'
  BY <1>1 DEF RoutesInv, RoutesTypeOK
<1> QED
  BY <1>1, <1>2 DEF RoutesInv, AssignmentsSound, ThemesSound

LEMMA ReviseScopeSound ==
  ASSUME RoutesInv, ReviseScope
  PROVE  RoutesInv'
<1>1. UNCHANGED <<profile, cards, validated, decided, assigned, taxonomy>>
  BY DEF ReviseScope, judgements
<1>2. DOMAIN framework' \subseteq RouteNames
  BY RoutesAssumption DEF ReviseScope, RouteNames, RoutesInv, RoutesTypeOK
<1>3. RoutesTypeOK'
  BY <1>1, <1>2 DEF RoutesInv, RoutesTypeOK
<1> QED
  BY <1>1, <1>3 DEF RoutesInv, AssignmentsSound, ThemesSound, Sufficient

(* The other steps leave the routes, the cards and the themes alone. *)
LEMMA OtherRoutesSound ==
  ASSUME RoutesInv, UNCHANGED <<framework, profile, cards, judgements, taxonomy>>
  PROVE  RoutesInv'
<1>1. UNCHANGED <<framework, profile, cards, validated, decided, assigned, taxonomy>>
  BY DEF judgements
<1> QED
  BY <1>1 DEF RoutesInv, RoutesTypeOK, AssignmentsSound, ThemesSound, Sufficient

LEMMA RoutesStepInv == RoutesInv /\ [RoutesNext]_routeVars => RoutesInv'
<1> SUFFICES ASSUME RoutesInv, [RoutesNext]_routeVars PROVE RoutesInv'
  OBVIOUS
<1>1. CASE Diagnose
  BY <1>1, OtherRoutesSound DEF Diagnose
<1>2. CASE TargetedSearch
  BY <1>2, OtherRoutesSound DEF TargetedSearch, judgements
<1>3. CASE UNCHANGED routeVars
  BY <1>3, OtherRoutesSound DEF routeVars
<1> QED
  BY <1>1, <1>2, <1>3, ValidateRoutesSound, ValidationFailsSound, ClusterPapersSound,
     ExtractCardsSound, ReviseScopeSound DEF RoutesNext

(* The papers of the routes and of their themes are where they belong: a   *)
(* paper the routes understand has core evidence in the routes it is given *)
(* to, no two parts of a split share a paper, and every theme of the       *)
(* routes lists the papers it is the theme of (route_validator.py,         *)
(* nodes/synthesis.py).                                                    *)
THEOREM RoutesAreSound == RoutesSpec => []RoutesSound
<1>1. RoutesInv => RoutesSound
  BY DEF RoutesInv, RoutesSound
<1> QED
  BY <1>1, RoutesInitInv, RoutesStepInv, PTL DEF RoutesSpec

-----------------------------------------------------------------------------
(* What a search is made for                                               *)
(* The first of the queries are dealt, as many as may be searched for: one *)
(* is left out only when it was dealt before.                              *)
LEMMA DealtFirst ==
  ASSUME NEW X, NEW s \in Seq(X)
  PROVE  \A j \in DOMAIN s : j <= MaxQueries => s[j] \in Range(Dealt(s))
<1> DEFINE V == Seq(X)
           n == Len(s)
           Step(v, x) == IF Len(v) >= MaxQueries \/ x \in Range(v) THEN v ELSE Append(v, x)
           Fold(g) == g = [t \in SUBSET DOMAIN s |->
                             IF t = {} THEN <<>>
                             ELSE Step(g[t \ {Max(t)}], s[Max(t)])]
<1>1. /\ n \in Nat /\ DOMAIN s = 1 .. n /\ <<>> \in V
  OBVIOUS
<1>2. ASSUME NEW v \in V, NEW i \in 1 .. n PROVE Step(v, s[i]) \in V
  BY <1>1
<1>3. ASSUME NEW v \in V, NEW i \in 1 .. n, Len(v) <= i - 1,
             \A j \in 1 .. i - 1 : j <= MaxQueries => s[j] \in Range(v)
      PROVE  /\ Len(Step(v, s[i])) <= i
             /\ \A j \in 1 .. i : j <= MaxQueries => s[j] \in Range(Step(v, s[i]))
  <2>1. Len(v) \in Nat /\ MaxQueries \in Nat /\ i \in Nat
    BY RoutesAssumption
  <2>2. CASE Len(v) >= MaxQueries
    <3>1. Step(v, s[i]) = v /\ MaxQueries <= i - 1
      BY <1>3, <2>1, <2>2
    <3> HIDE DEF Step
    <3> QED
      BY <1>3, <2>1, <3>1
  <2>3. CASE ~(Len(v) >= MaxQueries) /\ s[i] \in Range(v)
    <3>1. Step(v, s[i]) = v
      BY <2>3
    <3> HIDE DEF Step
    <3>2. ASSUME NEW j \in 1 .. i, j <= MaxQueries PROVE s[j] \in Range(v)
      BY <1>3, <2>1, <2>3, <3>2
    <3> QED
      BY <1>3, <2>1, <3>1, <3>2
  <2>4. CASE ~(Len(v) >= MaxQueries) /\ s[i] \notin Range(v)
    <3>1. Step(v, s[i]) = Append(v, s[i]) /\ s[i] \in X
      BY <1>1, <2>4
    <3>2. Len(Append(v, s[i])) = Len(v) + 1
      BY <3>1
    <3>3. Range(v) \cup {s[i]} \subseteq Range(Append(v, s[i]))
      <4>1. ASSUME NEW k \in DOMAIN v PROVE v[k] \in Range(Append(v, s[i]))
        BY <3>1 DEF Range
      <4>2. Len(v) + 1 \in DOMAIN Append(v, s[i]) /\ Append(v, s[i])[Len(v) + 1] = s[i]
        BY <2>1, <3>1
      <4> QED
        BY <4>1, <4>2 DEF Range
    <3> HIDE DEF Step
    <3>4. ASSUME NEW j \in 1 .. i, j <= MaxQueries PROVE s[j] \in Range(v) \cup {s[i]}
      BY <1>3, <2>1, <3>4
    <3> QED
      BY <1>3, <2>1, <3>1, <3>2, <3>3, <3>4
  <2> QED
    BY <2>2, <2>3, <2>4
<1> HIDE DEF V, n, Step
<1>4. PICK R : R = [p \in (1 .. n) \X V |-> Step(p[2], s[p[1]])]
  OBVIOUS
<1>5. R \in [(1 .. n) \X V -> V]
  BY <1>2, <1>4
<1>6. PICK m \in [SUBSET (1 .. n) -> V] : LeftFold(m, n, <<>>, R)
  BY <1>1, <1>5, LeftExists
<1>7. Fold(m)
  <2>1. ASSUME NEW t \in SUBSET (1 .. n)
        PROVE  m[t] = IF t = {} THEN <<>> ELSE Step(m[t \ {Max(t)}], s[Max(t)])
    <3>1. m[t] = IF t = {} THEN <<>> ELSE R[<<Max(t), m[t \ {Max(t)}]>>]
      BY <1>6 DEF LeftFold
    <3>2. t # {} => Max(t) \in 1 .. n /\ m[t \ {Max(t)}] \in V
      BY <1>1, Largest
    <3> QED
      BY <1>4, <3>1, <3>2
  <2> QED
    BY <1>1, <2>1
<1>8. PICK g : g = CHOOSE h : Fold(h)
  OBVIOUS
<1>9. Fold(g)
  BY <1>7, <1>8
<1>10. Dealt(s) = g[1 .. n]
  BY <1>1, <1>8 DEF Dealt, FoldLeft, MapThenFoldSet, Step
<1> DEFINE v(i) == g[1 .. i]
           Good == {i \in 0 .. n : /\ v(i) \in V /\ Len(v(i)) <= i
                                   /\ \A j \in 1 .. i : j <= MaxQueries => s[j] \in Range(v(i))}
<1>11. 0 \in Good
  <2>1. 1 .. 0 = {} /\ 0 \in 0 .. n /\ 1 .. 0 \in SUBSET DOMAIN s
    BY <1>1
  <2>2. v(0) = <<>>
    BY <1>9, <2>1
  <2>3. Len(v(0)) <= 0 /\ v(0) \in V
    BY <1>1, <2>2
  <2> QED
    BY <2>1, <2>3
<1>12. ASSUME NEW i \in 1 .. n, i - 1 \in Good PROVE i \in Good
  <2>1. 1 .. i \in SUBSET (1 .. n) /\ 1 .. i # {} /\ Max(1 .. i) = i /\ (1 .. i) \ {i} = 1 .. i - 1
    BY <1>1, MaxInterval
  <2>2. v(i) = Step(v(i - 1), s[i])
    BY <1>1, <1>9, <2>1
  <2>3. /\ v(i - 1) \in V /\ Len(v(i - 1)) <= i - 1
        /\ \A j \in 1 .. i - 1 : j <= MaxQueries => s[j] \in Range(v(i - 1))
    BY <1>12
  <2>4. i \in 0 .. n
    BY <1>1
  <2> HIDE DEF v
  <2> QED
    BY <1>2, <1>3, <2>2, <2>3, <2>4
<1> HIDE DEF Good
<1>13. n \in Good
  <2> DEFINE w == [i \in 0 .. n |-> i]
  <2>1. w[0] \in Good /\ \A i \in 1 .. n : w[i - 1] \in Good => w[i] \in Good
    BY <1>1, <1>11, <1>12
  <2> HIDE DEF w
  <2>2. w[n] \in Good
    BY <1>1, <2>1, ChainStays
  <2> QED
    BY <1>1, <2>2 DEF w
<1>14. \A j \in 1 .. n : j <= MaxQueries => s[j] \in Range(v(n))
  BY <1>13 DEF Good
<1> QED
  BY <1>1, <1>10, <1>14

-----------------------------------------------------------------------------
(* The gaps                                                                *)
GapRecords == [route : [of : RouteNames, part : {0}], target : Int, deficit : Int]
(* Each route has one gap. *)
GapsOnce(gaps) ==
  gaps \in Seq(GapRecords) /\ \A i, j \in DOMAIN gaps : gaps[i].route = gaps[j].route => i = j

LEMMA TargetTyped ==
  ASSUME NEW count \in Nat \ {0}
  PROVE  RouteTarget(count) \in Int
<1> DEFINE wanted == RefsWanted * TargetShare[1]
           by == count * TargetShare[2]
           each == (wanted + by - 1) \div by
           least == Max({MinCore, TargetMin, each})
<1>1. TargetShare[1] \in Nat /\ TargetShare[2] \in Nat \ {0} /\ RefsWanted \in Nat
  BY RoutesAssumption
<1>2. wanted \in Nat
  BY <1>1
<1>3. by \in Nat /\ by > 0
  BY <1>1
<1> HIDE DEF wanted, by
<1>4. each \in Int
  BY <1>2, <1>3
<1> HIDE DEF each
<1>5. least \in Int
  <2>1. {MinCore, TargetMin, each} \subseteq Int /\ {MinCore, TargetMin, each} # {}
    BY <1>4, RoutesAssumption
  <2>2. IsFiniteSet({MinCore, TargetMin, each})
    <3>1. IsFiniteSet({MinCore}) /\ {MinCore} \cup {TargetMin} = {MinCore, TargetMin}
          /\ {MinCore, TargetMin} \cup {each} = {MinCore, TargetMin, each}
      BY FS_Singleton
    <3>2. IsFiniteSet({MinCore, TargetMin})
      BY <3>1, FS_AddElement
    <3> QED
      BY <3>1, <3>2, FS_AddElement
  <2>3. least \in {MinCore, TargetMin, each}
    BY <2>1, <2>2, FiniteExtremes
  <2> QED
    BY <2>1, <2>3
<1> HIDE DEF least
<1>6. Min({TargetMax, least}) \in {TargetMax, least} /\ TargetMax \in Int
  <2>1. TargetMax \in Int
    BY RoutesAssumption
  <2> QED
    BY <1>5, <2>1, OfTwo
<1>7. Min({TargetMax, least}) \in Int
  BY <1>5, <1>6
<1> QED
  BY <1>7 DEF RouteTarget, wanted, by, each, least

LEMMA GapsAreOnce ==
  ASSUME RoutesTypeOK
  PROVE  GapsOnce(Gaps(framework, decided, validated))
<1> DEFINE ids == IF validated # <<>> THEN RouteIds(validated)
                  ELSE {RouteId(r, 0) : r \in DOMAIN framework \cup DOMAIN decided}
           aims == RouteTargets(framework, decided, validated)
           target(r) == IF RouteId(r, 0) \in DOMAIN aims THEN aims[RouteId(r, 0)] ELSE 0
           deficit(r) == Max({0, target(r) - Cardinality(decided[r].core)})
           short == {r \in DOMAIN decided :
                       /\ r \in DOMAIN framework \/ RouteId(r, 0) \in RouteIds(validated)
                       /\ \/ decided[r].action \in {"drop", "search"}
                          \/ deficit(r) > 0
                          \/ decided[r].status = "weak" /\ ~decided[r].sufficient}
           order == Ascending(short)
           n == Cardinality(short)
           gap(r) == [route |-> RouteId(r, 0), target |-> target(r), deficit |-> deficit(r)]
<1>1. aims = [id \in ids |-> RouteTarget(Cardinality(ids))]
  BY DEF RouteTargets
<1>2. IsFiniteSet(ids)
  <2>1. CASE validated # <<>>
    <3> DEFINE f == [i \in DOMAIN validated |-> validated[i].id]
    <3>1. IsFiniteSet(DOMAIN validated)
      <4>1. DOMAIN validated = 1 .. Len(validated) /\ Len(validated) \in Nat
        BY DEF RoutesTypeOK
      <4> QED
        BY <4>1, FS_Interval
    <3>2. ids = {validated[i].id : i \in DOMAIN validated}
      BY <2>1 DEF RouteIds
    <3>3. IsFiniteSet({f[i] : i \in DOMAIN validated})
      <4> HIDE DEF f
      <4> QED
        BY <3>1, FiniteImage
    <3> QED
      BY <3>2, <3>3
  <2>2. CASE validated = <<>>
    <3> DEFINE S == DOMAIN framework \cup DOMAIN decided
               f == [r \in S |-> RouteId(r, 0)]
    <3>1. IsFiniteSet(S)
      <4>1. S \subseteq RouteNames
        BY DEF RoutesTypeOK
      <4> QED
        BY <4>1, SomeRouteNames
    <3>2. IsFiniteSet({f[r] : r \in S})
      <4> HIDE DEF f, S
      <4> QED
        BY <3>1, FiniteImage
    <3>3. ids = {f[r] : r \in S}
      BY <2>2
    <3> QED
      BY <3>2, <3>3
  <2> QED
    BY <2>1, <2>2
<1> HIDE DEF ids, aims
<1>3. ASSUME NEW r PROVE target(r) \in Int
  <2>1. CASE RouteId(r, 0) \in ids
    <3>1. Cardinality(ids) \in Nat \ {0}
      BY <1>2, <2>1, FS_CardinalityType, FS_EmptySet
    <3> QED
      BY <1>1, <2>1, <3>1, TargetTyped
  <2>2. CASE RouteId(r, 0) \notin ids
    BY <1>1, <2>2
  <2> QED
    BY <2>1, <2>2
<1> HIDE DEF target
<1>4. ASSUME NEW r \in DOMAIN decided PROVE deficit(r) \in Int
  <2>1. decided[r].core \in SUBSET RoutePapers
    BY DEF RoutesTypeOK
  <2>2. IsFiniteSet(decided[r].core)
    BY <2>1, RoutesAssumption, FS_Subset
  <2>3. Cardinality(decided[r].core) \in Nat
    BY <2>2, FS_CardinalityType
  <2>4. target(r) - Cardinality(decided[r].core) \in Int
    BY <1>3, <2>3
  <2> QED
    BY <2>4, OfTwo
<1> HIDE DEF deficit
<1>5. short \subseteq DOMAIN decided /\ short \subseteq RouteNames
  BY DEF RoutesTypeOK
<1>6. Gaps(framework, decided, validated) = [i \in DOMAIN order |-> gap(order[i])]
  BY DEF Gaps, aims, target, deficit
<1> HIDE DEF short
<1>7. n \in Nat /\ order \in [1 .. n -> short] /\ \A k, l \in 1 .. n : order[k] = order[l] => k = l
  <2>1. IsFiniteSet(short) /\ short \subseteq Int
    BY <1>5, SomeRouteNames
  <2>2. Arranges(order, short, {x \in short \X short : x[1] < x[2]})
    BY <2>1, AscendingOrder
  <2> QED
    BY <2>2 DEF Arranges
<1> HIDE DEF order, n
<1>8. ASSUME NEW r \in short
      PROVE  gap(r) \in GapRecords /\ gap(r).route.of = r
  <2>1. RouteId(r, 0) \in [of : RouteNames, part : {0}] /\ RouteId(r, 0).of = r
    BY <1>5 DEF RouteId
  <2>2. target(r) \in Int /\ deficit(r) \in Int
    BY <1>3, <1>4, <1>5
  <2> QED
    BY <2>1, <2>2 DEF GapRecords
<1> HIDE DEF gap
<1>9. [i \in 1 .. n |-> gap(order[i])] \in Seq(GapRecords)
  BY <1>7, <1>8
<1>10. ASSUME NEW i \in 1 .. n, NEW j \in 1 .. n, gap(order[i]).route = gap(order[j]).route
       PROVE  i = j
  BY <1>7, <1>8, <1>10
<1> QED
  BY <1>6, <1>7, <1>9, <1>10 DEF GapsOnce

LEMMA EntriesOnce ==
  ASSUME NEW gaps, GapsOnce(gaps), NEW I \in SUBSET DOMAIN gaps
  PROVE  GapsOnce(Entries(gaps, I))
<1> DEFINE e == Entries(gaps, I)
<1>1. gaps \in Seq(GapRecords)
  BY DEF GapsOnce
<1>2. e \in Seq(GapRecords)
  BY <1>1, EntriesAt
<1>3. PICK spot : Selects(e, gaps, I, spot)
  BY <1>1, EntriesAt
<1> HIDE DEF e
<1>4. \A i, j \in DOMAIN e : e[i].route = e[j].route => i = j
  BY <1>3 DEF Selects, GapsOnce
<1> QED
  BY <1>2, <1>4 DEF GapsOnce, e

(* The list by what the routes lack has the gaps it is of, each once. *)
LEMMA ByDeficitOnce ==
  ASSUME NEW gaps, GapsOnce(gaps)
  PROVE  /\ GapsOnce(ByDeficit(gaps)) /\ Len(ByDeficit(gaps)) = Len(gaps)
         /\ \A i \in DOMAIN gaps : \E k \in DOMAIN ByDeficit(gaps) : ByDeficit(gaps)[k] = gaps[i]
<1> DEFINE D == DOMAIN gaps
           n == Cardinality(D)
           before == {x \in D \X D : LacksMore(gaps[x[1]], gaps[x[2]])}
           spot == Arranged(D, before)
<1>1. /\ gaps \in Seq(GapRecords) /\ D = 1 .. Len(gaps) /\ Len(gaps) \in Nat
      /\ \A i, j \in D : gaps[i].route = gaps[j].route => i = j
  BY DEF GapsOnce
<1>2. IsFiniteSet(D) /\ n = Len(gaps)
  BY <1>1, FS_Interval
<1>3. ASSUME NEW i \in D
      PROVE  gaps[i].deficit \in Int /\ gaps[i].route.of \in Int /\ gaps[i].route.part = 0
             /\ gaps[i].route = [of |-> gaps[i].route.of, part |-> 0]
  <2>1. gaps[i] \in GapRecords
    BY <1>1
  <2>2. gaps[i].deficit \in Int /\ gaps[i].route \in [of : RouteNames, part : {0}]
    BY <2>1 DEF GapRecords
  <2>3. \A id \in [of : RouteNames, part : {0}] :
          id.of \in RouteNames /\ id.part = 0 /\ id = [of |-> id.of, part |-> 0]
    OBVIOUS
  <2>4. RouteNames \subseteq Int
    BY RouteNamesFinite
  <2> QED
    BY <2>2, <2>3, <2>4
<1>4. ASSUME NEW i \in D, NEW j \in D
      PROVE  <<i, j>> \in before <=>
               \/ gaps[i].deficit > gaps[j].deficit
               \/ gaps[i].deficit = gaps[j].deficit /\ gaps[i].route.of < gaps[j].route.of
  BY DEF LacksMore
<1>5. ByDeficit(gaps) = [k \in DOMAIN spot |-> gaps[spot[k]]]
  BY DEF ByDeficit
<1> HIDE DEF before, D
<1>6. Orders(before, D)
  <2>1. ASSUME NEW x \in D PROVE <<x, x>> \notin before
    <3>1. gaps[x].deficit \in Int /\ gaps[x].route.of \in Int
      BY <1>3
    <3> QED
      BY <1>4, <3>1
  <2>2. ASSUME NEW x \in D, NEW y \in D, x # y
        PROVE  <<x, y>> \in before \/ <<y, x>> \in before
    <3>1. gaps[x].route # gaps[y].route
      BY <1>1, <2>2
    <3>2. gaps[x].route.of # gaps[y].route.of
      BY <1>3, <3>1
    <3>3. /\ gaps[x].deficit \in Int /\ gaps[y].deficit \in Int
          /\ gaps[x].route.of \in Int /\ gaps[y].route.of \in Int
      BY <1>3
    <3> QED
      BY <1>4, <3>2, <3>3
  <2>3. ASSUME NEW x \in D, NEW y \in D, NEW z \in D, <<x, y>> \in before, <<y, z>> \in before
        PROVE  <<x, z>> \in before
    <3>1. /\ gaps[x].deficit \in Int /\ gaps[y].deficit \in Int /\ gaps[z].deficit \in Int
          /\ gaps[x].route.of \in Int /\ gaps[y].route.of \in Int /\ gaps[z].route.of \in Int
      BY <1>3
    <3> QED
      BY <1>4, <2>3, <3>1
  <2> QED
    BY <2>1, <2>2, <2>3 DEF Orders
<1>7. /\ n \in Nat /\ spot \in [1 .. n -> D]
      /\ \A x \in D : \E k \in 1 .. n : spot[k] = x
      /\ \A k, l \in 1 .. n : spot[k] = spot[l] => k = l
  <2>1. Arranges(spot, D, before)
    BY <1>2, <1>6, ArrangedOrder
  <2> QED
    BY <2>1 DEF Arranges
<1> HIDE DEF spot, n
<1>8. [k \in 1 .. n |-> gaps[spot[k]]] \in Seq(GapRecords)
  <2>1. \A k \in 1 .. n : gaps[spot[k]] \in GapRecords
    BY <1>1, <1>7
  <2> QED
    BY <1>7, <2>1
<1>9. DOMAIN spot = 1 .. n
  BY <1>7
<1>10. \A k, l \in 1 .. n : gaps[spot[k]].route = gaps[spot[l]].route => k = l
  BY <1>1, <1>7
<1>11. \A i \in D : \E k \in 1 .. n : gaps[spot[k]] = gaps[i]
  BY <1>7
<1>12. ByDeficit(gaps) = [k \in 1 .. n |-> gaps[spot[k]]]
  BY <1>5, <1>9
<1>13. GapsOnce(ByDeficit(gaps))
  BY <1>8, <1>10, <1>12 DEF GapsOnce
<1>14. Len(ByDeficit(gaps)) = Len(gaps)
  BY <1>2, <1>7, <1>12
<1>15. \A i \in D : \E k \in DOMAIN ByDeficit(gaps) : ByDeficit(gaps)[k] = gaps[i]
  BY <1>11, <1>12
<1> QED
  BY <1>13, <1>14, <1>15 DEF D

-----------------------------------------------------------------------------
(* The queries                                                             *)
LEMMA QueriesTyped ==
  ASSUME NEW id, id.of \in RouteNames
  PROVE  QueriesOf(id) \in Seq(Queries)
<1>1. ASSUME NEW queries \in Seq(Queries) PROVE Fresh(queries) \in Seq(Queries)
  <2> DEFINE I == {i \in DOMAIN queries : queries[i] \notin searched}
  <2>1. I \in SUBSET DOMAIN queries
    OBVIOUS
  <2> HIDE DEF I
  <2>2. Entries(queries, I) \in Seq(Queries)
    BY <2>1, EntriesAt
  <2> QED
    BY <2>2 DEF Fresh, I
<1>2. Suggested[id.of] \in [own : Seq(Queries), narrower : Seq(Queries)]
  <2>1. Suggested \in Seq([own : Seq(Queries), narrower : Seq(Queries)])
    BY RoutesAssumption
  <2>2. \A X : \A s \in Seq(X) : \A i \in DOMAIN s : s[i] \in X
    OBVIOUS
  <2>3. id.of \in DOMAIN Suggested
    BY DEF RouteNames
  <2> QED
    BY <2>1, <2>2, <2>3
<1>3. Suggested[id.of].own \in Seq(Queries) /\ Suggested[id.of].narrower \in Seq(Queries)
  BY <1>2
<1> QED
  BY <1>1, <1>3 DEF QueriesOf

(* When there are as many queries to deal as routes with a gap, the first  *)
(* round is dealt whole: each route with a query has one among them.       *)
LEMMA SelectedServes ==
  ASSUME NEW gaps, GapsOnce(gaps), Cardinality(Affected(gaps)) <= MaxQueries,
         NEW spot \in DOMAIN gaps, QueriesOf(gaps[spot].route) # <<>>
  PROVE  Range(Selected(gaps)) \cap Range(QueriesOf(gaps[spot].route)) # {}
<1> DEFINE order == ByDeficit(gaps)
           queries(i) == QueriesOf(order[i].route)
           lengths == {Len(queries(i)) : i \in DOMAIN order}
           longest == Max({0} \cup lengths)
           places(k) == {i \in DOMAIN order : Len(queries(i)) >= k}
           having(k) == Entries(order, places(k))
           round(k) == [i \in DOMAIN having(k) |-> QueriesOf(having(k)[i].route)[k]]
           ss == [k \in 1 .. longest |-> round(k)]
           flat == FlattenSeq(ss)
<1>1. Selected(gaps) = Dealt(flat)
  BY DEF Selected
<1>2. /\ GapsOnce(order) /\ order \in Seq(GapRecords) /\ Len(order) = Len(gaps)
      /\ \E k \in DOMAIN order : order[k] = gaps[spot]
  BY ByDeficitOnce DEF GapsOnce
<1> HIDE DEF order
<1>3. /\ DOMAIN order = 1 .. Len(order) /\ Len(order) \in Nat
      /\ \A i \in DOMAIN order : order[i] \in GapRecords
  BY <1>2
<1>4. ASSUME NEW gap \in GapRecords PROVE QueriesOf(gap.route) \in Seq(Queries)
  BY QueriesTyped DEF GapRecords
<1>5. \A i \in DOMAIN order : queries(i) \in Seq(Queries)
  BY <1>3, <1>4
<1>6. IsFiniteSet({0} \cup lengths) /\ {0} \cup lengths \subseteq Int
  <2> DEFINE f == [i \in DOMAIN order |-> Len(queries(i))]
  <2>1. IsFiniteSet(DOMAIN order)
    BY <1>3, FS_Interval
  <2>2. IsFiniteSet({f[i] : i \in DOMAIN order})
    <3> HIDE DEF f
    <3> QED
      BY <2>1, FiniteImage
  <2>3. lengths = {f[i] : i \in DOMAIN order}
    OBVIOUS
  <2>4. IsFiniteSet({0})
    BY FS_Singleton
  <2>5. lengths \subseteq Int
    BY <1>5
  <2>6. IsFiniteSet({0} \cup lengths)
    BY <2>2, <2>3, <2>4, FS_Union
  <2> QED
    BY <2>5, <2>6
<1>7. PICK place \in DOMAIN order : order[place] = gaps[spot]
  BY <1>2
<1>8. queries(place) = QueriesOf(gaps[spot].route) /\ Len(queries(place)) >= 1
  BY <1>5, <1>7
<1>9. longest \in Nat /\ longest >= 1
  <2>1. {0} \cup lengths # {} /\ 0 \in {0} \cup lengths /\ Len(queries(place)) \in {0} \cup lengths
    OBVIOUS
  <2> HIDE DEF lengths, queries
  <2>2. longest \in Int /\ longest >= 0 /\ longest >= Len(queries(place))
    BY <1>6, <2>1, FiniteExtremes
  <2>3. Len(queries(place)) \in Int
    BY <1>6, <2>1
  <2> QED
    BY <1>8, <2>2, <2>3
<1> HIDE DEF longest
<1>10. ASSUME NEW k \in 1 .. longest
       PROVE  /\ having(k) \in Seq(GapRecords) /\ IsFiniteSet(places(k))
              /\ Len(having(k)) = Cardinality(places(k))
              /\ \A i \in DOMAIN having(k) : Len(QueriesOf(having(k)[i].route)) >= k
              /\ \A i \in places(k) : \E j \in DOMAIN having(k) : having(k)[j] = order[i]
  <2> DEFINE P == places(k)
  <2>1. P \in SUBSET DOMAIN order /\ \A i \in P : Len(QueriesOf(order[i].route)) >= k
    OBVIOUS
  <2> HIDE DEF P
  <2>2. /\ IsFiniteSet(P) /\ Entries(order, P) \in Seq(GapRecords)
        /\ Len(Entries(order, P)) = Cardinality(P) /\ \E a : Selects(Entries(order, P), order, P, a)
    BY <1>2, <2>1, EntriesAt
  <2>3. PICK a : Selects(Entries(order, P), order, P, a)
    BY <2>2
  <2>4. \A i \in DOMAIN Entries(order, P) : Len(QueriesOf(Entries(order, P)[i].route)) >= k
    BY <2>1, <2>3 DEF Selects
  <2>5. \A i \in P : \E j \in DOMAIN Entries(order, P) : Entries(order, P)[j] = order[i]
    BY <2>3 DEF Selects
  <2> QED
    BY <2>2, <2>4, <2>5 DEF P
<1> HIDE DEF having
<1>11. ss \in Seq(Seq(Queries))
  <2>1. ASSUME NEW k \in 1 .. longest PROVE round(k) \in Seq(Queries)
    <3>1. PICK h : h = having(k)
      OBVIOUS
    <3>2. h \in Seq(GapRecords) /\ \A i \in DOMAIN h : Len(QueriesOf(h[i].route)) >= k
      BY <1>10, <3>1
    <3>3. ASSUME NEW i \in DOMAIN h PROVE QueriesOf(h[i].route)[k] \in Queries
      <4>1. h[i] \in GapRecords /\ Len(QueriesOf(h[i].route)) >= k
        BY <3>2
      <4>2. QueriesOf(h[i].route) \in Seq(Queries)
        BY <1>4, <4>1
      <4> QED
        BY <1>9, <4>1, <4>2
    <3>4. DOMAIN h = 1 .. Len(h) /\ Len(h) \in Nat
      BY <3>2
    <3> QED
      BY <3>1, <3>3, <3>4
  <2> HIDE DEF round
  <2> QED
    BY <1>9, <2>1
<1>12. DOMAIN ss = 1 .. longest /\ 1 \in 1 .. longest /\ ss[1] = round(1)
  BY <1>9
<1>13. DOMAIN round(1) = DOMAIN having(1) /\ \A j \in DOMAIN having(1) :
         round(1)[j] = QueriesOf(having(1)[j].route)[1]
  OBVIOUS
<1> HIDE DEF ss, round
<1>14. flat \in Seq(Queries) /\ \E row, col : Flattens(flat, ss, row, col)
  BY <1>11, FlattenAt
<1>15. PICK row, col : Flattens(flat, ss, row, col)
  BY <1>14
<1>16. ASSUME NEW j \in DOMAIN having(1)
       PROVE  j \in DOMAIN flat /\ flat[j] = QueriesOf(having(1)[j].route)[1]
  BY <1>12, <1>13, <1>15 DEF Flattens
<1>17. Len(having(1)) <= MaxQueries
  <2> DEFINE D == DOMAIN order
             f == [i \in D |-> order[i].route]
  <2>1. IsFiniteSet(D) /\ Cardinality(D) = Len(order)
    <3>1. D = 1 .. Len(order) /\ Len(order) \in Nat
      BY <1>3
    <3>2. \A m \in Nat : IsFiniteSet(1 .. m) /\ Cardinality(1 .. m) = m
      BY FS_Interval
    <3> HIDE DEF D
    <3> QED
      BY <3>1, <3>2
  <2>2. places(1) \in SUBSET D
    OBVIOUS
  <2>3. Cardinality(places(1)) <= Cardinality(D)
    <3> HIDE DEF D, places
    <3> QED
      BY <2>1, <2>2, FS_Subset
  <2>4. Cardinality(Affected(gaps)) = Len(gaps)
    <3> DEFINE G == DOMAIN gaps
               h == [i \in G |-> gaps[i].route]
    <3>1. gaps \in Seq(GapRecords) /\ \A i, j \in G : h[i] = h[j] => i = j
      BY DEF GapsOnce
    <3>2. IsFiniteSet(G) /\ Cardinality(G) = Len(gaps)
      <4>1. G = 1 .. Len(gaps) /\ Len(gaps) \in Nat
        BY <3>1
      <4>2. \A m \in Nat : IsFiniteSet(1 .. m) /\ Cardinality(1 .. m) = m
        BY FS_Interval
      <4> HIDE DEF G
      <4> QED
        BY <4>1, <4>2
    <3>3. Affected(gaps) = {h[i] : i \in G}
      BY DEF Affected
    <3>4. Cardinality({h[i] : i \in G}) = Cardinality(G)
      <4> HIDE DEF h, G
      <4> QED
        BY <3>1, <3>2, FiniteImage
    <3> QED
      BY <3>2, <3>3, <3>4
  <2>5. Len(having(1)) = Cardinality(places(1)) /\ Len(gaps) \in Nat /\ MaxQueries \in Nat
        /\ Cardinality(places(1)) \in Nat
    <3>1. Len(having(1)) = Cardinality(places(1)) /\ having(1) \in Seq(GapRecords)
      BY <1>10, <1>12
    <3>2. Len(having(1)) \in Nat
      BY <3>1
    <3>3. Len(gaps) \in Nat /\ MaxQueries \in Nat
      BY <1>2, <1>3, RoutesAssumption
    <3> QED
      BY <3>1, <3>2, <3>3
  <2> QED
    BY <1>2, <2>1, <2>3, <2>4, <2>5
<1>18. PICK j \in DOMAIN having(1) : having(1)[j] = order[place]
  BY <1>8, <1>10, <1>12
<1>19. flat[j] = queries(place)[1] /\ j \in DOMAIN flat
  BY <1>16, <1>18
<1>20. j <= MaxQueries
  <2>1. having(1) \in Seq(GapRecords)
    BY <1>10, <1>12
  <2>2. j \in 1 .. Len(having(1)) /\ Len(having(1)) \in Nat
    BY <1>18, <2>1
  <2>3. MaxQueries \in Nat
    BY RoutesAssumption
  <2> QED
    BY <1>17, <2>2, <2>3
<1>21. flat[j] \in Range(Dealt(flat))
  <2> HIDE DEF flat
  <2> QED
    BY <1>14, <1>19, <1>20, DealtFirst
<1>22. flat[j] \in Range(QueriesOf(gaps[spot].route))
  <2>1. 1 \in DOMAIN queries(place)
    BY <1>5, <1>8
  <2> QED
    BY <1>8, <1>19, <2>1 DEF Range
<1> QED
  BY <1>1, <1>21, <1>22

-----------------------------------------------------------------------------
ServesAll(made) ==
  made.action = "search" /\ Cardinality(made.affected) <= MaxQueries =>
    \A id \in made.affected : QueriesOf(id) # <<>> => made.given[id] # {}

LEMMA DecidedServes ==
  ASSUME NEW found, GapsOnce(found.gaps), NEW healthy, NEW advised
  PROVE  ServesAll(Decided(found, healthy, advised))
<1> DEFINE I == {i \in DOMAIN found.gaps : attempts[found.gaps[i].route.of] < MaxAttempts}
           eligible == Entries(found.gaps, I)
           made == Decided(found, healthy, advised)
<1>1. CASE made.action # "search"
  BY <1>1 DEF ServesAll
<1>2. CASE made.action = "search"
  <2>1. made = SearchFor(eligible, Selected(eligible))
    BY <1>2 DEF Decided, Idle
  <2>2. GapsOnce(eligible)
    <3>1. I \in SUBSET DOMAIN found.gaps
      OBVIOUS
    <3> HIDE DEF I
    <3> QED
      BY <3>1, EntriesOnce
  <2> HIDE DEF eligible, made
  <2>3. /\ made.affected = Affected(eligible)
        /\ \A id \in Affected(eligible) :
             made.given[id] = Range(Selected(eligible)) \cap Range(QueriesOf(id))
    BY <2>1 DEF SearchFor
  <2>4. ASSUME Cardinality(made.affected) <= MaxQueries,
               NEW id \in made.affected, QueriesOf(id) # <<>>
        PROVE  made.given[id] # {}
    <3>1. PICK i \in DOMAIN eligible : eligible[i].route = id
      BY <2>3, <2>4 DEF Affected
    <3>2. Range(Selected(eligible)) \cap Range(QueriesOf(id)) # {}
      BY <2>2, <2>3, <2>4, <3>1, SelectedServes
    <3> QED
      BY <2>3, <2>4, <3>2
  <2>5. ServesAll(made)
    BY <2>4 DEF ServesAll
  <2> QED
    BY <2>5 DEF made
<1> QED
  BY <1>1, <1>2

(* A recovery with as many queries as routes to serve serves each of them  *)
(* (evidence_recovery.py decide_recovery): the routes that lack most come  *)
(* first, but every one that may still be searched for and has a query     *)
(* nobody sent has one of its own dealt before any has a second.           *)
THEOREM RecoveryServes == RoutesSpec => GapsServed
<1> DEFINE Serves == decision' # decision => ServesAll(decision')
<1>1. ASSUME RoutesInv, RoutesNext PROVE Serves
  <2>1. CASE Diagnose
    <3>1. PICK healthy, advice \in BOOLEAN :
            decision' = Decided(Report(Gaps(framework, decided, validated), assigned), healthy,
              advice /\ Len(Report(Gaps(framework, decided, validated), assigned).gaps) * ScopeShare[2]
                          >= Len(framework) * ScopeShare[1])
      BY <2>1 DEF Diagnose
    <3>2. GapsOnce(Report(Gaps(framework, decided, validated), assigned).gaps)
      BY <1>1, GapsAreOnce DEF Report, RoutesInv
    <3> QED
      BY <3>1, <3>2, DecidedServes
  <2>2. CASE ReviseScope
    BY <2>2 DEF ReviseScope, Idle, ServesAll
  <2>3. CASE ValidateRoutes \/ ValidationFails \/ ClusterPapers \/ TargetedSearch \/ ExtractCards
    <3>1. UNCHANGED decision
      BY <2>3 DEF ValidateRoutes, ValidationFails, ClusterPapers, TargetedSearch, ExtractCards, Conclude
    <3> QED
      BY <3>1
  <2> QED
    BY <1>1, <2>1, <2>2, <2>3 DEF RoutesNext
<1>2. RoutesInv /\ [RoutesNext]_routeVars =>
        [decision' # decision /\ decision'.action = "search"
          /\ Cardinality(decision'.affected) <= MaxQueries =>
           \A id \in decision'.affected : QueriesOf(id) # <<>> => decision'.given[id] # {}]_routeVars
  BY <1>1 DEF ServesAll
<1> QED
  BY <1>2, RoutesInitInv, RoutesStepInv, PTL DEF RoutesSpec, GapsServed

-----------------------------------------------------------------------------
(* The claims                                                              *)
StatedRecords == [text : DOMAIN Opening, type : DOMAIN MinPapers, evidence : DOMAIN PaperOf]
MergedRecords == [text : DOMAIN Opening, type : DOMAIN MinPapers, evidence : SUBSET Evidence]
ClaimIds == (DOMAIN Opening \cup {"coverage"}) \X (Range(Opening) \cup DOMAIN Statements)
ClaimRecords ==
  [id : ClaimIds, text : DOMAIN Opening, type : DOMAIN MinPapers,
   evidence : SUBSET Evidence, level : 1 .. 3]
PlanRecords == [route : DOMAIN Opening \cup {"coverage"}, claims : Seq(ClaimRecords)]

LEMMA RawTyped ==
  ASSUME NEW papers \in Seq(DOMAIN Statements)
  PROVE  Raw(papers) \in Seq(StatedRecords)
<1> DEFINE ss == [i \in DOMAIN papers |-> Statements[papers[i]]]
<1>1. \A p \in DOMAIN Statements : Statements[p] \in Seq(StatedRecords)
  BY ClaimsAssumption DEF StatedRecords
<1>2. ss \in Seq(Seq(StatedRecords))
  <2>1. /\ DOMAIN papers = 1 .. Len(papers) /\ Len(papers) \in Nat
        /\ \A i \in DOMAIN papers : papers[i] \in DOMAIN Statements
    OBVIOUS
  <2>2. \A i \in DOMAIN papers : Statements[papers[i]] \in Seq(StatedRecords)
    BY <1>1, <2>1
  <2> HIDE DEF StatedRecords
  <2> QED
    BY <2>1, <2>2
<1> HIDE DEF ss, StatedRecords
<1>3. FlattenSeq(ss) \in Seq(StatedRecords)
  BY <1>2, FlattenAt
<1> QED
  BY <1>3 DEF Raw, ss

LEMMA MergedTyped ==
  ASSUME NEW raw \in Seq(StatedRecords)
  PROVE  MergedClaims(raw) \in Seq(MergedRecords)
<1> DEFINE V == Seq(MergedRecords)
           n == Len(raw)
           Step(v, s) == IF \A i \in DOMAIN v : v[i].text # s.text
                         THEN Append(v, [text |-> s.text, type |-> s.type, evidence |-> {s.evidence}])
                         ELSE [i \in DOMAIN v |->
                                 IF v[i].text = s.text THEN [v[i] EXCEPT !.evidence = @ \cup {s.evidence}]
                                 ELSE v[i]]
           Fold(g) == g = [t \in SUBSET DOMAIN raw |->
                             IF t = {} THEN <<>>
                             ELSE Step(g[t \ {Max(t)}], raw[Max(t)])]
<1>1. /\ n \in Nat /\ DOMAIN raw = 1 .. n /\ <<>> \in V
  OBVIOUS
<1>2. ASSUME NEW v \in V, NEW k \in 1 .. n PROVE Step(v, raw[k]) \in V
  <2> DEFINE s == raw[k]
             new == [text |-> s.text, type |-> s.type, evidence |-> {s.evidence}]
             with(c) == [c EXCEPT !.evidence = @ \cup {s.evidence}]
  <2>1. s \in StatedRecords
    BY <1>1
  <2>2. new \in MergedRecords
    BY <2>1 DEF StatedRecords, MergedRecords, Evidence
  <2>3. ASSUME NEW c \in MergedRecords PROVE with(c) \in MergedRecords
    BY <2>1 DEF StatedRecords, MergedRecords, Evidence
  <2> HIDE DEF new, with
  <2>4. DOMAIN v = 1 .. Len(v) /\ Len(v) \in Nat /\ \A i \in DOMAIN v : v[i] \in MergedRecords
    OBVIOUS
  <2>5. Append(v, new) \in V
    <3> HIDE DEF MergedRecords
    <3> QED
      BY <2>2
  <2>6. [i \in DOMAIN v |-> IF v[i].text = s.text THEN with(v[i]) ELSE v[i]] \in V
    <3>1. \A i \in DOMAIN v : (IF v[i].text = s.text THEN with(v[i]) ELSE v[i]) \in MergedRecords
      BY <2>3, <2>4
    <3> HIDE DEF MergedRecords
    <3> QED
      BY <2>4, <3>1
  <2>7. Step(v, s) = IF \A i \in DOMAIN v : v[i].text # s.text THEN Append(v, new)
                     ELSE [i \in DOMAIN v |-> IF v[i].text = s.text THEN with(v[i]) ELSE v[i]]
    BY DEF new, with
  <2> QED
    BY <2>5, <2>6, <2>7
<1> HIDE DEF V, n, Step
<1>3. PICK R : R = [p \in (1 .. n) \X V |-> Step(p[2], raw[p[1]])]
  OBVIOUS
<1>4. R \in [(1 .. n) \X V -> V]
  BY <1>2, <1>3
<1>5. PICK m \in [SUBSET (1 .. n) -> V] : LeftFold(m, n, <<>>, R)
  BY <1>1, <1>4, LeftExists
<1>6. Fold(m)
  <2>1. ASSUME NEW t \in SUBSET (1 .. n)
        PROVE  m[t] = IF t = {} THEN <<>> ELSE Step(m[t \ {Max(t)}], raw[Max(t)])
    <3>1. m[t] = IF t = {} THEN <<>> ELSE R[<<Max(t), m[t \ {Max(t)}]>>]
      BY <1>5 DEF LeftFold
    <3>2. t # {} => Max(t) \in 1 .. n /\ m[t \ {Max(t)}] \in V
      BY <1>1, Largest
    <3> QED
      BY <1>3, <3>1, <3>2
  <2> QED
    BY <1>1, <2>1
<1>7. PICK g : g = CHOOSE h : Fold(h)
  OBVIOUS
<1>8. Fold(g)
  BY <1>6, <1>7
<1>9. MergedClaims(raw) = g[1 .. n]
  BY <1>1, <1>7 DEF MergedClaims, FoldLeft, MapThenFoldSet, Step
<1>10. ASSUME NEW t \in SUBSET (1 .. n), t # {}, g[t \ {Max(t)}] \in V
       PROVE  g[t] \in V
  <2>1. g[t] = Step(g[t \ {Max(t)}], raw[Max(t)])
    BY <1>1, <1>8, <1>10
  <2>2. Max(t) \in 1 .. n
    BY <1>1, <1>10, Largest
  <2> QED
    BY <1>2, <1>10, <2>1, <2>2
<1>11. g[{}] \in V
  BY <1>1, <1>8
<1>12. g[1 .. n] \in V
  BY <1>1, <1>10, <1>11, LeftStays
<1> QED
  BY <1>9, <1>12 DEF V

(* The entries of a list at some of its places are of the same kind. *)
LEMMA EntriesTyped ==
  ASSUME NEW X, NEW s \in Seq(X), NEW I \in SUBSET DOMAIN s
  PROVE  Entries(s, I) \in Seq(X)
BY EntriesAt

LEMMA ThesisTyped ==
  ASSUME NEW cs \in Seq(MergedRecords), NEW members \in SUBSET DOMAIN cs, members # {},
         NEW text \in DOMAIN Opening
  PROVE  ThesisOf(cs, members, text) \in Seq(MergedRecords)
<1> DEFINE of == Entries(cs, members)
           evidence == UNION {of[k].evidence : k \in DOMAIN of}
           thesis == [text |-> text, type |-> MajorityType(of), evidence |-> evidence]
<1>1. of \in Seq(MergedRecords) /\ Len(of) = Cardinality(members) /\ IsFiniteSet(members)
  BY EntriesAt
<1>2. Len(of) # 0
  BY <1>1, FS_EmptySet
<1>3. ThesisOf(cs, members, text) =
        IF Len(of) = 1 \/ Cardinality(PapersOf(evidence)) < 2 THEN of ELSE <<thesis>>
  BY DEF ThesisOf
<1> HIDE DEF of
<1>4. DOMAIN of = 1 .. Len(of) /\ Len(of) \in Nat /\ \A k \in DOMAIN of : of[k] \in MergedRecords
  BY <1>1
<1>5. MajorityType(of) \in DOMAIN MinPapers
  <2> DEFINE leading == {type \in DOMAIN MinPapers :
                2 * Cardinality({i \in DOMAIN of : of[i].type = type}) > Len(of)}
  <2>1. MajorityType(of) = IF leading # {} THEN CHOOSE type \in leading : TRUE ELSE of[1].type
    BY DEF MajorityType
  <2>2. of[1].type \in DOMAIN MinPapers
    BY <1>2, <1>4 DEF MergedRecords
  <2> QED
    BY <2>1, <2>2
<1>6. evidence \subseteq Evidence
  BY <1>4 DEF MergedRecords
<1> HIDE DEF evidence
<1>7. thesis \in MergedRecords
  BY <1>5, <1>6 DEF MergedRecords
<1> HIDE DEF thesis, MergedRecords
<1>8. <<thesis>> \in Seq(MergedRecords)
  BY <1>7
<1> QED
  BY <1>1, <1>3, <1>8

LEMMA ThesesTyped ==
  ASSUME NEW cs \in Seq(MergedRecords), NEW theses, NEW text \in DOMAIN Opening
  PROVE  Theses(cs, theses, text) \in Seq(MergedRecords)
<1> DEFINE before == {x \in theses \X theses : Min(x[1]) < Min(x[2])}
           order == Arranged(theses, before)
           n == Cardinality(theses)
           ss == [k \in DOMAIN order |-> ThesisOf(cs, order[k], text)]
           total == Len(cs)
<1>1. CASE ~Acceptable(theses, Len(cs))
  BY <1>1 DEF Theses
<1>2. CASE Acceptable(theses, Len(cs))
  <2>1. /\ UNION theses = 1 .. total /\ \A t, u \in theses : t # u => t \cap u = {}
        /\ \A t \in theses : Cardinality(t) \in 1 .. MemberCap(total)
    BY <1>2 DEF Acceptable
  <2>2. Theses(cs, theses, text) = FlattenSeq(ss)
    BY <1>2 DEF Theses
  <2>3. total \in Nat /\ DOMAIN cs = 1 .. total /\ IsFiniteSet(1 .. total)
    BY FS_Interval
  <2>4. IsFiniteSet(theses)
    <3>1. theses \in SUBSET (SUBSET (1 .. total))
      BY <2>1
    <3>2. IsFiniteSet(SUBSET (1 .. total))
      BY <2>3, FS_SUBSET
    <3> QED
      BY <3>1, <3>2, FS_Subset
  <2>5. ASSUME NEW t \in theses
        PROVE  t # {} /\ t \in SUBSET (1 .. total) /\ Min(t) \in t /\ Min(t) \in Int
    <3>1. t # {}
      <4>1. Cardinality({}) = 0 /\ 0 \notin 1 .. MemberCap(total)
        BY FS_EmptySet
      <4> QED
        BY <2>1, <4>1
    <3>2. t \in SUBSET (1 .. total)
      BY <2>1
    <3>3. IsFiniteSet(t) /\ t \subseteq Int
      <4>1. IsFiniteSet(t)
        BY <2>3, <3>2, FS_Subset
      <4> QED
        BY <3>2, <4>1
    <3>4. Min(t) \in t
      BY <3>1, <3>3, FiniteExtremes
    <3> QED
      BY <3>1, <3>2, <3>3, <3>4
  <2>6. ASSUME NEW t \in theses, NEW u \in theses
        PROVE  <<t, u>> \in before <=> Min(t) < Min(u)
    OBVIOUS
  <2> HIDE DEF before
  <2>7. Orders(before, theses)
    <3>1. ASSUME NEW x \in theses PROVE <<x, x>> \notin before
      BY <2>5, <2>6
    <3>2. ASSUME NEW x \in theses, NEW y \in theses, x # y
          PROVE  <<x, y>> \in before \/ <<y, x>> \in before
      <4>1. Min(x) \in Int /\ Min(y) \in Int /\ Min(x) # Min(y)
        BY <2>1, <2>5, <3>2
      <4> QED
        BY <2>6, <4>1
    <3>3. ASSUME NEW x \in theses, NEW y \in theses, NEW z \in theses,
                 <<x, y>> \in before, <<y, z>> \in before
          PROVE  <<x, z>> \in before
      <4>1. Min(x) \in Int /\ Min(y) \in Int /\ Min(z) \in Int
        BY <2>5
      <4> QED
        BY <2>6, <3>3, <4>1
    <3> QED
      BY <3>1, <3>2, <3>3 DEF Orders
  <2>8. n \in Nat /\ order \in [1 .. n -> theses]
    <3>1. Arranges(order, theses, before)
      BY <2>4, <2>7, ArrangedOrder
    <3> QED
      BY <3>1 DEF Arranges
  <2> HIDE DEF order, n
  <2>9. ss \in Seq(Seq(MergedRecords))
    <3>1. ASSUME NEW k \in 1 .. n PROVE ThesisOf(cs, order[k], text) \in Seq(MergedRecords)
      <4>1. order[k] \in SUBSET DOMAIN cs /\ order[k] # {}
        BY <2>3, <2>5, <2>8
      <4> QED
        BY <4>1, ThesisTyped
    <3> HIDE DEF MergedRecords
    <3> QED
      BY <2>8, <3>1
  <2> HIDE DEF ss
  <2>10. FlattenSeq(ss) \in Seq(MergedRecords)
    BY <2>9, FlattenAt
  <2> QED
    BY <2>2, <2>10
<1> QED
  BY <1>1, <1>2

LEMMA LevelIn == \A type, evidence : Level(type, evidence) \in 1 .. 3
BY DEF Level

LEMMA ByLevelTyped ==
  ASSUME NEW cs \in Seq(ClaimRecords)
  PROVE  ByLevel(cs) \in Seq(ClaimRecords)
<1> DEFINE spot(level) == Entries(cs, {i \in DOMAIN cs : cs[i].level = level})
<1>1. ASSUME NEW level PROVE spot(level) \in Seq(ClaimRecords)
  BY EntriesTyped
<1> HIDE DEF spot, ClaimRecords
<1>2. spot(3) \o spot(2) \o spot(1) \in Seq(ClaimRecords)
  BY <1>1
<1> QED
  BY <1>2 DEF ByLevel, spot

LEMMA GradedTyped ==
  ASSUME NEW route \in DOMAIN Opening, NEW cs \in Seq(MergedRecords)
  PROVE  Graded(route, cs) \in Seq(ClaimRecords)
<1> DEFINE I == {i \in DOMAIN cs :
                   Cardinality(PapersOf(cs[i].evidence)) >= MinPapers[cs[i].type]}
           enough == Entries(cs, I)
           graded(c) == [id |-> <<route, Opening[c.text]>>, text |-> c.text,
                         type |-> c.type, evidence |-> c.evidence, level |-> Level(c.type, c.evidence)]
<1>1. enough \in Seq(MergedRecords)
  BY EntriesTyped
<1>2. Graded(route, cs) = ByLevel([i \in DOMAIN enough |-> graded(enough[i])])
  BY DEF Graded
<1>3. ASSUME NEW c \in MergedRecords PROVE graded(c) \in ClaimRecords
  <2>1. c.text \in DOMAIN Opening /\ c.type \in DOMAIN MinPapers /\ c.evidence \subseteq Evidence
    BY DEF MergedRecords
  <2>2. <<route, Opening[c.text]>> \in ClaimIds
    BY <2>1 DEF ClaimIds, Range
  <2> QED
    BY <2>1, <2>2, LevelIn DEF ClaimRecords
<1> HIDE DEF enough, graded
<1>4. [i \in DOMAIN enough |-> graded(enough[i])] \in Seq(ClaimRecords)
  <2> HIDE DEF MergedRecords, ClaimRecords
  <2> QED
    BY <1>1, <1>3
<1> QED
  BY <1>2, <1>4, ByLevelTyped

LEMMA BackgroundTyped ==
  ASSUME NEW route \in DOMAIN Opening, NEW cs \in Seq(MergedRecords)
  PROVE  GradedBackground(route, cs) \in Seq(ClaimRecords)
<1> DEFINE graded(c) == [id |-> <<route, Opening[c.text]>>, text |-> c.text,
                         type |-> "background_fact", evidence |-> c.evidence,
                         level |-> Level("background_fact", c.evidence)]
           all == ByLevel([i \in DOMAIN cs |-> graded(cs[i])])
<1>1. GradedBackground(route, cs) = SubSeq(all, 1, Min({5, Len(all)}))
  BY DEF GradedBackground
<1>2. ASSUME NEW c \in MergedRecords PROVE graded(c) \in ClaimRecords
  <2>1. c.text \in DOMAIN Opening /\ c.evidence \subseteq Evidence
    BY DEF MergedRecords
  <2>2. <<route, Opening[c.text]>> \in ClaimIds
    BY <2>1 DEF ClaimIds, Range
  <2>3. "background_fact" \in DOMAIN MinPapers
    BY ClaimsAssumption
  <2> QED
    BY <2>1, <2>2, <2>3, LevelIn DEF ClaimRecords
<1> HIDE DEF graded
<1>3. [i \in DOMAIN cs |-> graded(cs[i])] \in Seq(ClaimRecords)
  <2> HIDE DEF MergedRecords, ClaimRecords
  <2> QED
    BY <1>2
<1>4. all \in Seq(ClaimRecords)
  BY <1>3, ByLevelTyped
<1> HIDE DEF all
<1>5. Min({5, Len(all)}) \in {5, Len(all)} /\ Min({5, Len(all)}) <= Len(all) /\ Len(all) \in Nat
  <2>1. Len(all) \in Int /\ 5 \in Int /\ Len(all) \in Nat
    BY <1>4
  <2> QED
    BY <2>1, OfTwo
<1>6. SubSeq(all, 1, Min({5, Len(all)})) \in Seq(ClaimRecords)
  <2>1. PICK m : m = Min({5, Len(all)})
    OBVIOUS
  <2>2. m \in Nat /\ m <= Len(all)
    BY <1>5, <2>1
  <2>3. SubSeq(all, 1, m) \in Seq(ClaimRecords)
    <3> HIDE DEF ClaimRecords
    <3> QED
      BY <1>4, <2>2
  <2> QED
    BY <2>1, <2>3
<1> QED
  BY <1>1, <1>6

Routes == [route : DOMAIN Opening, papers : Seq(DOMAIN Statements), background : BOOLEAN]

LEMMA PlannedTyped == Planned \in Seq(Routes)
<1> DEFINE all == [i \in DOMAIN RouteSeq |-> WithFacts(RouteSeq[i])]
           I == {i \in DOMAIN all : all[i].background \/ all[i].papers # <<>>}
<1>1. RouteSeq \in Seq(Routes)
  BY ClaimsAssumption DEF Routes
<1>2. ASSUME NEW r \in Routes PROVE WithFacts(r) \in Routes
  <2> DEFINE J == {i \in DOMAIN r.papers : r.papers[i] \in Factual}
  <2>1. r.papers \in Seq(DOMAIN Statements)
    BY DEF Routes
  <2>2. Entries(r.papers, J) \in Seq(DOMAIN Statements)
    BY <2>1, EntriesTyped
  <2>3. WithFacts(r) = [r EXCEPT !.papers = Entries(r.papers, J)]
    BY DEF WithFacts
  <2> HIDE DEF J
  <2> QED
    BY <2>2, <2>3 DEF Routes
<1>3. all \in Seq(Routes)
  <2>1. /\ DOMAIN RouteSeq = 1 .. Len(RouteSeq) /\ Len(RouteSeq) \in Nat
        /\ \A i \in DOMAIN RouteSeq : RouteSeq[i] \in Routes
    BY <1>1
  <2>2. \A i \in DOMAIN RouteSeq : WithFacts(RouteSeq[i]) \in Routes
    BY <1>2, <2>1
  <2> HIDE DEF Routes
  <2> QED
    BY <2>1, <2>2
<1>4. Planned = Entries(all, I)
  BY DEF Planned
<1> HIDE DEF all
<1> QED
  BY <1>3, <1>4, EntriesTyped

LEMMA ClaimsOfTyped ==
  ASSUME NEW r \in Routes
  PROVE  ClaimsOf(r) \subseteq Seq(ClaimRecords)
<1> DEFINE merged == MergedClaims(Raw(r.papers))
<1>1. r.route \in DOMAIN Opening /\ r.papers \in Seq(DOMAIN Statements)
  BY DEF Routes
<1>2. merged \in Seq(MergedRecords)
  BY <1>1, RawTyped, MergedTyped
<1>3. ClaimsOf(r) = IF r.background THEN {GradedBackground(r.route, merged)}
                    ELSE {Graded(r.route, Theses(merged, theses, r.route)) :
                            theses \in Proposals(Len(merged))}
  BY DEF ClaimsOf
<1> HIDE DEF merged
<1>4. GradedBackground(r.route, merged) \in Seq(ClaimRecords)
  BY <1>1, <1>2, BackgroundTyped
<1>5. ASSUME NEW theses PROVE Graded(r.route, Theses(merged, theses, r.route)) \in Seq(ClaimRecords)
  <2>1. Theses(merged, theses, r.route) \in Seq(MergedRecords)
    BY <1>1, <1>2, ThesesTyped
  <2> QED
    BY <1>1, <2>1, GradedTyped
<1> QED
  BY <1>3, <1>4, <1>5

LEMMA PlanningsTyped ==
  ASSUME NEW plan \in Plannings
  PROVE  plan \in Seq(PlanRecords)
<1> DEFINE routes == Planned
           choices == [i \in DOMAIN routes |-> ClaimsOf(routes[i])]
<1>1. PICK choice \in {f \in [DOMAIN routes -> UNION Range(choices)] :
                         \A i \in DOMAIN routes : f[i] \in choices[i]} :
        plan = [i \in DOMAIN routes |-> [route |-> routes[i].route, claims |-> choice[i]]]
  BY DEF Plannings
<1>2. /\ DOMAIN routes = 1 .. Len(routes) /\ Len(routes) \in Nat
      /\ \A i \in DOMAIN routes : routes[i] \in Routes
  BY PlannedTyped
<1>3. \A i \in DOMAIN routes : choice[i] \in ClaimsOf(routes[i])
  BY <1>1
<1> HIDE DEF routes
<1>4. ASSUME NEW i \in DOMAIN routes
      PROVE  [route |-> routes[i].route, claims |-> choice[i]] \in PlanRecords
  <2>1. choice[i] \in Seq(ClaimRecords)
    BY <1>2, <1>3, ClaimsOfTyped
  <2>2. routes[i].route \in DOMAIN Opening
    BY <1>2 DEF Routes
  <2> HIDE DEF ClaimRecords
  <2> QED
    BY <2>1, <2>2 DEF PlanRecords
<1> HIDE DEF choices, PlanRecords
<1> QED
  BY <1>1, <1>2, <1>4

LEMMA BudgetedTyped ==
  ASSUME NEW plan \in Seq(PlanRecords), NEW required
  PROVE  Budgeted(plan, required) \in Seq(PlanRecords)
<1> DEFINE budget == Max({required, PerRoute * Len(plan)})
           places == UNION {{i} \X DOMAIN plan[i].claims : i \in DOMAIN plan}
           first == {x \in places : x[2] = 1}
           before(x, y) ==
             LET a == plan[x[1]].claims[x[2]].level b == plan[y[1]].claims[y[2]].level
             IN \/ a > b \/ (a = b /\ x[2] < y[2]) \/ (a = b /\ x[2] = y[2] /\ x[1] < y[1])
           rest == {x \in places \ first :
                      Cardinality({y \in places \ first : before(y, x)})
                        < budget - Cardinality(first)}
           kept == first \cup rest
           I(i) == {j \in DOMAIN plan[i].claims : <<i, j>> \in kept}
<1>1. Budgeted(plan, required) =
        [i \in DOMAIN plan |-> [plan[i] EXCEPT !.claims = Entries(plan[i].claims, I(i))]]
  BY DEF Budgeted
<1> HIDE DEF kept
<1>2. /\ DOMAIN plan = 1 .. Len(plan) /\ Len(plan) \in Nat
      /\ \A i \in DOMAIN plan : plan[i] \in PlanRecords
  OBVIOUS
<1>3. ASSUME NEW i \in DOMAIN plan
      PROVE  [plan[i] EXCEPT !.claims = Entries(plan[i].claims, I(i))] \in PlanRecords
  <2>1. plan[i].claims \in Seq(ClaimRecords)
    BY <1>2 DEF PlanRecords
  <2>2. Entries(plan[i].claims, I(i)) \in Seq(ClaimRecords)
    BY <2>1, EntriesTyped
  <2> HIDE DEF I, ClaimRecords
  <2> QED
    BY <1>2, <2>2 DEF PlanRecords
<1>4. PICK new : new = Budgeted(plan, required)
  OBVIOUS
<1>5. new = [i \in 1 .. Len(plan) |-> new[i]] /\ \A i \in 1 .. Len(plan) : new[i] \in PlanRecords
  <2> HIDE DEF I, PlanRecords
  <2> QED
    BY <1>1, <1>2, <1>3, <1>4
<1>6. new \in Seq(PlanRecords)
  <2> HIDE DEF PlanRecords
  <2> QED
    BY <1>2, <1>5, ListOf
<1> QED
  BY <1>4, <1>6

-----------------------------------------------------------------------------
(* What the gate keeps                                                     *)
Alone(kept, p) == {k \in DOMAIN kept : PapersOf(kept[k].evidence) = {p}}
Grounded(c, held) ==
  /\ c.evidence # {} /\ c.evidence \subseteq held
  /\ Cardinality(PapersOf(c.evidence)) >= MinPapers[c.type]
  /\ c.level <= Level(c.type, c.evidence)
Held(kept, held) ==
  /\ kept \in Seq(ClaimRecords)
  /\ \A k \in DOMAIN kept : Grounded(kept[k], held)
  /\ \A p : IsFiniteSet(Alone(kept, p)) /\ Cardinality(Alone(kept, p)) <= SoleLimit

Answers(held) ==
  [kept : {kept \in Seq(ClaimRecords) : Held(kept, held)}, missing : BOOLEAN, unfounded : BOOLEAN]

LEMMA KeptAnother ==
  ASSUME NEW held, NEW kept, Held(kept, held), NEW new \in ClaimRecords, Grounded(new, held),
         \A p : PapersOf(new.evidence) = {p} =>
           ~(Cardinality({k \in DOMAIN kept : p \in PapersOf(kept[k].evidence)}) >= SoleLimit)
  PROVE  Held(Append(kept, new), held)
<1> DEFINE all == Append(kept, new)
           n == Len(kept)
<1>1. kept \in Seq(ClaimRecords) /\ n \in Nat /\ DOMAIN kept = 1 .. n /\ SoleLimit \in Nat \ {0}
  BY ClaimsAssumption DEF Held
<1>2. /\ all \in Seq(ClaimRecords) /\ DOMAIN all = 1 .. n + 1 /\ all[n + 1] = new
      /\ \A k \in 1 .. n : all[k] = kept[k]
  <2> HIDE DEF ClaimRecords
  <2> QED
    BY <1>1
<1> HIDE DEF all, n
<1>3. \A k \in DOMAIN all : Grounded(all[k], held)
  <2>1. \A k \in 1 .. n + 1 : k \in 1 .. n \/ k = n + 1
    BY <1>1
  <2> QED
    BY <1>1, <1>2, <2>1 DEF Held
<1>4. ASSUME NEW p
      PROVE  IsFiniteSet(Alone(all, p)) /\ Cardinality(Alone(all, p)) <= SoleLimit
  <2> DEFINE of == {k \in DOMAIN kept : p \in PapersOf(kept[k].evidence)}
  <2>1. IsFiniteSet(Alone(kept, p)) /\ Cardinality(Alone(kept, p)) <= SoleLimit
    BY DEF Held
  <2>2. CASE PapersOf(new.evidence) = {p}
    <3>1. Alone(all, p) = Alone(kept, p) \cup {n + 1}
      BY <1>1, <1>2, <2>2 DEF Alone
    <3>2. n + 1 \notin Alone(kept, p)
      BY <1>1 DEF Alone
    <3>3. ~(Cardinality(of) >= SoleLimit)
      BY <2>2
    <3>4. Cardinality(Alone(kept, p)) <= Cardinality(of) /\ Cardinality(of) \in Nat
      <4>1. Alone(kept, p) \in SUBSET of /\ of \in SUBSET (1 .. n)
        BY <1>1 DEF Alone
      <4>2. IsFiniteSet(of)
        <5>1. IsFiniteSet(1 .. n)
          BY <1>1, FS_Interval
        <5> QED
          BY <4>1, <5>1, FS_Subset
      <4> HIDE DEF of
      <4> QED
        BY <4>1, <4>2, FS_Subset, FS_CardinalityType
    <3>5. Cardinality(Alone(kept, p)) \in Nat
      BY <2>1, FS_CardinalityType
    <3>6. /\ IsFiniteSet(Alone(kept, p) \cup {n + 1})
          /\ Cardinality(Alone(kept, p) \cup {n + 1}) = Cardinality(Alone(kept, p)) + 1
      BY <2>1, <3>2, FS_AddElement
    <3> HIDE DEF of
    <3> QED
      BY <1>1, <3>1, <3>3, <3>4, <3>5, <3>6
  <2>3. CASE PapersOf(new.evidence) # {p}
    <3>0. DOMAIN all = DOMAIN kept \cup {n + 1}
      BY <1>1, <1>2
    <3>1. Alone(all, p) = Alone(kept, p)
      BY <1>1, <1>2, <2>3, <3>0 DEF Alone
    <3> QED
      BY <2>1, <3>1
  <2> QED
    BY <2>2, <2>3
<1> QED
  BY <1>2, <1>3, <1>4 DEF Held, all

NoneYet == [kept |-> <<>>, missing |-> FALSE, unfounded |-> FALSE]

LEMMA NoneYetHolds ==
  ASSUME NEW held
  PROVE  NoneYet \in Answers(held) /\ NoneYet.kept = <<>>
<1>1. \A p : Alone(<<>>, p) = {}
  BY DEF Alone
<1>2. IsFiniteSet({}) /\ Cardinality({}) <= SoleLimit
  <2>1. IsFiniteSet({}) /\ Cardinality({}) = 0 /\ SoleLimit \in Nat \ {0}
    BY FS_EmptySet, ClaimsAssumption
  <2> QED
    BY <2>1
<1>3. <<>> \in Seq(ClaimRecords) /\ DOMAIN <<>> = {}
  OBVIOUS
<1>4. \A p : IsFiniteSet(Alone(<<>>, p)) /\ Cardinality(Alone(<<>>, p)) <= SoleLimit
  BY <1>1, <1>2, Zenon
<1>5. Held(<<>>, held)
  BY <1>3, <1>4 DEF Held
<1> HIDE DEF ClaimRecords
<1> QED
  BY <1>3, <1>5 DEF Answers, NoneYet

(* The gate leaves a claim out, or keeps it under its id; what it has kept *)
(* stays grounded.                                                         *)
LEMMA CheckedHolds ==
  ASSUME NEW held, NEW done \in Answers(held), NEW claim \in ClaimRecords
  PROVE  /\ Checked(done, claim, held) \in Answers(held)
         /\ \/ Checked(done, claim, held).kept = done.kept
            \/ \E new \in ClaimRecords :
                 new.id = claim.id /\ Checked(done, claim, held).kept = Append(done.kept, new)
<1> DEFINE evidence == claim.evidence \cap held
           papers == PapersOf(evidence)
           carrying(p) == Cardinality({i \in DOMAIN done.kept : p \in PapersOf(done.kept[i].evidence)})
           level == Level(claim.type, evidence)
           new == [claim EXCEPT !.evidence = evidence, !.level = Min({@, level})]
<1>1. /\ done.kept \in Seq(ClaimRecords) /\ Held(done.kept, held)
      /\ done.missing \in BOOLEAN /\ done.unfounded \in BOOLEAN
      /\ done = [kept |-> done.kept, missing |-> done.missing, unfounded |-> done.unfounded]
  <2> HIDE DEF ClaimRecords
  <2> QED
    BY DEF Answers
<1>2. CASE Cardinality(papers) = 1 /\ \E p \in papers : carrying(p) >= SoleLimit
  BY <1>2 DEF Checked
<1>3. CASE /\ ~(Cardinality(papers) = 1 /\ \E p \in papers : carrying(p) >= SoleLimit)
           /\ Cardinality(papers) < MinPapers[claim.type]
  <2>1. Checked(done, claim, held) =
          [done EXCEPT !.missing = @ \/ claim.type \in Core, !.unfounded = @ \/ evidence = {}]
    BY <1>3 DEF Checked
  <2>2. Checked(done, claim, held) =
          [kept |-> done.kept, missing |-> done.missing \/ claim.type \in Core,
           unfounded |-> done.unfounded \/ evidence = {}]
    BY <1>1, <2>1
  <2> HIDE DEF evidence, ClaimRecords
  <2> QED
    BY <1>1, <2>2 DEF Answers
<1>4. CASE /\ ~(Cardinality(papers) = 1 /\ \E p \in papers : carrying(p) >= SoleLimit)
           /\ ~(Cardinality(papers) < MinPapers[claim.type])
  <2>1. Checked(done, claim, held) = [done EXCEPT !.kept = Append(@, new)]
    BY <1>4 DEF Checked
  <2>2. /\ claim.id \in ClaimIds /\ claim.text \in DOMAIN Opening /\ claim.type \in DOMAIN MinPapers
        /\ claim.evidence \subseteq Evidence /\ claim.level \in 1 .. 3
    BY DEF ClaimRecords
  <2>3. level \in 1 .. 3 /\ Min({claim.level, level}) \in 1 .. 3 /\ Min({claim.level, level}) <= level
    <3>1. level \in 1 .. 3
      BY LevelIn
    <3> HIDE DEF level
    <3>2. level \in Int /\ claim.level \in Int
      BY <2>2, <3>1
    <3>3. Min({claim.level, level}) \in {claim.level, level} /\ Min({claim.level, level}) <= level
      BY <3>2, OfTwo
    <3> QED
      BY <2>2, <3>1, <3>3
  <2>5. new \in ClaimRecords
    <3>1. ASSUME NEW e \in SUBSET Evidence, NEW l \in 1 .. 3
          PROVE  [claim EXCEPT !.evidence = e, !.level = l] \in ClaimRecords
      BY DEF ClaimRecords
    <3>2. evidence \in SUBSET Evidence
      BY <2>2
    <3> HIDE DEF evidence, level, ClaimRecords
    <3> QED
      BY <2>3, <3>1, <3>2
  <2>6. new.id = claim.id /\ new.evidence = evidence /\ new.type = claim.type /\ new.level = Min({claim.level, level})
    <3>1. ASSUME NEW e, NEW l
          PROVE  /\ [claim EXCEPT !.evidence = e, !.level = l].id = claim.id
                 /\ [claim EXCEPT !.evidence = e, !.level = l].evidence = e
                 /\ [claim EXCEPT !.evidence = e, !.level = l].type = claim.type
                 /\ [claim EXCEPT !.evidence = e, !.level = l].level = l
      BY DEF ClaimRecords
    <3> HIDE DEF evidence, level
    <3> QED
      BY <3>1
  <2>7. Grounded(new, held)
    <3>1. MinPapers[claim.type] \in Nat \ {0}
      BY <2>2, ClaimsAssumption
    <3>2. evidence # {}
      <4>1. SUFFICES ASSUME evidence = {} PROVE FALSE
        OBVIOUS
      <4>2. papers = {}
        BY <4>1 DEF PapersOf
      <4>3. Cardinality(papers) = 0
        BY <4>2, FS_EmptySet
      <4> QED
        BY <1>4, <3>1, <4>3
    <3>3. Cardinality(papers) >= MinPapers[claim.type]
      <4>1. Cardinality(papers) \in Nat
        <5> DEFINE of == [e \in evidence |-> PaperOf[e]]
        <5>0. evidence \in SUBSET Evidence /\ IsFiniteSet(Evidence)
          BY <2>2, ClaimsAssumption DEF Evidence
        <5>2. IsFiniteSet(evidence)
          BY <5>0, FS_Subset
        <5>3. papers = {of[e] : e \in evidence}
          BY DEF PapersOf
        <5>4. IsFiniteSet({of[e] : e \in evidence})
          <6> HIDE DEF of, evidence
          <6> QED
            BY <5>2, FiniteImage
        <5>1. IsFiniteSet(papers)
          BY <5>3, <5>4
        <5> QED
          BY <5>1, FS_CardinalityType
      <4> QED
        BY <1>4, <3>1, <4>1
    <3> HIDE DEF new
    <3> QED
      BY <2>3, <2>6, <3>2, <3>3 DEF Grounded
  <2>8. ASSUME NEW p, PapersOf(new.evidence) = {p}
        PROVE  ~(carrying(p) >= SoleLimit)
    <3>1. papers = {p}
      BY <2>6, <2>8
    <3>2. Cardinality(papers) = 1
      BY <3>1, FS_Singleton
    <3> QED
      BY <1>4, <3>1, <3>2
  <2> HIDE DEF new
  <2>9. Held(Append(done.kept, new), held)
    BY <1>1, <2>5, <2>7, <2>8, KeptAnother
  <2>10. Append(done.kept, new) \in Seq(ClaimRecords)
    BY <2>9 DEF Held
  <2>11. Checked(done, claim, held) =
           [kept |-> Append(done.kept, new), missing |-> done.missing, unfounded |-> done.unfounded]
    BY <1>1, <2>1
  <2>12. Checked(done, claim, held) \in Answers(held)
    <3> HIDE DEF ClaimRecords
    <3> QED
      BY <1>1, <2>9, <2>10, <2>11 DEF Answers
  <2>13. Checked(done, claim, held).kept = Append(done.kept, new)
    BY <2>11
  <2> HIDE DEF ClaimRecords
  <2> QED
    BY <2>5, <2>6, <2>12, <2>13
<1> QED
  BY <1>2, <1>3, <1>4

(* The gate goes through the claims of a plan one after the other. *)
LEMMA GateWalks ==
  ASSUME NEW held, NEW plan, NEW spot \in DOMAIN plan, plan[spot].claims \in Seq(ClaimRecords)
  PROVE  \E v : /\ v[0] = NoneYet /\ v[Len(plan[spot].claims)] = Founded(plan, held)[spot]
                /\ \A i \in 1 .. Len(plan[spot].claims) :
                     v[i] = Checked(v[i - 1], plan[spot].claims[i], held)
<1> DEFINE cs == plan[spot].claims
           V == Answers(held)
           n == Len(cs)
           Step(done, c) == Checked(done, c, held)
           Fold(g) == g = [t \in SUBSET DOMAIN cs |->
                             IF t = {} THEN NoneYet
                             ELSE Step(g[t \ {Max(t)}], cs[Max(t)])]
<1>1. /\ n \in Nat /\ DOMAIN cs = 1 .. n /\ \A i \in 1 .. n : cs[i] \in ClaimRecords
  OBVIOUS
<1>2. NoneYet \in V
  BY NoneYetHolds
<1>3. ASSUME NEW done \in V, NEW i \in 1 .. n PROVE Step(done, cs[i]) \in V
  BY <1>1, CheckedHolds
<1> HIDE DEF V, n, Step, cs
<1>4. PICK R : R = [p \in (1 .. n) \X V |-> Step(p[2], cs[p[1]])]
  OBVIOUS
<1>5. R \in [(1 .. n) \X V -> V]
  BY <1>3, <1>4
<1>6. PICK m \in [SUBSET (1 .. n) -> V] : LeftFold(m, n, NoneYet, R)
  BY <1>1, <1>2, <1>5, LeftExists
<1>7. Fold(m)
  <2>1. ASSUME NEW t \in SUBSET (1 .. n)
        PROVE  m[t] = IF t = {} THEN NoneYet ELSE Step(m[t \ {Max(t)}], cs[Max(t)])
    <3>1. m[t] = IF t = {} THEN NoneYet ELSE R[<<Max(t), m[t \ {Max(t)}]>>]
      BY <1>6 DEF LeftFold
    <3>2. t # {} => Max(t) \in 1 .. n /\ m[t \ {Max(t)}] \in V
      BY <1>1, Largest
    <3> QED
      BY <1>4, <3>1, <3>2
  <2> QED
    BY <1>1, <2>1
<1>8. PICK g : g = CHOOSE h : Fold(h)
  OBVIOUS
<1>9. Fold(g)
  BY <1>7, <1>8
<1>10. Founded(plan, held)[spot] = g[1 .. n]
  BY <1>1, <1>8 DEF Founded, FoldLeft, MapThenFoldSet, Step, cs, NoneYet
<1>11. PICK v : v = [i \in 0 .. n |-> g[1 .. i]]
  OBVIOUS
<1>12. v[0] = NoneYet
  <2>1. 1 .. 0 = {} /\ 0 \in 0 .. n /\ {} \in SUBSET DOMAIN cs
    BY <1>1
  <2> QED
    BY <1>9, <1>11, <2>1
<1>13. ASSUME NEW i \in 1 .. n PROVE v[i] = Step(v[i - 1], cs[i])
  <2>1. 1 .. i \in SUBSET (1 .. n) /\ 1 .. i # {} /\ Max(1 .. i) = i /\ (1 .. i) \ {i} = 1 .. i - 1
    BY <1>1, MaxInterval
  <2>2. i \in 0 .. n /\ i - 1 \in 0 .. n
    BY <1>1
  <2> QED
    BY <1>1, <1>9, <1>11, <2>1, <2>2
<1>14. n \in 0 .. n
  BY <1>1
<1> QED
  BY <1>10, <1>11, <1>12, <1>13, <1>14 DEF n, Step, cs

(* Whatever the gate's answer is, what it kept has its evidence, and its   *)
(* claims are claims of the plan, at most one of them with an id that at   *)
(* most one claim of the plan has.                                         *)
Single(cs, id) == \A i, j \in DOMAIN cs : cs[i].id = id /\ cs[j].id = id => i = j
OnceIn(kept, cs) ==
  /\ \A k \in DOMAIN kept : \E j \in DOMAIN cs : kept[k].id = cs[j].id
  /\ \A id : Single(cs, id) => Single(kept, id)

LEMMA FoundedHolds ==
  ASSUME NEW held, NEW plan, NEW spot \in DOMAIN plan, plan[spot].claims \in Seq(ClaimRecords)
  PROVE  /\ Founded(plan, held)[spot] \in Answers(held)
         /\ OnceIn(Founded(plan, held)[spot].kept, plan[spot].claims)
<1> DEFINE cs == plan[spot].claims
           n == Len(cs)
           In(kept, i) == /\ \A k \in DOMAIN kept : \E j \in 1 .. i : kept[k].id = cs[j].id
                          /\ \A id : Single(cs, id) => Single(kept, id)
<1>1. /\ n \in Nat /\ DOMAIN cs = 1 .. n /\ \A i \in 1 .. n : cs[i] \in ClaimRecords
  OBVIOUS
<1>2. PICK v : /\ v[0] = NoneYet /\ v[n] = Founded(plan, held)[spot]
               /\ \A i \in 1 .. n : v[i] = Checked(v[i - 1], cs[i], held)
  BY GateWalks
<1>3. NoneYet \in Answers(held) /\ NoneYet.kept = <<>>
  BY NoneYetHolds
<1> HIDE DEF n, cs
<1> DEFINE Good == {i \in 0 .. n : v[i] \in Answers(held) /\ In(v[i].kept, i)}
<1>4. 0 \in Good
  <2>1. 0 \in 0 .. n /\ DOMAIN <<>> = {}
    BY <1>1
  <2> QED
    BY <1>2, <1>3, <2>1 DEF Single
<1>5. ASSUME NEW i \in 1 .. n, i - 1 \in Good PROVE i \in Good
  <2>1. i \in 0 .. n /\ v[i - 1] \in Answers(held) /\ In(v[i - 1].kept, i - 1)
    BY <1>1, <1>5
  <2>2. v[i] = Checked(v[i - 1], cs[i], held) /\ cs[i] \in ClaimRecords
    BY <1>1, <1>2
  <2>3. v[i] \in Answers(held)
    BY <2>1, <2>2, CheckedHolds
  <2>4. \/ v[i].kept = v[i - 1].kept
        \/ \E new \in ClaimRecords : new.id = cs[i].id /\ v[i].kept = Append(v[i - 1].kept, new)
    <3>1. PICK done \in Answers(held) : done = v[i - 1]
      BY <2>1
    <3>2. PICK claim \in ClaimRecords : claim = cs[i]
      BY <2>2
    <3>3. /\ Checked(done, claim, held) = v[i]
          /\ \/ Checked(done, claim, held).kept = done.kept
             \/ \E new \in ClaimRecords :
                  new.id = claim.id /\ Checked(done, claim, held).kept = Append(done.kept, new)
      BY <2>2, <3>1, <3>2, CheckedHolds
    <3> QED
      BY <3>1, <3>2, <3>3
  <2>5. ASSUME NEW kept, In(kept, i - 1) PROVE In(kept, i)
    <3>1. 1 .. i - 1 \subseteq 1 .. i
      BY <1>1
    <3> QED
      BY <2>5, <3>1
  <2>6. ASSUME NEW kept \in Seq(ClaimRecords), In(kept, i - 1), NEW new \in ClaimRecords, new.id = cs[i].id
        PROVE  In(Append(kept, new), i)
    <3> DEFINE m == Len(kept)
               all == Append(kept, new)
    <3>1. /\ m \in Nat /\ DOMAIN kept = 1 .. m /\ DOMAIN all = 1 .. m + 1 /\ all[m + 1] = new
          /\ \A k \in 1 .. m : all[k] = kept[k]
      <4> HIDE DEF ClaimRecords
      <4> QED
        OBVIOUS
    <3> HIDE DEF m, all
    <3>2. DOMAIN all = DOMAIN kept \cup {m + 1} /\ m + 1 \notin DOMAIN kept
      BY <3>1
    <3>3. 1 .. i = (1 .. i - 1) \cup {i} /\ i \notin 1 .. i - 1 /\ i \in DOMAIN cs
          /\ 1 .. i - 1 \subseteq DOMAIN cs
      BY <1>1
    <3>4. \A k \in DOMAIN kept : \E j \in 1 .. i - 1 : kept[k].id = cs[j].id
      BY <2>6
    <3>5. ASSUME Single(cs, cs[i].id), NEW k \in DOMAIN kept PROVE kept[k].id # cs[i].id
      BY <3>3, <3>4, <3>5 DEF Single
    <3>6. \A k \in DOMAIN all : \E j \in 1 .. i : all[k].id = cs[j].id
      BY <2>6, <3>1, <3>2, <3>3, <3>4
    <3>7. ASSUME NEW id, Single(cs, id) PROVE Single(all, id)
      <4>1. Single(kept, id)
        BY <2>6, <3>7
      <4>2. CASE id # cs[i].id
        BY <2>6, <3>1, <3>2, <4>1, <4>2 DEF Single
      <4>3. CASE id = cs[i].id
        <5>1. \A k \in DOMAIN kept : all[k].id # id
          BY <3>1, <3>5, <3>7, <4>3
        <5> QED
          BY <3>2, <5>1 DEF Single
      <4> QED
        BY <4>2, <4>3
    <3> QED
      BY <3>6, <3>7 DEF all
  <2>7. v[i - 1].kept \in Seq(ClaimRecords)
    BY <2>1 DEF Answers
  <2>8. In(v[i].kept, i)
    <3> HIDE DEF In
    <3> QED
      BY <2>1, <2>4, <2>5, <2>6, <2>7
  <2> HIDE DEF In
  <2> QED
    BY <2>1, <2>3, <2>8
<1> HIDE DEF Good
<1>6. n \in Good
  <2> DEFINE w == [i \in 0 .. n |-> i]
  <2>1. w[0] \in Good /\ \A i \in 1 .. n : w[i - 1] \in Good => w[i] \in Good
    BY <1>1, <1>4, <1>5
  <2> HIDE DEF w
  <2>2. w[n] \in Good
    BY <1>1, <2>1, ChainStays
  <2> QED
    BY <1>1, <2>2 DEF w
<1>7. v[n] \in Answers(held) /\ In(v[n].kept, n)
  BY <1>6 DEF Good
<1>8. OnceIn(v[n].kept, cs)
  BY <1>1, <1>7 DEF OnceIn
<1> QED
  BY <1>2, <1>7, <1>8 DEF cs

(* Some of the claims that were kept hold as they did. *)
LEMMA SomeHeld ==
  ASSUME NEW held, NEW kept, Held(kept, held), NEW I \in SUBSET DOMAIN kept
  PROVE  Held(Entries(kept, I), held)
<1> DEFINE e == Entries(kept, I)
<1>1. kept \in Seq(ClaimRecords)
  BY DEF Held
<1>2. e \in Seq(ClaimRecords) /\ \E a : Selects(e, kept, I, a)
  BY <1>1, EntriesAt
<1>3. PICK spot : Selects(e, kept, I, spot)
  BY <1>2
<1> HIDE DEF e
<1>4. \A k \in DOMAIN e : Grounded(e[k], held)
  BY <1>3 DEF Selects, Held
<1>5. ASSUME NEW p
      PROVE  IsFiniteSet(Alone(e, p)) /\ Cardinality(Alone(e, p)) <= SoleLimit
  <2> DEFINE A == Alone(e, p)
             T == {spot[k] : k \in A}
  <2>1. IsFiniteSet(Alone(kept, p)) /\ Cardinality(Alone(kept, p)) <= SoleLimit
    BY DEF Held
  <2>2. T \in SUBSET Alone(kept, p)
    BY <1>3 DEF Selects, Alone
  <2>3. \A k, l \in A : spot[k] = spot[l] => k = l
    BY <1>3 DEF Selects, Alone
  <2>4. IsFiniteSet(A)
    <3>1. A \in SUBSET (1 .. Len(e)) /\ Len(e) \in Nat
      BY <1>2 DEF Alone
    <3>2. IsFiniteSet(1 .. Len(e))
      BY <3>1, FS_Interval
    <3> HIDE DEF A
    <3> QED
      BY <3>1, <3>2, FS_Subset
  <2> HIDE DEF A
  <2>5. Cardinality(T) = Cardinality(A)
    BY <2>3, <2>4, FiniteImage
  <2> HIDE DEF T
  <2>6. Cardinality(T) <= Cardinality(Alone(kept, p))
    BY <2>1, <2>2, FS_Subset
  <2>7. Cardinality(A) \in Nat /\ Cardinality(Alone(kept, p)) \in Nat /\ SoleLimit \in Nat
    BY <2>1, <2>4, FS_CardinalityType, ClaimsAssumption
  <2> QED
    BY <2>1, <2>4, <2>5, <2>6, <2>7 DEF A
<1> QED
  BY <1>2, <1>4, <1>5 DEF Held, e

LEMMA EntailedHolds ==
  ASSUME NEW held, NEW told, NEW plan, NEW spot \in DOMAIN plan, plan[spot].claims \in Seq(ClaimRecords)
  PROVE  /\ spot \in DOMAIN Entailed(Founded(plan, held), told)
         /\ Held(Entailed(Founded(plan, held), told)[spot], held)
<1> DEFINE founded == Founded(plan, held)
           kept == founded[spot].kept
           I == {k \in DOMAIN kept : Verdict(founded, told, kept[k].id)}
<1>1. DOMAIN founded = DOMAIN plan
  BY DEF Founded
<1>2. Entailed(founded, told)[spot] = Entries(kept, I) /\ spot \in DOMAIN Entailed(founded, told)
  BY <1>1 DEF Entailed
<1>3. founded[spot] \in Answers(held)
  BY FoundedHolds
<1>4. Held(kept, held)
  BY <1>3 DEF Answers
<1>5. I \in SUBSET DOMAIN kept
  OBVIOUS
<1> HIDE DEF I, kept, founded
<1>6. Held(Entries(kept, I), held)
  BY <1>4, <1>5, SomeHeld
<1> QED
  BY <1>2, <1>6 DEF founded

(* At most one claim of the plans has the id. *)
Lone(plan, id) ==
  \A i, k \in DOMAIN plan : \A j \in DOMAIN plan[i].claims, l \in DOMAIN plan[k].claims :
    plan[i].claims[j].id = id /\ plan[k].claims[l].id = id => i = k /\ j = l

LEMMA ToldOnly ==
  ASSUME NEW held, NEW told, NEW plan, \A i \in DOMAIN plan : plan[i].claims \in Seq(ClaimRecords),
         NEW spot \in DOMAIN plan, NEW c \in ToSet(Entailed(Founded(plan, held), told)[spot]),
         Lone(plan, c.id)
  PROVE  /\ c \notin Refused(Founded(plan, held), told)
         /\ \E j \in DOMAIN plan[spot].claims : c.id = plan[spot].claims[j].id
<1> DEFINE founded == Founded(plan, held)
           kept(i) == founded[i].kept
           I == {k \in DOMAIN kept(spot) : Verdict(founded, told, kept(spot)[k].id)}
<1>1. DOMAIN founded = DOMAIN plan
  BY DEF Founded
<1>2. ASSUME NEW i \in DOMAIN plan
      PROVE  kept(i) \in Seq(ClaimRecords) /\ OnceIn(kept(i), plan[i].claims)
  <2>1. founded[i] \in Answers(held) /\ OnceIn(founded[i].kept, plan[i].claims)
    BY FoundedHolds
  <2> QED
    BY <2>1 DEF Answers
<1>3. Entailed(founded, told)[spot] = Entries(kept(spot), I)
  BY <1>1 DEF Entailed
<1>4. I \in SUBSET DOMAIN kept(spot)
  OBVIOUS
<1> HIDE DEF I, founded
<1>5. \E a : Selects(Entries(kept(spot), I), kept(spot), I, a)
  <2> HIDE DEF kept
  <2> QED
    BY <1>2, <1>4, EntriesAt
<1>6. PICK k \in I : c = kept(spot)[k]
  <2>1. PICK a : Selects(Entries(kept(spot), I), kept(spot), I, a)
    BY <1>5
  <2>2. PICK m \in DOMAIN Entries(kept(spot), I) : c = Entries(kept(spot), I)[m]
    BY <1>3 DEF ToSet, founded
  <2> QED
    BY <2>1, <2>2 DEF Selects
<1>7. k \in DOMAIN kept(spot) /\ Verdict(founded, told, c.id)
  BY <1>4, <1>6 DEF I
<1>8. ASSUME NEW i \in DOMAIN plan, NEW m \in DOMAIN kept(i), kept(i)[m].id = c.id
      PROVE  i = spot /\ m = k
  <2>1. OnceIn(kept(i), plan[i].claims) /\ OnceIn(kept(spot), plan[spot].claims)
    BY <1>2
  <2> HIDE DEF kept
  <2>2. PICK j \in DOMAIN plan[i].claims : kept(i)[m].id = plan[i].claims[j].id
    BY <2>1 DEF OnceIn
  <2>3. PICK l \in DOMAIN plan[spot].claims : kept(spot)[k].id = plan[spot].claims[l].id
    BY <1>7, <2>1 DEF OnceIn
  <2>4. i = spot
    <3>1. plan[i].claims[j].id = c.id /\ plan[spot].claims[l].id = c.id
      BY <1>6, <1>8, <2>2, <2>3
    <3> QED
      BY <3>1 DEF Lone
  <2>5. Single(plan[spot].claims, c.id)
    BY DEF Lone, Single
  <2>6. Single(kept(spot), c.id)
    BY <2>1, <2>5 DEF OnceIn
  <2> QED
    BY <1>6, <1>7, <1>8, <2>4, <2>6 DEF Single
<1>9. Places(founded) = UNION {{i} \X DOMAIN kept(i) : i \in DOMAIN plan}
  BY <1>1 DEF Places
<1>10. ASSUME NEW x \in Places(founded)
       PROVE  x = <<x[1], x[2]>> /\ x[1] \in DOMAIN plan /\ x[2] \in DOMAIN kept(x[1])
  BY <1>9
<1>11. <<spot, k>> \in told
  <2> DEFINE of == {x \in Places(founded) : founded[x[1]].kept[x[2]].id = c.id}
  <2>1. of = {<<spot, k>>}
    <3>1. <<spot, k>> \in of
      BY <1>6, <1>7, <1>9
    <3>2. \A x \in of : x = <<spot, k>>
      BY <1>8, <1>10
    <3> QED
      BY <3>1, <3>2
  <2>2. Verdict(founded, told, c.id) =
          ((CHOOSE x \in of : \A y \in of : y[1] < x[1] \/ (y[1] = x[1] /\ y[2] <= x[2])) \in told)
    BY DEF Verdict
  <2>3. \E x \in of : \A y \in of : y[1] < x[1] \/ (y[1] = x[1] /\ y[2] <= x[2])
    <3>1. k \in Int
      BY <1>2, <1>7
    <3> HIDE DEF of
    <3> QED
      BY <2>1, <3>1
  <2>4. (CHOOSE x \in of : \A y \in of : y[1] < x[1] \/ (y[1] = x[1] /\ y[2] <= x[2])) \in of
    <3> HIDE DEF of
    <3> QED
      BY <2>3, Zenon
  <2> QED
    BY <1>7, <2>1, <2>2, <2>4
<1>12. c \notin Refused(founded, told)
  <2> SUFFICES ASSUME NEW x \in Places(founded) \ told, c = founded[x[1]].kept[x[2]] PROVE FALSE
    BY DEF Refused
  <2>1. x = <<spot, k>>
    BY <1>8, <1>10
  <2> QED
    BY <1>11, <2>1
<1>13. \E j \in DOMAIN plan[spot].claims : c.id = plan[spot].claims[j].id
  <2>1. OnceIn(kept(spot), plan[spot].claims)
    BY <1>2
  <2> HIDE DEF kept
  <2> QED
    BY <1>6, <1>7, <2>1 DEF OnceIn
<1> QED
  BY <1>12, <1>13 DEF founded

LEMMA RefusedOf ==
  ASSUME NEW held, NEW told, NEW plan, \A i \in DOMAIN plan : plan[i].claims \in Seq(ClaimRecords),
         NEW c \in Refused(Founded(plan, held), told)
  PROVE  \E i \in DOMAIN plan : \E j \in DOMAIN plan[i].claims : c.id = plan[i].claims[j].id
<1> DEFINE founded == Founded(plan, held)
<1>1. DOMAIN founded = DOMAIN plan
  BY DEF Founded
<1>2. PICK x \in Places(founded) : c = founded[x[1]].kept[x[2]]
  BY DEF Refused
<1>3. x[1] \in DOMAIN plan /\ x[2] \in DOMAIN founded[x[1]].kept
  BY <1>1, <1>2 DEF Places
<1>4. OnceIn(founded[x[1]].kept, plan[x[1]].claims)
  BY <1>3, FoundedHolds
<1> HIDE DEF founded
<1> QED
  BY <1>2, <1>3, <1>4 DEF OnceIn

-----------------------------------------------------------------------------
(* The coverage                                                            *)
LEMMA AuthorizedFinite ==
  ASSUME NEW plan \in Seq(PlanRecords)
  PROVE  IsFiniteSet(AuthorizedBy(plan) \cap Usable)
<1> DEFINE all == {PaperOf[e] : e \in Evidence}
<1>1. IsFiniteSet(all)
  BY ClaimsAssumption, FiniteImage DEF Evidence
<1>2. AuthorizedBy(plan) \subseteq all
  <2> SUFFICES ASSUME NEW i \in DOMAIN plan, NEW c \in ToSet(plan[i].claims), NEW p \in PapersOf(c.evidence)
               PROVE  p \in all
    BY DEF AuthorizedBy
  <2>1. plan[i] \in PlanRecords
    OBVIOUS
  <2>2. plan[i].claims \in Seq(ClaimRecords)
    BY <2>1 DEF PlanRecords
  <2>3. c \in ClaimRecords
    <3> HIDE DEF ClaimRecords
    <3> QED
      BY <2>2 DEF ToSet
  <2>4. c.evidence \subseteq Evidence
    BY <2>3 DEF ClaimRecords
  <2> QED
    BY <2>4 DEF PapersOf
<1> HIDE DEF all
<1>3. AuthorizedBy(plan) \cap Usable \in SUBSET all
  BY <1>2
<1> QED
  BY <1>1, <1>3, FS_Subset

(* The coverage makes one claim of a paper, under an id of its own.        *)
LEMMA CoverageTyped ==
  ASSUME NEW plan \in Seq(PlanRecords)
  PROVE  /\ Coverage(plan) \in Seq(ClaimRecords)
         /\ \A i \in DOMAIN Coverage(plan) : Coverage(plan)[i].id[1] = "coverage"
         /\ \A i, j \in DOMAIN Coverage(plan) : Coverage(plan)[i].id = Coverage(plan)[j].id => i = j
<1> DEFINE authorized == AuthorizedBy(plan) \cap Usable
           stated(p) == Entries(Statements[p],
                          {i \in DOMAIN Statements[p] : Statements[p][i].type \in Coverable})
           I == {i \in DOMAIN CardSeq :
                  CardSeq[i] \in (Usable \cap Factual) \ authorized /\ stated(CardSeq[i]) # <<>>}
           papers == Entries(CardSeq, I)
           needed == IF Wanted > Cardinality(authorized) THEN Wanted - Cardinality(authorized) ELSE 0
           most == Min({needed, Len(papers)})
           taken == SubSeq(papers, 1, most)
           claim(p) == [id |-> <<"coverage", p>>, text |-> stated(p)[1].text,
                        type |-> "background_fact", evidence |-> {stated(p)[1].evidence}, level |-> 1]
<1>1. Coverage(plan) = [i \in DOMAIN taken |-> claim(taken[i])]
  BY DEF Coverage
<1>2. CardSeq \in Seq(DOMAIN Statements) /\ \A i, j \in DOMAIN CardSeq : CardSeq[i] = CardSeq[j] => i = j
  BY ClaimsAssumption DEF IsInjective
<1>3. needed \in Nat
  <2>1. Cardinality(authorized) \in Nat
    BY AuthorizedFinite, FS_CardinalityType
  <2>2. Wanted \in Nat
    BY ClaimsAssumption
  <2> QED
    BY <2>1, <2>2
<1> HIDE DEF needed
<1>4. I \in SUBSET DOMAIN CardSeq /\ \A i \in I : stated(CardSeq[i]) # <<>>
  OBVIOUS
<1> HIDE DEF I
<1>5. /\ papers \in Seq(DOMAIN Statements)
      /\ \A i \in DOMAIN papers : stated(papers[i]) # <<>>
      /\ \A i, j \in DOMAIN papers : papers[i] = papers[j] => i = j
  <2>1. papers \in Seq(DOMAIN Statements) /\ \E a : Selects(papers, CardSeq, I, a)
    BY <1>2, <1>4, EntriesAt
  <2>2. PICK a : Selects(papers, CardSeq, I, a)
    BY <2>1
  <2> HIDE DEF papers, stated
  <2>3. \A i \in DOMAIN papers : stated(papers[i]) # <<>>
    BY <1>4, <2>2 DEF Selects
  <2>4. \A i, j \in DOMAIN papers : papers[i] = papers[j] => i = j
    BY <1>2, <1>4, <2>2 DEF Selects
  <2> QED
    BY <2>1, <2>3, <2>4
<1> HIDE DEF papers
<1>6. most \in Nat /\ most <= Len(papers)
  <2>1. needed \in Int /\ Len(papers) \in Int /\ Len(papers) \in Nat
    BY <1>3, <1>5
  <2>2. most \in {needed, Len(papers)} /\ most <= Len(papers)
    BY <2>1, OfTwo
  <2> QED
    BY <1>3, <2>1, <2>2
<1> HIDE DEF most
<1>7. DOMAIN taken = 1 .. most /\ \A i \in 1 .. most : i \in DOMAIN papers /\ taken[i] = papers[i]
  BY <1>5, <1>6
<1> HIDE DEF taken
<1>8. ASSUME NEW p \in DOMAIN Statements, stated(p) # <<>>
      PROVE  claim(p) \in ClaimRecords /\ claim(p).id = <<"coverage", p>>
  <2>1. Statements[p] \in Seq(StatedRecords)
    BY ClaimsAssumption DEF StatedRecords
  <2>2. stated(p) \in Seq(StatedRecords)
    BY <2>1, EntriesTyped
  <2> HIDE DEF stated
  <2>3. stated(p)[1] \in StatedRecords
    BY <1>8, <2>2
  <2>4. stated(p)[1].text \in DOMAIN Opening /\ {stated(p)[1].evidence} \subseteq Evidence
    BY <2>3 DEF StatedRecords, Evidence
  <2>5. <<"coverage", p>> \in ClaimIds /\ "background_fact" \in DOMAIN MinPapers
    BY ClaimsAssumption DEF ClaimIds
  <2> QED
    BY <2>4, <2>5 DEF ClaimRecords
<1> HIDE DEF claim
<1>9. ASSUME NEW i \in 1 .. most
      PROVE  claim(taken[i]) \in ClaimRecords /\ claim(taken[i]).id = <<"coverage", taken[i]>>
  <2>1. taken[i] \in DOMAIN Statements /\ stated(taken[i]) # <<>>
    <3> HIDE DEF stated
    <3> QED
      BY <1>5, <1>7
  <2> QED
    BY <1>8, <2>1
<1>10. PICK made : made = Coverage(plan)
  OBVIOUS
<1>11. DOMAIN made = 1 .. most /\ \A i \in 1 .. most : made[i] = claim(taken[i])
  BY <1>1, <1>7, <1>10
<1>12. made \in Seq(ClaimRecords)
  <2>1. made = [i \in 1 .. most |-> made[i]]
    BY <1>1, <1>7, <1>10
  <2>2. \A i \in 1 .. most : made[i] \in ClaimRecords
    BY <1>9, <1>11
  <2> HIDE DEF ClaimRecords
  <2> QED
    BY <1>6, <2>1, <2>2, ListOf
<1>13. \A i \in DOMAIN made : made[i].id[1] = "coverage"
  <2> SUFFICES ASSUME NEW i \in DOMAIN made PROVE made[i].id[1] = "coverage"
    OBVIOUS
  <2>1. made[i].id = <<"coverage", taken[i]>>
    BY <1>9, <1>11
  <2> QED
    BY <2>1
<1>14. ASSUME NEW i \in DOMAIN made, NEW j \in DOMAIN made, made[i].id = made[j].id PROVE i = j
  BY <1>5, <1>7, <1>9, <1>11, <1>14
<1> QED
  BY <1>10, <1>12, <1>13, <1>14

-----------------------------------------------------------------------------
ClaimsInv ==
  /\ plans \in Seq(PlanRecords)
  /\ stage = "gated" => \A i \in DOMAIN plans : Held(plans[i].claims, valid)

(* A second planned claim has the id too, or a planned claim has it and    *)
(* one of the coverage may.                                                *)
Shared(id) ==
  \/ ~Lone(plans, id)
  \/ id[1] = "coverage" /\ \E i \in DOMAIN plans : \E j \in DOMAIN plans[i].claims : plans[i].claims[j].id = id

(* Nothing the model refused is among the gated claims, but for a shared   *)
(* id (_filter_non_entailed_claims).                                       *)
RefusalsBind ==
  [][stage' = "gated" =>
       \A i \in DOMAIN plans' : \A c \in ToSet(plans'[i].claims) \cap refused' : Shared(c.id)]_claimVars

LEMMA GatedTyped ==
  ASSUME ClaimsInv, NEW held, NEW told
  PROVE  /\ GatedBy(Founded(plans, held), told) \in Seq(PlanRecords)
         /\ DOMAIN GatedBy(Founded(plans, held), told) = DOMAIN plans
         /\ \A i \in DOMAIN plans :
              /\ GatedBy(Founded(plans, held), told)[i].claims = Entailed(Founded(plans, held), told)[i]
              /\ Held(GatedBy(Founded(plans, held), told)[i].claims, held)
<1> DEFINE passing(i) == Entailed(Founded(plans, held), told)[i]
           gated == GatedBy(Founded(plans, held), told)
<1>1. /\ DOMAIN plans = 1 .. Len(plans) /\ Len(plans) \in Nat
      /\ \A i \in DOMAIN plans : plans[i] \in PlanRecords
  BY DEF ClaimsInv
<1>2. ASSUME NEW i \in DOMAIN plans PROVE Held(passing(i), held)
  <2>1. plans[i].claims \in Seq(ClaimRecords)
    BY <1>1 DEF PlanRecords
  <2> QED
    BY <2>1, EntailedHolds
<1>3. gated = [i \in DOMAIN plans |-> [plans[i] EXCEPT !.claims = passing(i)]]
  BY DEF GatedBy
<1> HIDE DEF passing, gated
<1>4. ASSUME NEW i \in DOMAIN plans
      PROVE  [plans[i] EXCEPT !.claims = passing(i)] \in PlanRecords
             /\ [plans[i] EXCEPT !.claims = passing(i)].claims = passing(i)
  <2>1. passing(i) \in Seq(ClaimRecords)
    BY <1>2 DEF Held
  <2> HIDE DEF ClaimRecords
  <2> QED
    BY <1>1, <2>1 DEF PlanRecords
<1>5. \A i \in DOMAIN plans : gated[i] \in PlanRecords /\ gated[i].claims = passing(i)
  <2> HIDE DEF PlanRecords
  <2> QED
    BY <1>3, <1>4
<1>6. gated = [i \in 1 .. Len(plans) |-> gated[i]] /\ DOMAIN gated = DOMAIN plans
  BY <1>1, <1>3
<1>7. gated \in Seq(PlanRecords)
  <2> HIDE DEF PlanRecords
  <2> QED
    BY <1>1, <1>5, <1>6, ListOf
<1> QED
  BY <1>2, <1>5, <1>6, <1>7 DEF gated, passing

(* What a gate that ran leaves, with or without the coverage.              *)
GateLeaves(held, told, toldExtra) ==
  LET founded == Founded(plans, held)
      gated == GatedBy(founded, told)
      extra == Founded(CoverageOf(gated), held)
  IN /\ plans' = IF Explicit THEN Covered(gated, held, toldExtra) ELSE gated
     /\ valid' = held
     /\ refused' = Refused(founded, told) \cup Refused(extra, toldExtra)

LEMMA GateSteps ==
  ASSUME Gate
  PROVE  stage = "planned" /\ stage' = "gated" /\ \E held, told, toldExtra : GateLeaves(held, told, toldExtra)
<1>1. PICK held \in SUBSET Evidence : \E founded \in {Founded(plans, held)} :
        \E told \in SUBSET Places(founded) :
          \E gated \in {GatedBy(founded, told)} :
            \E extra \in {Founded(CoverageOf(gated), held)} :
              \E toldExtra \in IF Explicit THEN SUBSET Places(extra) ELSE {{}} :
                /\ plans' = IF Explicit THEN Covered(gated, held, toldExtra) ELSE gated
                /\ valid' = held
                /\ refused' = Refused(founded, told) \cup Refused(extra, toldExtra)
  BY ZenonT(20) DEF Gate
<1>2. PICK told \in SUBSET Places(Founded(plans, held)) :
        \E extra \in {Founded(CoverageOf(GatedBy(Founded(plans, held), told)), held)} :
          \E toldExtra \in IF Explicit THEN SUBSET Places(extra) ELSE {{}} :
            /\ plans' = IF Explicit THEN Covered(GatedBy(Founded(plans, held), told), held, toldExtra)
                        ELSE GatedBy(Founded(plans, held), told)
            /\ valid' = held
            /\ refused' = Refused(Founded(plans, held), told) \cup Refused(extra, toldExtra)
  BY <1>1, Zenon
<1>3. \E toldExtra : GateLeaves(held, told, toldExtra)
  BY <1>2, Zenon DEF GateLeaves
<1> QED
  BY <1>3, Zenon DEF Gate

LEMMA CoveragePlan ==
  ASSUME NEW plan \in Seq(PlanRecords)
  PROVE  /\ DOMAIN CoverageOf(plan) = {1} /\ CoverageOf(plan)[1].claims = Coverage(plan)
         /\ \A i \in DOMAIN CoverageOf(plan) : CoverageOf(plan)[i].claims \in Seq(ClaimRecords)
         /\ \A id : Lone(CoverageOf(plan), id)
<1>1. /\ Coverage(plan) \in Seq(ClaimRecords)
      /\ \A i, j \in DOMAIN Coverage(plan) : Coverage(plan)[i].id = Coverage(plan)[j].id => i = j
  BY CoverageTyped
<1>2. DOMAIN CoverageOf(plan) = {1} /\ CoverageOf(plan)[1].claims = Coverage(plan)
  BY DEF CoverageOf
<1> QED
  BY <1>1, <1>2 DEF Lone

LEMMA GateHolds ==
  ASSUME ClaimsInv, Gate
  PROVE  ClaimsInv'
<1>1. stage' = "gated" /\ \E held, told, toldExtra : GateLeaves(held, told, toldExtra)
  BY GateSteps
<1>2. PICK held, told, toldExtra : GateLeaves(held, told, toldExtra)
  BY <1>1
<1> DEFINE gated == GatedBy(Founded(plans, held), told)
           kept == Entailed(Founded(CoverageOf(gated), held), toldExtra)[1]
           more == [route |-> "coverage", claims |-> kept]
<1>3. /\ gated \in Seq(PlanRecords) /\ DOMAIN gated = DOMAIN plans
      /\ \A i \in DOMAIN plans : Held(gated[i].claims, held)
  BY GatedTyped
<1>4. valid' = held /\ (plans' = gated \/ plans' = Append(gated, more))
  BY <1>2 DEF GateLeaves, Covered, CoverageOf
<1>5. Held(kept, held)
  <2>1. 1 \in DOMAIN CoverageOf(gated) /\ CoverageOf(gated)[1].claims \in Seq(ClaimRecords)
    BY <1>3, CoveragePlan
  <2> QED
    BY <2>1, EntailedHolds
<1> HIDE DEF gated, kept
<1>6. more \in PlanRecords /\ more.claims = kept
  <2>1. kept \in Seq(ClaimRecords)
    BY <1>5 DEF Held
  <2> HIDE DEF ClaimRecords
  <2> QED
    BY <2>1 DEF PlanRecords
<1> HIDE DEF more
<1>7. CASE plans' = gated
  <2>1. plans' \in Seq(PlanRecords) /\ \A i \in DOMAIN plans' : Held(plans'[i].claims, valid')
    BY <1>3, <1>4, <1>7
  <2> QED
    BY <2>1 DEF ClaimsInv, Held, Grounded, Alone
<1>8. CASE plans' = Append(gated, more)
  <2>1. plans' \in Seq(PlanRecords)
    <3> HIDE DEF PlanRecords
    <3> QED
      BY <1>3, <1>6, <1>8
  <2>2. ASSUME NEW i \in DOMAIN plans' PROVE Held(plans'[i].claims, valid')
    <3>1. (i \in DOMAIN gated /\ plans'[i] = gated[i]) \/ plans'[i] = more
      <4> HIDE DEF PlanRecords
      <4> QED
        BY <1>3, <1>8, <2>2
    <3> QED
      BY <1>3, <1>4, <1>5, <1>6, <3>1
  <2> QED
    BY <2>1, <2>2 DEF ClaimsInv, Held, Grounded, Alone
<1> QED
  BY <1>4, <1>7, <1>8

LEMMA GateTold ==
  ASSUME ClaimsInv, Gate, NEW i \in DOMAIN plans', NEW c \in ToSet(plans'[i].claims) \cap refused'
  PROVE  Shared(c.id)
<1>1. stage = "planned" /\ \E held, told, toldExtra : GateLeaves(held, told, toldExtra)
  BY GateSteps
<1>2. PICK held, told, toldExtra : GateLeaves(held, told, toldExtra)
  BY <1>1
<1> DEFINE founded == Founded(plans, held)
           gated == GatedBy(founded, told)
           cover == CoverageOf(gated)
           extra == Founded(cover, held)
           kept == Entailed(extra, toldExtra)[1]
           more == [route |-> "coverage", claims |-> kept]
<1>3. gated \in Seq(PlanRecords) /\ DOMAIN gated = DOMAIN plans
      /\ \A k \in DOMAIN plans : gated[k].claims = Entailed(founded, told)[k]
  BY GatedTyped
<1>4. /\ refused' = Refused(founded, told) \cup Refused(extra, toldExtra)
      /\ plans' = gated \/ plans' = Append(gated, more)
  BY <1>2 DEF GateLeaves, Covered, CoverageOf
<1>5. \A k \in DOMAIN plans : plans[k].claims \in Seq(ClaimRecords)
  <2>1. \A k \in DOMAIN plans : plans[k] \in PlanRecords
    BY DEF ClaimsInv
  <2> QED
    BY <2>1 DEF PlanRecords
<1>6. /\ DOMAIN cover = {1} /\ \A id : Lone(cover, id)
      /\ \A k \in DOMAIN cover : cover[k].claims \in Seq(ClaimRecords)
      /\ \A j \in DOMAIN cover[1].claims : cover[1].claims[j].id[1] = "coverage"
  BY <1>3, CoveragePlan, CoverageTyped
<1> HIDE DEF cover
<1>7. c \in Refused(founded, told) =>
        \E k \in DOMAIN plans : \E j \in DOMAIN plans[k].claims : c.id = plans[k].claims[j].id
  BY <1>5, RefusedOf
<1>8. c \in Refused(extra, toldExtra) => c.id[1] = "coverage"
  <2>1. ASSUME c \in Refused(extra, toldExtra)
        PROVE  \E k \in DOMAIN cover : \E j \in DOMAIN cover[k].claims : c.id = cover[k].claims[j].id
    BY <1>6, <2>1, RefusedOf
  <2> QED
    BY <1>6, <2>1
<1>9. ASSUME NEW k \in DOMAIN plans, c \in ToSet(gated[k].claims) PROVE Shared(c.id)
  <2> SUFFICES ASSUME Lone(plans, c.id) PROVE Shared(c.id)
    BY DEF Shared
  <2>1. c \in ToSet(Entailed(founded, told)[k])
    BY <1>3, <1>9
  <2>2. c \notin Refused(founded, told) /\ \E j \in DOMAIN plans[k].claims : c.id = plans[k].claims[j].id
    BY <1>5, <2>1, ToldOnly
  <2>3. c.id[1] = "coverage"
    BY <1>4, <1>8, <2>2
  <2> QED
    BY <2>2, <2>3 DEF Shared
<1>10. ASSUME c \in ToSet(kept) PROVE Shared(c.id)
  <2>1. 1 \in DOMAIN cover /\ Lone(cover, c.id)
    BY <1>6
  <2>2. c \notin Refused(extra, toldExtra) /\ \E j \in DOMAIN cover[1].claims : c.id = cover[1].claims[j].id
    BY <1>6, <1>10, <2>1, ToldOnly
  <2>3. c.id[1] = "coverage"
    BY <1>6, <2>2
  <2>4. \E k \in DOMAIN plans : \E j \in DOMAIN plans[k].claims : c.id = plans[k].claims[j].id
    BY <1>4, <1>7, <2>2
  <2> QED
    BY <2>3, <2>4 DEF Shared
<1> HIDE DEF gated, kept, founded, extra
<1>11. (i \in DOMAIN plans /\ plans'[i] = gated[i]) \/ plans'[i] = more
  <2> HIDE DEF PlanRecords, more
  <2> QED
    BY <1>3, <1>4
<1>12. more.claims = kept
  OBVIOUS
<1> HIDE DEF more
<1> QED
  BY <1>9, <1>10, <1>11, <1>12

-----------------------------------------------------------------------------
LEMMA ClaimsInitInv == ClaimsInit => ClaimsInv
<1>1. <<>> \in Seq(PlanRecords)
  <2> HIDE DEF PlanRecords
  <2> QED
    OBVIOUS
<1> QED
  BY <1>1 DEF ClaimsInit, ClaimsInv

LEMMA ClaimsStepInv ==
  ASSUME ClaimsInv, [ClaimsNext]_claimVars
  PROVE  ClaimsInv'
<1>1. plans \in Seq(PlanRecords)
  BY DEF ClaimsInv
<1>2. CASE PlanClaims
  <2>1. PICK plan \in Plannings : plans' = Budgeted(plan, Wanted)
    BY <1>2 DEF PlanClaims
  <2>2. plans' \in Seq(PlanRecords)
    BY <2>1, PlanningsTyped, BudgetedTyped
  <2>3. stage' # "gated"
    BY <1>2 DEF PlanClaims
  <2> QED
    BY <2>2, <2>3 DEF ClaimsInv
<1>3. CASE PlanFails
  <2>1. plans' = plans /\ stage' # "gated"
    BY <1>3 DEF PlanFails
  <2> QED
    BY <1>1, <2>1 DEF ClaimsInv
<1>4. CASE Gate
  BY <1>4, GateHolds
<1>5. CASE GateFails
  <2>1. plans' = plans /\ stage' # "gated"
    BY <1>5 DEF GateFails
  <2> QED
    BY <1>1, <2>1 DEF ClaimsInv
<1>6. CASE UNCHANGED claimVars
  <2>1. plans' = plans /\ stage' = stage /\ valid' = valid
    BY <1>6 DEF claimVars
  <2> QED
    BY <2>1 DEF ClaimsInv, Held, Grounded, Alone
<1> QED
  BY <1>2, <1>3, <1>4, <1>5, <1>6 DEF ClaimsNext

LEMMA ClaimsInvHolds == ClaimsInv => ClaimsHold
<1> SUFFICES ASSUME ClaimsInv, stage = "gated", NEW i \in DOMAIN plans
             PROVE  /\ \A c \in ToSet(plans[i].claims) : Grounded(c, valid)
                    /\ \A p \in ToSet(CardSeq) : Cardinality(Alone(plans[i].claims, p)) <= SoleLimit
  BY DEF ClaimsHold, Grounded, Alone
<1>1. Held(plans[i].claims, valid)
  BY DEF ClaimsInv
<1> QED
  BY <1>1 DEF Held, ToSet

(* What the gate lets through, planned or made for the coverage of         *)
(* references, rests on evidence the cards still have, of as many papers   *)
(* as its type needs, at no higher level than its sources give it, and no  *)
(* plan rests more claims on one paper alone than allowed                  *)
(* (enforce_claim_evidence_gate, claim_evidence_gate_node).                *)
THEOREM GatedClaimsHold == ClaimsSpec => []ClaimsHold
<1>1. ClaimsSpec => []ClaimsInv
  BY ClaimsInitInv, ClaimsStepInv, PTL DEF ClaimsSpec
<1> QED
  BY <1>1, ClaimsInvHolds, PTL

(* A claim the model did not find entailed reaches the writer only if      *)
(* another planned claim has its id, or if it is planned under an id the   *)
(* coverage of references gives: the verdicts are kept by id               *)
(* (_filter_non_entailed_claims), so that of two claims of one route that  *)
(* begin alike either is held to the last verdict on both.                 *)
THEOREM RefusalsDoBind == ClaimsSpec => RefusalsBind
<1>1. ClaimsSpec => []ClaimsInv
  BY ClaimsInitInv, ClaimsStepInv, PTL DEF ClaimsSpec
<1>2. ClaimsInv /\ [ClaimsNext]_claimVars =>
        [stage' = "gated" =>
           \A i \in DOMAIN plans' : \A c \in ToSet(plans'[i].claims) \cap refused' : Shared(c.id)]_claimVars
  <2> SUFFICES ASSUME ClaimsInv, ClaimsNext, stage' = "gated",
                      NEW i \in DOMAIN plans', NEW c \in ToSet(plans'[i].claims) \cap refused'
               PROVE  Shared(c.id)
    OBVIOUS
  <2>1. CASE Gate
    BY <2>1, GateTold
  <2>2. CASE PlanClaims \/ PlanFails \/ GateFails
    BY <2>2 DEF PlanClaims, PlanFails, GateFails
  <2> QED
    BY <2>1, <2>2 DEF ClaimsNext
<1> QED
  BY <1>1, <1>2, PTL DEF ClaimsSpec, RefusalsBind

-----------------------------------------------------------------------------
(* The sections.  A checkpoint carries the fingerprint of the plan after   *)
(* the merging, while its text was written from the prompt before it, in   *)
(* this writing or in an earlier one.  The invariant therefore relates the *)
(* two for every checkpoint, accepted or not: they agree on the allocation *)
(* and the claims, the papers only grew, and of the papers the text was    *)
(* written from the draft states no more.                                  *)
Plans == [Ids -> (SUBSET Known) \cup {None}]
Checkpoint == [text : SectionTexts, print : Prompts, valid : BOOLEAN]

(* The text x of section i was written from what its prompt would be made  *)
(* of under a plan, and from no paper the plan has not.                    *)
FromCurrent(x, i, plan) ==
  /\ x.from.papers \subseteq plan[i] /\ x.from.given = given[i] /\ x.from.claims = claims[i]
  /\ Draft(i, plan) \cap x.from.papers \subseteq x.from.draft

(* What the sections of a text may cite.                                   *)
Licensed(t) == UNION {planned[j] \cup given[j] : j \in Peers(t)}

TextSound(x, i, plan) ==
  /\ x \in SectionTexts /\ FromCurrent(x, i, plan)
  /\ x.cites \subseteq Licensed(Outline[i].text)
  /\ x.reused => given[i] \subseteq x.cites

CheckpointSound(v) ==
  /\ v \in Checkpoint
  /\ v.text.from.papers \subseteq v.print.papers
  /\ v.text.from.given = v.print.given /\ v.text.from.claims = v.print.claims
  /\ v.print.draft \cap v.text.from.papers \subseteq v.text.from.draft
  /\ v.valid => v.text.cites = v.print.given

(* The section i was dealt with in the writing under way.                  *)
Over(i, now, refilling) == now = 0 \/ refilling \/ Outline[i].text < now

SectionsTypeOK ==
  /\ planned \in [Ids -> SUBSET Known]
  /\ many \in BOOLEAN /\ given \in [Ids -> SUBSET Known] /\ claims \in [Ids -> {1} \cup Versions]
  /\ targets \subseteq Ids /\ force \in BOOLEAN
  /\ at \in Nat /\ filling \in BOOLEAN
  /\ supports \in Plans /\ texts = [i \in Ids |-> texts[i]]
  /\ writes \in Nat

CheckpointsSound(of) ==
  /\ of = [i \in Ids |-> of[i]]
  /\ \A i \in Ids : of[i] # None => CheckpointSound(of[i])
VerifiedValid == \A i \in Ids : verified[i] # None => verified[i].valid
TextsSound == \A i \in Ids : texts[i] # None => TextSound(texts[i], i, supports)
PlansWhole ==
  \A i \in Ids : at # 0 /\ ~Over(i, at, filling) => supports[i] = planned[i]
NothingLost ==
  \A i \in Ids : writes > 0 /\ Over(i, at, filling) =>
    (texts[i] = None => Draft(i, planned) = {})

SectionsInv ==
  /\ SectionsTypeOK /\ CheckpointsSound(candidates) /\ CheckpointsSound(verified)
  /\ VerifiedValid /\ TextsSound /\ PlansWhole /\ NothingLost
-----------------------------------------------------------------------------
(* Papers, prompts and drafts                                              *)

LEMMA PlannedKnown ==
  ASSUME SectionsTypeOK
  PROVE  planned \in Plans /\ \A i \in Ids : planned[i] \subseteq Known /\ planned[i] # None
BY NoneAssumption DEF SectionsTypeOK, Plans

LEMMA DraftOfPlan == \A i \in Ids : \A plan : Draft(i, plan) \subseteq plan[i]
BY DEF Draft, Stated

LEMMA PromptNow ==
  ASSUME SectionsTypeOK, NEW i \in Ids
  PROVE  /\ Prompt(i, planned) \in Prompts
         /\ Prompt(i, planned).papers = planned[i] /\ Prompt(i, planned).given = given[i]
         /\ Prompt(i, planned).claims = claims[i] /\ Prompt(i, planned).draft = Draft(i, planned)
<1>1. Draft(i, planned) \subseteq Known /\ planned[i] \subseteq Known
  BY DraftOfPlan, PlannedKnown
<1>2. given[i] \subseteq Known /\ claims[i] \in {1} \cup Versions
  BY DEF SectionsTypeOK
<1> QED
  BY <1>1, <1>2 DEF Prompt, Prompts

(* A plan that only gained papers of the same text, and lost no section    *)
(* that had something to state.                                            *)
Gained(t, plan) ==
  \A i \in Peers(t) :
    /\ plan[i] = None => Draft(i, planned) = {}
    /\ plan[i] # None => planned[i] \subseteq plan[i]
                         /\ plan[i] \subseteq UNION {planned[j] : j \in Peers(t)}

LEMMA PromptedShrinks ==
  ASSUME SectionsTypeOK, NEW t, NEW plan, Gained(t, plan)
  PROVE  Prompted(t, plan) \subseteq Prompted(t, planned)
<1>1. Peers(t) \subseteq Ids
  BY DEF Peers
<1>2. \A j \in Peers(t) : planned[j] # None
  BY <1>1, PlannedKnown
<1>3. UNION {plan[i] : i \in {j \in Peers(t) : plan[j] # None}}
        \subseteq UNION {planned[i] : i \in {j \in Peers(t) : planned[j] # None}}
  <2> SUFFICES ASSUME NEW i \in Peers(t), plan[i] # None, NEW p \in plan[i]
               PROVE  p \in UNION {planned[k] : k \in {j \in Peers(t) : planned[j] # None}}
    OBVIOUS
  <2>1. PICK j \in Peers(t) : p \in planned[j]
    BY DEF Gained
  <2> QED
    BY <2>1, <1>2
<1> QED
  BY <1>3 DEF Prompted

(* The merging adds no statement of a paper a section had before, and of a *)
(* theme it drops there was nothing to state.                              *)
LEMMA DraftShrinks ==
  ASSUME SectionsTypeOK, NEW t, NEW plan, Gained(t, plan), NEW i \in Peers(t)
  PROVE  Draft(i, plan) \cap planned[i] \subseteq Draft(i, planned)
<1> SUFFICES ASSUME NEW p \in Draft(i, plan), p \in planned[i]
             PROVE  p \in Draft(i, planned)
  OBVIOUS
<1>1. Outline[i].text = t /\ Peers(t) \subseteq Ids
  BY DEF Peers
<1>2. p \in planned[i] \cap Statable /\ p \in Prompted(t, planned)
  BY <1>1, PromptedShrinks DEF Draft, Stated
<1>3. CASE Outline[i].role # "overview"
  BY <1>1, <1>2, <1>3 DEF Draft, Stated
<1>4. CASE Outline[i].role = "overview"
  <2>1. p \notin Themes(t, plan)
    BY <1>1, <1>4 DEF Draft
  <2>2. p \notin Themes(t, planned)
    <3> SUFFICES ASSUME NEW j \in Peers(t), Outline[j].role = "theme", p \in planned[j]
                 PROVE  FALSE
      BY DEF Themes
    <3>1. plan[j] = None
      BY <2>1 DEF Themes, Gained
    <3>2. Draft(j, planned) = {} /\ Outline[j].text = t
      BY <3>1 DEF Gained, Peers
    <3>3. p \in Draft(j, planned)
      BY <1>2, <3>2 DEF Draft, Stated
    <3> QED
      BY <3>2, <3>3
  <2> QED
    BY <1>1, <1>2, <2>2 DEF Draft, Stated
<1> QED
  BY <1>3, <1>4

(* A draft depends on the plan of its own text only.                       *)
LEMMA DraftLocal ==
  ASSUME NEW i \in Ids, NEW one, NEW other,
         \A j \in Peers(Outline[i].text) : one[j] = other[j]
  PROVE  Draft(i, one) = Draft(i, other)
<1> DEFINE t == Outline[i].text
<1>1. i \in Peers(t)
  BY DEF Peers
<1>2. {j \in Peers(t) : one[j] # None} = {j \in Peers(t) : other[j] # None}
  OBVIOUS
<1>3. UNION {one[j] : j \in {k \in Peers(t) : one[k] # None}}
        = UNION {other[j] : j \in {k \in Peers(t) : other[k] # None}}
  BY <1>2
<1>4. Prompted(t, one) = Prompted(t, other)
  BY <1>3 DEF Prompted
<1>5. {k \in Peers(t) : Outline[k].role = "theme" /\ one[k] # None}
        = {k \in Peers(t) : Outline[k].role = "theme" /\ other[k] # None}
  OBVIOUS
<1>6. Themes(t, one) = Themes(t, other)
  BY <1>5 DEF Themes
<1> QED
  BY <1>1, <1>4, <1>6 DEF Draft, Stated

(* A text that stands under the plan of the writing stands under what the  *)
(* merging made of it.                                                     *)
LEMMA GainedKeeps ==
  ASSUME SectionsTypeOK, NEW t, NEW plan, Gained(t, plan), NEW i \in Peers(t), plan[i] # None,
         NEW x, TextSound(x, i, planned)
  PROVE  TextSound(x, i, plan)
<1>1. planned[i] \subseteq plan[i]
  BY DEF Gained
<1>2. x.from.papers \subseteq planned[i]
  BY DEF TextSound, FromCurrent
<1>3. Draft(i, plan) \cap x.from.papers \subseteq Draft(i, planned) \cap x.from.papers
  BY <1>2, DraftShrinks
<1>4. Draft(i, planned) \cap x.from.papers \subseteq x.from.draft
  BY DEF TextSound, FromCurrent
<1>5. FromCurrent(x, i, plan)
  BY <1>1, <1>2, <1>3, <1>4 DEF TextSound, FromCurrent
<1> QED
  BY <1>5 DEF TextSound
-----------------------------------------------------------------------------
(* What a section becomes                                                  *)

LEMMA WrittenSound ==
  ASSUME SectionsTypeOK, NEW i \in Ids, NEW cites \in SUBSET Known,
         cites \subseteq Licensed(Outline[i].text), NEW kind \in {"good", "rough", "bare"}
  PROVE  TextSound(Written(i, cites, kind), i, planned)
<1>1. PICK x : x = Written(i, cites, kind)
  OBVIOUS
<1>2. PICK prompt \in Prompts : prompt = Prompt(i, planned)
  BY PromptNow
<1>3. x = [cites |-> cites, kind |-> kind, reused |-> FALSE, from |-> prompt]
  BY <1>1, <1>2 DEF Written
<1>4. x \in SectionTexts
  BY <1>3 DEF SectionTexts
<1>5. FromCurrent(x, i, planned)
  BY <1>2, <1>3, PromptNow DEF FromCurrent
<1> QED
  BY <1>1, <1>3, <1>4, <1>5 DEF TextSound

LEMMA LicensedOwn ==
  ASSUME SectionsTypeOK, NEW i \in Ids
  PROVE  /\ Draft(i, planned) \subseteq Licensed(Outline[i].text)
         /\ given[i] \subseteq Licensed(Outline[i].text)
         /\ Draft(i, planned) \subseteq Known
BY DraftOfPlan, PlannedKnown DEF Licensed, Peers

(* A checkpoint whose fingerprint is the one of a plan holds a text that   *)
(* may stand under this plan.                                              *)
LEMMA ReusedSound ==
  ASSUME SectionsTypeOK, CheckpointsSound(verified), VerifiedValid,
         NEW i \in Ids, NEW plan, Reusable(i, plan)
  PROVE  TextSound([verified[i].text EXCEPT !.reused = TRUE], i, plan)
<1>1. PICK v : v = verified[i]
  OBVIOUS
<1>2. v # None /\ v.print = Prompt(i, plan)
  BY <1>1 DEF Reusable, Fingerprint
<1>3. CheckpointSound(v) /\ v.valid
  BY <1>1, <1>2 DEF CheckpointsSound, VerifiedValid
<1>4. PICK y : y = [v.text EXCEPT !.reused = TRUE]
  OBVIOUS
<1>5. v.print.papers = plan[i] /\ v.print.given = given[i] /\ v.print.claims = claims[i]
      /\ v.print.draft = Draft(i, plan)
  BY <1>2 DEF Prompt
<1>6. y \in SectionTexts /\ y.from = v.text.from /\ y.cites = given[i]
  BY <1>3, <1>4, <1>5 DEF CheckpointSound, Checkpoint, SectionTexts
<1>7. FromCurrent(y, i, plan)
  BY <1>3, <1>5, <1>6 DEF CheckpointSound, FromCurrent
<1>8. TextSound(y, i, plan)
  BY <1>6, <1>7, LicensedOwn DEF TextSound
<1> QED
  BY <1>1, <1>4, <1>8

OutcomeSound(o, i) ==
  /\ o = [text |-> o.text, failed |-> o.failed] /\ o.failed \in BOOLEAN
  /\ o.text # None => TextSound(o.text, i, planned)

LEMMA OutcomesSound ==
  ASSUME SectionsTypeOK, CheckpointsSound(verified), VerifiedValid,
         NEW i \in Ids, NEW o \in Outcomes(i)
  PROVE  OutcomeSound(o, i)
<1>1. CASE Reusable(i, planned)
  <2>1. o = [text |-> [verified[i].text EXCEPT !.reused = TRUE], failed |-> FALSE]
    BY <1>1 DEF Outcomes
  <2>2. TextSound([verified[i].text EXCEPT !.reused = TRUE], i, planned)
    BY <1>1, ReusedSound
  <2> QED
    BY <2>1, <2>2 DEF OutcomeSound
<1>2. CASE ~Reusable(i, planned)
  <2>1. PICK required : required = Draft(i, planned)
    OBVIOUS
  <2>2. \E failed \in BOOLEAN :
          \/ o = [text |-> None, failed |-> failed]
          \/ \E cites \in SUBSET required, kind \in {"good", "rough"} :
               o = [text |-> Written(i, cites, kind), failed |-> failed]
    <3>1. CASE required = {} /\ ~Forced(i)
      <4>1. o = [text |-> Written(i, {}, "good"), failed |-> FALSE]
        BY <1>2, <2>1, <3>1 DEF Outcomes
      <4> QED
        BY <4>1
    <3>2. CASE ~(required = {} /\ ~Forced(i))
      <4>1. \/ \E x \in {Written(i, required, "good")} \cup Rough(i, required) :
                 o = [text |-> x, failed |-> FALSE]
            \/ \E x \in {None, Written(i, required, "good"), Written(i, required, "rough")} :
                 o = [text |-> x, failed |-> TRUE]
        BY <1>2, <2>1, <3>2 DEF Outcomes
      <4>2. \A x \in Rough(i, required) : \E cites \in SUBSET required : x = Written(i, cites, "rough")
        BY DEF Rough
      <4> QED
        BY <4>1, <4>2
    <3> QED
      BY <3>1, <3>2
  <2>3. PICK failed \in BOOLEAN :
          \/ o = [text |-> None, failed |-> failed]
          \/ \E cites \in SUBSET required, kind \in {"good", "rough"} :
               o = [text |-> Written(i, cites, kind), failed |-> failed]
    BY <2>2
  <2>4. CASE o = [text |-> None, failed |-> failed]
    BY <2>4 DEF OutcomeSound
  <2>5. CASE \E cites \in SUBSET required, kind \in {"good", "rough"} :
               o = [text |-> Written(i, cites, kind), failed |-> failed]
    <3>1. PICK cites \in SUBSET required, kind \in {"good", "rough"} :
            o = [text |-> Written(i, cites, kind), failed |-> failed]
      BY <2>5
    <3>2. TextSound(Written(i, cites, kind), i, planned)
      BY <2>1, LicensedOwn, WrittenSound
    <3> QED
      BY <3>1, <3>2 DEF OutcomeSound
  <2> QED
    BY <2>3, <2>4, <2>5
<1> QED
  BY <1>1, <1>2
-----------------------------------------------------------------------------
(* What a text becomes                                                     *)

AnswerSound(t, a) ==
  /\ a.plan \in Plans /\ a.texts = [i \in Ids |-> a.texts[i]]
  /\ \A i \in Ids \ Peers(t) : a.plan[i] = supports[i] /\ a.texts[i] = texts[i]
  /\ Gained(t, a.plan)
  /\ \A i \in Peers(t) : /\ a.texts[i] = None => a.plan[i] = None
                         /\ a.texts[i] # None => /\ a.plan[i] # None
                                                 /\ TextSound(a.texts[i], i, a.plan)

LEMMA KeptPlan ==
  ASSUME SectionsTypeOK, NEW t, \A i \in Peers(t) : supports[i] = planned[i]
  PROVE  supports \in Plans /\ Gained(t, supports)
BY PlannedKnown DEF SectionsTypeOK, Gained, Peers

LEMMA AsWholeSound ==
  ASSUME SectionsTypeOK, NEW t, \A i \in Peers(t) : supports[i] = planned[i],
         NEW a \in AsWhole(t)
  PROVE  AnswerSound(t, a)
<1>1. Peers(t) \subseteq Ids /\ \A i \in Peers(t) : Outline[i].text = t
  BY DEF Peers
<1>2. PICK allowed : allowed = UNION {supports[i] \cup given[i] : i \in Peers(t)}
  OBVIOUS
<1>3. allowed = Licensed(t) /\ allowed \subseteq Known
  BY <1>1, <1>2, PlannedKnown DEF Licensed, SectionsTypeOK
<1>4. PICK f \in [Peers(t) -> SUBSET allowed] \cup {[i \in Peers(t) |-> Draft(i, planned)]},
           kind \in {"good", "rough"} :
        a = [plan |-> supports, texts |-> [i \in Ids |->
               IF i \in Peers(t) THEN Written(i, f[i], kind) ELSE texts[i]]]
  BY <1>2 DEF AsWhole
<1>5. \A i \in Peers(t) : f[i] \subseteq Known /\ f[i] \subseteq Licensed(t)
  <2> TAKE i \in Peers(t)
  <2>1. f[i] \subseteq allowed \/ f[i] = Draft(i, planned)
    BY <1>4
  <2> QED
    BY <1>1, <1>3, <2>1, LicensedOwn
<1>8. supports \in Plans /\ Gained(t, supports) /\ \A i \in Peers(t) : supports[i] # None
  BY <1>1, KeptPlan, PlannedKnown
<1>6. \A i \in Peers(t) : TextSound(Written(i, f[i], kind), i, supports)
  BY <1>1, <1>5, <1>8, WrittenSound, GainedKeeps
<1>7. \A i \in Peers(t) : Written(i, f[i], kind) # None
  BY <1>6, NoneAssumption DEF TextSound
<1>9. /\ a.plan = supports
      /\ a.texts = [i \in Ids |-> IF i \in Peers(t) THEN Written(i, f[i], kind) ELSE texts[i]]
  BY <1>4
<1> QED
  BY <1>1, <1>6, <1>7, <1>8, <1>9 DEF AnswerSound

LEMMA SurvivorsArePeers == \A t, done : Survivors(t, done) \subseteq Peers(t)
BY DEF Survivors

LEMMA MergedSound ==
  ASSUME SectionsTypeOK, NEW t, \A i \in Peers(t) : supports[i] = planned[i],
         NEW done, NEW plan \in Merged(t, done)
  PROVE  /\ plan \in Plans /\ Gained(t, plan)
         /\ \A i \in Ids \ Peers(t) : plan[i] = supports[i]
<1>1. Peers(t) \subseteq Ids /\ supports \in Plans
  BY DEF Peers, SectionsTypeOK
<1>2. PICK among : among = Survivors(t, done)
  OBVIOUS
<1>3. CASE among = {}
  <2>1. plan = supports
    BY <1>2, <1>3 DEF Merged
  <2> QED
    BY <2>1, KeptPlan
<1>4. CASE among # {}
  <2>1. PICK to \in [Peers(t) -> among] :
          plan = [i \in Ids |->
            IF i \notin Peers(t) THEN supports[i]
            ELSE IF done[i].failed /\ Draft(i, planned) = {} THEN None
            ELSE supports[i] \cup UNION {Moved(j, done[j]) : j \in {k \in Peers(t) : to[k] = i}}]
    BY <1>2, <1>4 DEF Merged
  <2>2. \A j \in Peers(t) : Moved(j, done[j]) \subseteq planned[j]
    BY DraftOfPlan DEF Moved, Peers
  <2>3. \A i \in Peers(t) :
          \/ plan[i] = None /\ Draft(i, planned) = {}
          \/ /\ planned[i] \subseteq plan[i]
             /\ plan[i] \subseteq UNION {planned[j] : j \in Peers(t)}
    <3> TAKE i \in Peers(t)
    <3>1. CASE done[i].failed /\ Draft(i, planned) = {}
      BY <1>1, <2>1, <3>1
    <3>2. CASE ~(done[i].failed /\ Draft(i, planned) = {})
      <4>1. plan[i] = planned[i]
                \cup UNION {Moved(j, done[j]) : j \in {k \in Peers(t) : to[k] = i}}
        BY <1>1, <2>1, <3>2
      <4> QED
        BY <2>2, <4>1
    <3> QED
      BY <3>1, <3>2
  <2>4. UNION {planned[j] : j \in Peers(t)} \subseteq Known
    BY <1>1, PlannedKnown
  <2>5. ASSUME NEW i \in Ids
        PROVE  plan[i] \in (SUBSET Known) \cup {None}
    <3>1. CASE i \in Peers(t)
      BY <2>3, <2>4, <3>1
    <3>2. CASE i \notin Peers(t)
      <4>1. plan[i] = supports[i]
        BY <2>1, <3>2
      <4> QED
        BY <1>1, <4>1 DEF Plans
    <3> QED
      BY <3>1, <3>2
  <2>6. plan \in Plans
    BY <2>1, <2>5 DEF Plans
  <2>7. Gained(t, plan)
    <3> SUFFICES ASSUME NEW i \in Peers(t)
                 PROVE  /\ plan[i] = None => Draft(i, planned) = {}
                        /\ plan[i] # None => planned[i] \subseteq plan[i]
                             /\ plan[i] \subseteq UNION {planned[j] : j \in Peers(t)}
      BY DEF Gained
    <3>1. CASE plan[i] = None /\ Draft(i, planned) = {}
      BY <3>1
    <3>2. CASE /\ planned[i] \subseteq plan[i]
               /\ plan[i] \subseteq UNION {planned[j] : j \in Peers(t)}
      BY <2>4, <3>2, NoneAssumption
    <3> QED
      BY <2>3, <3>1, <3>2
  <2> QED
    BY <2>1, <2>6, <2>7
<1> QED
  BY <1>3, <1>4

LEMMA FilledSound ==
  ASSUME SectionsTypeOK, NEW i \in Ids, NEW done, NEW rescued,
         done[i].text # None => TextSound(done[i].text, i, planned)
  PROVE  TextSound(Filled(i, done, rescued), i, planned)
<1>1. TextSound(Written(i, Draft(i, planned), "rough"), i, planned)
  BY LicensedOwn, WrittenSound
<1>2. TextSound(Written(i, {}, "bare"), i, planned)
  BY WrittenSound
<1> QED
  BY <1>1, <1>2 DEF Filled

LEMMA BySectionSound ==
  ASSUME SectionsTypeOK, CheckpointsSound(verified), VerifiedValid,
         NEW t, \A i \in Peers(t) : supports[i] = planned[i],
         NEW a \in BySection(t)
  PROVE  AnswerSound(t, a)
<1>1. Peers(t) \subseteq Ids
  BY DEF Peers
<1>d. PICK done \in Rewritten(t) : a \in Completed(t, done)
  BY DEF BySection
<1>e. \A i \in Peers(t) : done[i] \in Outcomes(i)
  BY DEF Rewritten
<1>2. PICK plan \in Merged(t, done), rescued \in Rescuable(t, done) :
        a = [plan |-> plan, texts |-> [i \in Ids |->
          IF i \notin Peers(t) THEN texts[i]
          ELSE IF plan[i] = None THEN None ELSE Filled(i, done, rescued)]]
  BY <1>d DEF Completed
<1>3. /\ plan \in Plans /\ Gained(t, plan)
      /\ \A i \in Ids \ Peers(t) : plan[i] = supports[i]
  BY MergedSound
<1>4. \A i \in Peers(t) : TextSound(Filled(i, done, rescued), i, planned)
  BY <1>1, <1>e, OutcomesSound, FilledSound DEF OutcomeSound
<1>g. \A i \in Peers(t) : plan[i] # None => TextSound(Filled(i, done, rescued), i, plan)
  BY <1>3, <1>4, GainedKeeps
<1>5. \A i \in Peers(t) : Filled(i, done, rescued) # None
  BY <1>4, NoneAssumption DEF TextSound
<1>6. /\ a.plan = plan
      /\ a.texts = [i \in Ids |->
           IF i \notin Peers(t) THEN texts[i]
           ELSE IF plan[i] = None THEN None ELSE Filled(i, done, rescued)]
  BY <1>2
<1> QED
  BY <1>1, <1>3, <1>g, <1>5, <1>6 DEF AnswerSound
-----------------------------------------------------------------------------
(* What becomes of the checkpoints                                         *)

LEMMA PromptOf ==
  ASSUME SectionsTypeOK, NEW t, NEW plan \in Plans, Gained(t, plan),
         NEW i \in Peers(t), plan[i] # None
  PROVE  /\ Prompt(i, plan) \in Prompts
         /\ Prompt(i, plan).papers = plan[i] /\ Prompt(i, plan).given = given[i]
         /\ Prompt(i, plan).claims = claims[i]
         /\ Prompt(i, plan).draft = Draft(i, plan)
<1>0. i \in Ids
  BY DEF Peers
<1>1. i \in Ids /\ plan[i] \subseteq Known /\ Draft(i, plan) \subseteq plan[i]
  BY <1>0, DraftOfPlan DEF Plans
<1>2. given[i] \subseteq Known /\ claims[i] \in {1} \cup Versions
  BY <1>1 DEF SectionsTypeOK
<1> QED
  BY <1>1, <1>2 DEF Prompt, Prompts

LEMMA CandidateSound ==
  ASSUME SectionsTypeOK,
         NEW t, NEW plan \in Plans, Gained(t, plan), NEW i \in Peers(t), plan[i] # None,
         NEW x, TextSound(x, i, plan)
  PROVE  CheckpointSound(Candidate(i, plan, x))
<1>2. PICK prompt \in Prompts : prompt = Prompt(i, plan)
  BY PromptOf
<1>3. /\ prompt.papers = plan[i] /\ prompt.given = given[i] /\ prompt.claims = claims[i]
      /\ prompt.draft = Draft(i, plan)
  BY <1>2, PromptOf
<1>6. PICK kept : kept = [x EXCEPT !.reused = FALSE]
  OBVIOUS
<1>7. kept \in SectionTexts /\ kept.from = x.from /\ kept.cites = x.cites
  BY <1>6 DEF TextSound, SectionTexts
<1>8. PICK sound \in BOOLEAN : sound = (x.kind = "good" /\ x.cites = given[i])
  OBVIOUS
<1>9. Candidate(i, plan, x) = [text |-> kept, print |-> prompt, valid |-> sound]
  BY <1>2, <1>6, <1>8 DEF Candidate, Fingerprint
<1>10. PICK v : v = Candidate(i, plan, x)
  OBVIOUS
<1>11. v.text = kept /\ v.print = prompt /\ v.valid = sound /\ v \in Checkpoint
  BY <1>7, <1>9, <1>10 DEF Checkpoint
<1>12. CheckpointSound(v)
  BY <1>3, <1>7, <1>8, <1>11 DEF CheckpointSound, TextSound, FromCurrent
<1> QED
  BY <1>10, <1>12

(* What is delivered in place of an answer's texts is as sound as they.    *)
LEMMA ReplacedSound ==
  ASSUME SectionsTypeOK, CheckpointsSound(verified), VerifiedValid,
         NEW t, NEW a, AnswerSound(t, a), NEW written,
         written \in {Replaced(t, a.plan, a.texts), a.texts}
  PROVE  AnswerSound(t, [plan |-> a.plan, texts |-> written])
<1>1. Peers(t) \subseteq Ids
  BY DEF Peers
<1>2. CASE written = a.texts
  BY <1>2 DEF AnswerSound
<1>3. CASE written = Replaced(t, a.plan, a.texts)
  <2>1. written = [i \in Ids |->
          IF i \in Peers(t) /\ a.plan[i] # None /\ a.texts[i] # None /\ Reusable(i, a.plan)
          THEN [verified[i].text EXCEPT !.reused = TRUE] ELSE a.texts[i]]
    BY <1>3 DEF Replaced
  <2>2. ASSUME NEW i \in Peers(t)
        PROVE  /\ written[i] = None => a.plan[i] = None
               /\ written[i] # None => a.plan[i] # None /\ TextSound(written[i], i, a.plan)
    <3>1. CASE a.plan[i] # None /\ a.texts[i] # None /\ Reusable(i, a.plan)
      <4>1. TextSound([verified[i].text EXCEPT !.reused = TRUE], i, a.plan)
        BY <1>1, <3>1, ReusedSound
      <4>2. written[i] = [verified[i].text EXCEPT !.reused = TRUE]
        BY <1>1, <2>1, <3>1
      <4> QED
        BY <3>1, <4>1, <4>2, NoneAssumption DEF TextSound
    <3>2. CASE ~(a.plan[i] # None /\ a.texts[i] # None /\ Reusable(i, a.plan))
      <4>1. written[i] = a.texts[i]
        BY <1>1, <2>1, <3>2
      <4> QED
        BY <4>1 DEF AnswerSound
    <3> QED
      BY <3>1, <3>2
  <2>3. /\ written = [i \in Ids |-> written[i]]
        /\ \A i \in Ids \ Peers(t) : written[i] = a.texts[i]
    BY <2>1
  <2> QED
    BY <2>2, <2>3 DEF AnswerSound
<1> QED
  BY <1>2, <1>3

LEMMA CandidatesSound ==
  ASSUME SectionsTypeOK, CheckpointsSound(candidates), CheckpointsSound(verified), VerifiedValid,
         NEW t, NEW a, AnswerSound(t, a)
  PROVE  CheckpointsSound(Candidates(t, a.plan, a.texts))
<1>1. PICK next : next = Candidates(t, a.plan, a.texts)
  OBVIOUS
<1>2. next = [i \in Ids |-> IF i \in Peers(t) /\ a.plan[i] # None /\ a.texts[i] # None
                            THEN Candidate(i, a.plan, a.texts[i]) ELSE candidates[i]]
  BY <1>1 DEF Candidates
<1>3. next = [i \in Ids |-> next[i]]
  BY <1>2
<1>4. ASSUME NEW i \in Ids, next[i] # None
      PROVE  CheckpointSound(next[i])
  <2>1. CASE i \in Peers(t) /\ a.plan[i] # None /\ a.texts[i] # None
    <3>1. /\ a.plan \in Plans /\ Gained(t, a.plan) /\ TextSound(a.texts[i], i, a.plan)
      BY <2>1 DEF AnswerSound
    <3>2. CheckpointSound(Candidate(i, a.plan, a.texts[i]))
      BY <2>1, <3>1, CandidateSound
    <3> QED
      BY <1>2, <2>1, <3>2
  <2>2. CASE ~(i \in Peers(t) /\ a.plan[i] # None /\ a.texts[i] # None)
    BY <1>2, <1>4, <2>2 DEF CheckpointsSound
  <2> QED
    BY <2>1, <2>2
<1> QED
  BY <1>1, <1>3, <1>4 DEF CheckpointsSound

LEMMA PromotedSound ==
  ASSUME CheckpointsSound(verified), VerifiedValid, NEW next, CheckpointsSound(next),
         NEW t, NEW plan, NEW flagged, NEW of, of = Promoted(t, plan, next, flagged)
  PROVE  CheckpointsSound(of) /\ \A i \in Ids : of[i] # None => of[i].valid
<1>1. of = [i \in Ids |-> IF /\ i \in Peers(t) \ flagged /\ plan[i] # None
                             /\ next[i] # None /\ next[i].valid
                          THEN next[i] ELSE verified[i]]
  BY DEF Promoted
<1>2. \A i \in Ids : \/ of[i] = next[i] /\ next[i].valid
                     \/ of[i] = verified[i]
  BY <1>1
<1>3. of = [i \in Ids |-> of[i]]
  BY <1>1
<1> QED
  BY <1>2, <1>3 DEF CheckpointsSound, VerifiedValid
-----------------------------------------------------------------------------
(* The steps                                                               *)

LEMMA TextNumbers ==
  /\ Cardinality(Texts) \in Nat /\ Texts = 1 .. Cardinality(Texts)
  /\ \A i \in Ids : Outline[i].text \in Texts /\ Outline[i].text \in Nat
<1>1. Cardinality(Texts) \in Nat /\ Texts = 1 .. Cardinality(Texts)
  BY SectionsAssumption
<1>2. \A i \in Ids : Outline[i].text \in Texts
  BY DEF Texts
<1> QED
  BY <1>1, <1>2

LEMMA DraftSteady ==
  ASSUME given' = given, NEW i, NEW plan
  PROVE  Draft(i, plan)' = Draft(i, plan)
BY DEF Draft, Stated, Prompted, Themes

LEMMA PlannedSteady ==
  ASSUME UNCHANGED inputs, NEW i
  PROVE  Draft(i, planned)' = Draft(i, planned)
BY DEF Draft, Stated, Prompted, Themes, inputs

(* A text stays sound under a plan while the inputs of the writing stay.   *)
LEMMA TextSteady ==
  ASSUME UNCHANGED inputs, NEW i, NEW x, NEW plan, plan = supports', TextSound(x, i, plan)
  PROVE  TextSound(x, i, supports)'
<1>1. given' = given /\ claims' = claims /\ planned' = planned
  BY DEF inputs
<1>2. Draft(i, supports)' = Draft(i, plan)
  BY <1>1 DEF Draft, Stated, Prompted, Themes
<1>3. Licensed(Outline[i].text)' = Licensed(Outline[i].text)
  BY <1>1 DEF Licensed
<1>4. FromCurrent(x, i, supports)'
  BY <1>1, <1>2 DEF TextSound, FromCurrent
<1> QED
  BY <1>1, <1>3, <1>4 DEF TextSound

(* What stands under a plan stands under another that is the same for its  *)
(* text.                                                                   *)
LEMMA ElsewhereKeeps ==
  ASSUME NEW i \in Ids, NEW x, NEW one, NEW other, TextSound(x, i, one),
         \A j \in Peers(Outline[i].text) : one[j] = other[j]
  PROVE  TextSound(x, i, other)
<1>1. Draft(i, one) = Draft(i, other)
  BY DraftLocal
<1>2. one[i] = other[i]
  BY DEF Peers
<1>3. FromCurrent(x, i, other)
  BY <1>1, <1>2 DEF TextSound, FromCurrent
<1> QED
  BY <1>3 DEF TextSound

LEMMA SectionsStart ==
  SectionsInit => SectionsInv
<1> SUFFICES ASSUME SectionsInit
             PROVE  SectionsInv
  OBVIOUS
<1>1. planned \in [Ids -> SUBSET Known] /\ planned \in Plans
  BY SectionsAssumption DEF SectionsInit, SectionsAssumption, Plans
<1>2. \A i \in Ids : candidates[i] = None /\ verified[i] = None /\ texts[i] = None
  BY DEF SectionsInit, Nothing
<1>3. SectionsTypeOK
  BY <1>1 DEF SectionsInit, SectionsTypeOK, Nothing
<1>4. CheckpointsSound(candidates) /\ CheckpointsSound(verified)
  BY <1>2 DEF SectionsInit, CheckpointsSound, Nothing
<1>5. VerifiedValid /\ TextsSound
  BY <1>2 DEF VerifiedValid, TextsSound
<1>6. PlansWhole /\ NothingLost
  BY DEF SectionsInit, PlansWhole, NothingLost
<1> QED
  BY <1>3, <1>4, <1>5, <1>6 DEF SectionsInv

LEMMA StartKeeps ==
  SectionsInv /\ Start => SectionsInv'
<1> SUFFICES ASSUME SectionsInv, Start
             PROVE  SectionsInv'
  OBVIOUS
<1>a. PICK a \in Allotments : planned' = a.papers /\ given' = a.given
  BY DEF Start
<1>1. \A i \in Ids : texts'[i] = None /\ supports'[i] = planned'[i]
  BY DEF Start, Nothing
<1>2. given' \in [Ids -> SUBSET Known] /\ planned' \in [Ids -> SUBSET Known]
  BY <1>a, SectionsAssumption DEF SectionsAssumption
<1>3. claims' \in [Ids -> {1} \cup Versions]
  BY DEF SectionsInv, SectionsTypeOK, Start
<1>4. targets' \subseteq Ids /\ force' \in BOOLEAN
  BY DEF Start
<1>5. supports' \in Plans /\ texts' = [i \in Ids |-> texts'[i]]
  BY <1>2 DEF Start, Nothing, Plans
<1>o. at' \in Nat /\ writes' \in Nat
  BY DEF SectionsInv, SectionsTypeOK, Start
<1>0. many' \in BOOLEAN /\ filling' \in BOOLEAN
  BY Zenon DEF SectionsInv, SectionsTypeOK, Start
<1>6. SectionsTypeOK'
  BY <1>o, <1>0, <1>2, <1>3, <1>4, <1>5 DEF SectionsTypeOK, Plans
<1>7. /\ CheckpointsSound(candidates)' /\ CheckpointsSound(verified)'
      /\ VerifiedValid'
  BY DEF SectionsInv, Start, CheckpointsSound, CheckpointSound, VerifiedValid
<1>8. TextsSound'
  BY <1>1 DEF TextsSound
<1>9. PlansWhole'
  BY <1>1 DEF PlansWhole
<1>10. NothingLost'
  BY TextNumbers DEF NothingLost, Over, Start
<1> QED
  BY <1>6, <1>7, <1>8, <1>9, <1>10 DEF SectionsInv

LEMMA WriteTextKeeps ==
  SectionsInv /\ WriteText => SectionsInv'
<1> SUFFICES ASSUME SectionsInv, WriteText
             PROVE  SectionsInv'
  OBVIOUS
<1>1. /\ SectionsTypeOK /\ CheckpointsSound(candidates) /\ CheckpointsSound(verified)
      /\ VerifiedValid /\ TextsSound /\ PlansWhole /\ NothingLost
  BY DEF SectionsInv
<1>2. at \in Texts /\ ~filling /\ UNCHANGED <<inputs, writes>>
  BY DEF WriteText
<1>3. PICK t : t = at
  OBVIOUS
<1>4. \A i \in Peers(t) : i \in Ids /\ Outline[i].text = t
  BY DEF Peers
<1>5. \A i \in Peers(t) : supports[i] = planned[i]
  BY <1>1, <1>2, <1>3, <1>4, TextNumbers DEF PlansWhole, Over
<1>6. PICK split \in BOOLEAN, answer \in BySection(t) \cup AsWhole(t) :
        \E written \in {IF split THEN Replaced(t, answer.plan, answer.texts) ELSE answer.texts} :
        \E next \in {IF split THEN Candidates(t, answer.plan, written) ELSE candidates} :
        \E flagged \in SUBSET {i \in Peers(t) : next[i] # None /\ next[i].valid} :
          /\ supports' = answer.plan /\ texts' = written /\ candidates' = next
          /\ verified' = Promoted(t, answer.plan, next, flagged)
  BY <1>3 DEF WriteText
<1>w. PICK written \in {Replaced(t, answer.plan, answer.texts), answer.texts} :
        \E next \in {Candidates(t, answer.plan, written), candidates} :
        \E flagged \in SUBSET {i \in Peers(t) : next[i] # None /\ next[i].valid} :
          /\ supports' = answer.plan /\ texts' = written /\ candidates' = next
          /\ verified' = Promoted(t, answer.plan, next, flagged)
  <2>1. CASE split
    BY <1>6, <2>1
  <2>2. CASE ~split
    BY <1>6, <2>2
  <2> QED
    BY <2>1, <2>2
<1>x. PICK a : a = [plan |-> answer.plan, texts |-> written]
  OBVIOUS
<1>n. PICK next \in {Candidates(t, answer.plan, written), candidates} :
        \E flagged \in SUBSET {i \in Peers(t) : next[i] # None /\ next[i].valid} :
          /\ supports' = answer.plan /\ texts' = written /\ candidates' = next
          /\ verified' = Promoted(t, answer.plan, next, flagged)
  BY <1>w, Zenon
<1>f. PICK flagged : /\ supports' = answer.plan /\ texts' = written /\ candidates' = next
                     /\ verified' = Promoted(t, answer.plan, next, flagged)
  BY <1>n, Zenon
<1>7. /\ next = Candidates(t, a.plan, a.texts) \/ next = candidates
      /\ supports' = a.plan /\ texts' = a.texts /\ candidates' = next
      /\ verified' = Promoted(t, a.plan, next, flagged)
  BY <1>n, <1>f, <1>x
<1>8. AnswerSound(t, a)
  <2>1. AnswerSound(t, answer)
    BY <1>1, <1>5, AsWholeSound, BySectionSound
  <2> QED
    BY <1>1, <1>w, <1>x, <2>1, ReplacedSound
<1>9. CheckpointsSound(next)
  BY <1>1, <1>7, <1>8, CandidatesSound
<1>10. PICK of : of = Promoted(t, a.plan, next, flagged)
  OBVIOUS
<1>11. CheckpointsSound(of) /\ \A i \in Ids : of[i] # None => of[i].valid
  BY <1>1, <1>9, <1>10, PromotedSound
<1>12. CheckpointsSound(candidates)' /\ CheckpointsSound(verified)' /\ VerifiedValid'
  <2>1. candidates' = next /\ verified' = of
    BY <1>7, <1>10
  <2>2. CheckpointsSound(candidates)'
    BY <2>1, <1>9 DEF CheckpointsSound, CheckpointSound
  <2>3. CheckpointsSound(verified)'
    BY <2>1, <1>11 DEF CheckpointsSound, CheckpointSound
  <2>4. VerifiedValid'
    BY <2>1, <1>11 DEF VerifiedValid
  <2> QED
    BY <2>2, <2>3, <2>4
<1>13. at' \in Nat /\ filling' \in BOOLEAN
  <2>1. at \in Nat /\ filling \in BOOLEAN
    BY <1>1 DEF SectionsTypeOK
  <2>2. (at' = at + 1 \/ at' = 1) /\ (filling' = filling \/ filling' = TRUE)
    BY DEF WriteText
  <2>3. at' \in Nat
    BY <2>1, <2>2
  <2>4. filling' \in BOOLEAN
    BY <2>1, <2>2, Zenon
  <2> QED
    BY <2>3, <2>4
<1>14. SectionsTypeOK'
  BY <1>1, <1>2, <1>7, <1>8, <1>13 DEF SectionsTypeOK, AnswerSound, inputs
<1>15. TextsSound'
  <2> SUFFICES ASSUME NEW i \in Ids, texts'[i] # None
               PROVE  TextSound(texts[i], i, supports)'
    BY DEF TextsSound
  <2>1. PICK x, plan : x = texts'[i] /\ plan = supports'
    OBVIOUS
  <2>2. TextSound(x, i, plan)
    <3>1. CASE i \in Peers(t)
      BY <1>7, <1>8, <2>1, <3>1 DEF AnswerSound
    <3>2. CASE i \notin Peers(t)
      <4>1. x = texts[i] /\ TextSound(x, i, supports)
        BY <1>1, <1>7, <1>8, <2>1, <3>2 DEF TextsSound, AnswerSound
      <4>2. \A j \in Peers(Outline[i].text) : j \in Ids /\ j \notin Peers(t)
        BY <3>2 DEF Peers
      <4>3. \A j \in Peers(Outline[i].text) : supports[j] = plan[j]
        BY <1>7, <1>8, <2>1, <4>2 DEF AnswerSound
      <4>4. PICK old : old = supports
        OBVIOUS
      <4> QED
        BY <4>1, <4>3, <4>4, ElsewhereKeeps
    <3> QED
      BY <3>1, <3>2
  <2>3. TextSound(x, i, supports)'
    BY <1>2, <2>1, <2>2, TextSteady
  <2>4. texts'[i] = x
    BY <2>1
  <2> QED
    BY <2>3, <2>4 DEF TextSound, FromCurrent
<1>16. \A i \in Ids : i \in Peers(t) <=> Outline[i].text = t
  BY DEF Peers
<1>17. PlansWhole'
  <2> SUFFICES ASSUME NEW i \in Ids, at' # 0, ~Over(i, at', filling')
               PROVE  supports'[i] = planned'[i]
    BY DEF PlansWhole, Over
  <2>1. at' = at + 1 /\ ~filling' /\ ~(Outline[i].text < at + 1)
    BY <1>2 DEF WriteText, Over
  <2>2. i \notin Peers(t) /\ ~Over(i, at, filling) /\ at # 0
    BY <1>1, <1>2, <1>3, <1>16, <2>1, TextNumbers DEF Over, SectionsTypeOK
  <2>3. planned' = planned
    BY <1>2 DEF inputs
  <2> QED
    BY <1>1, <1>7, <1>8, <2>2, <2>3 DEF PlansWhole, AnswerSound
<1>18. NothingLost'
  <2> SUFFICES ASSUME NEW i \in Ids, writes' > 0, Over(i, at', filling'), texts'[i] = None
               PROVE  Draft(i, planned)' = {}
    BY DEF NothingLost, Over
  <2>1. Outline[i].text = t \/ Over(i, at, filling)
    <3>1. CASE at + 1 \in Texts
      <4>1. Outline[i].text < at + 1
        BY <1>1, <1>2, <3>1 DEF WriteText, Over, SectionsTypeOK
      <4> QED
        BY <1>1, <1>3, <4>1, TextNumbers DEF Over, SectionsTypeOK
    <3>2. CASE at + 1 \notin Texts
      BY <1>1, <1>2, <1>3, <3>2, TextNumbers DEF Over, SectionsTypeOK
    <3> QED
      BY <3>1, <3>2
  <2>2. Draft(i, planned) = {}
    <3>1. CASE i \in Peers(t)
      BY <1>7, <1>8, <3>1 DEF AnswerSound, Gained
    <3>2. CASE i \notin Peers(t)
      <4>1. texts[i] = None /\ Over(i, at, filling) /\ writes > 0
        BY <1>2, <1>7, <1>8, <1>16, <2>1, <3>2 DEF AnswerSound
      <4> QED
        BY <1>1, <4>1 DEF NothingLost
    <3> QED
      BY <3>1, <3>2
  <2> QED
    BY <1>2, <2>2, PlannedSteady
<1> QED
  BY <1>12, <1>14, <1>15, <1>17, <1>18 DEF SectionsInv

LEMMA BackfillKeeps ==
  SectionsInv /\ Backfill => SectionsInv'
<1> SUFFICES ASSUME SectionsInv, Backfill
             PROVE  SectionsInv'
  OBVIOUS
<1>1. /\ SectionsTypeOK /\ CheckpointsSound(candidates) /\ CheckpointsSound(verified)
      /\ VerifiedValid /\ TextsSound /\ PlansWhole /\ NothingLost
  BY DEF SectionsInv
<1>2. /\ filling /\ at \in Texts
      /\ UNCHANGED <<inputs, supports, candidates, verified, writes>>
      /\ at' \in Nat /\ filling' \in BOOLEAN /\ (at' = 0 \/ filling')
  <2>1. at \in Nat /\ filling \in BOOLEAN
    BY <1>1 DEF SectionsTypeOK
  <2>2. filling /\ ((at' = at + 1 /\ filling' = filling) \/ (at' = 0 /\ filling' = FALSE))
    BY DEF Backfill
  <2>3. at \in Texts /\ UNCHANGED <<inputs, supports, candidates, verified, writes>>
    BY DEF Backfill
  <2>4. at' \in Nat
    <3>1. at' = at + 1 \/ at' = 0
      BY DEF Backfill
    <3> QED
      BY <2>1, <3>1
  <2>5. filling' \in BOOLEAN /\ (at' = 0 \/ filling')
    BY <2>1, <2>2, Zenon
  <2> QED
    BY <2>2, <2>3, <2>4, <2>5
<1>3. \E m \in SUBSET UNION {given[i] : i \in Peers(at)} :
      \E into \in [m -> {j \in Peers(at) : texts[j] # None}] :
        texts' = [i \in Ids |-> IF i \notin Range(into) THEN texts[i]
                    ELSE [texts[i] EXCEPT !.cites = @ \cup {p \in m : into[p] = i}]]
  <2>1. CASE UNCHANGED texts
    <3>1. texts' = [i \in Ids |-> texts[i]]
      BY <1>1, <2>1 DEF SectionsTypeOK
    <3>2. PICK into \in [{} -> {j \in Peers(at) : texts[j] # None}] : Range(into) = {}
      <4>1. [x \in {} |-> x] \in [{} -> {j \in Peers(at) : texts[j] # None}]
        OBVIOUS
      <4>2. Range([x \in {} |-> x]) = {}
        BY DEF Range
      <4> QED
        BY <4>1, <4>2
    <3>3. texts' = [i \in Ids |-> IF i \notin Range(into) THEN texts[i]
                      ELSE [texts[i] EXCEPT !.cites = @ \cup {p \in {} : into[p] = i}]]
      BY <3>1, <3>2
    <3> QED
      BY <3>2, <3>3
  <2>2. CASE ~UNCHANGED texts
    <3>1. Missing(at) \subseteq SUBSET UNION {given[i] : i \in Peers(at)}
      BY DEF Missing
    <3>2. \E m \in Missing(at) : \E into \in [m -> {j \in Peers(at) : texts[j] # None}] :
            texts' = [i \in Ids |-> IF i \notin Range(into) THEN texts[i]
                        ELSE [texts[i] EXCEPT !.cites = @ \cup {p \in m : into[p] = i}]]
      BY <2>2 DEF Backfill
    <3> QED
      BY <3>1, <3>2, Zenon
  <2> QED
    BY <2>1, <2>2
<1>m. PICK m \in SUBSET UNION {given[i] : i \in Peers(at)} :
      \E into \in [m -> {j \in Peers(at) : texts[j] # None}] :
        texts' = [i \in Ids |-> IF i \notin Range(into) THEN texts[i]
                    ELSE [texts[i] EXCEPT !.cites = @ \cup {p \in m : into[p] = i}]]
  BY <1>3
<1>4. PICK into \in [m -> {j \in Peers(at) : texts[j] # None}] :
        texts' = [i \in Ids |-> IF i \notin Range(into) THEN texts[i]
                    ELSE [texts[i] EXCEPT !.cites = @ \cup {p \in m : into[p] = i}]]
  BY <1>m
<1>5. \A i \in Range(into) : i \in Ids /\ Outline[i].text = at /\ texts[i] # None
  BY DEF Range, Peers
<1>6. m \subseteq Known /\ m \subseteq Licensed(at)
  BY <1>1 DEF SectionsTypeOK, Peers, Licensed
<1>7. ASSUME NEW i \in Range(into)
      PROVE  TextSound(texts'[i], i, supports)
  <2>1. PICK x : x = texts[i]
    OBVIOUS
  <2>2. /\ x \in SectionTexts /\ FromCurrent(x, i, supports) /\ x.cites \subseteq Licensed(at)
        /\ x.reused => given[i] \subseteq x.cites
    BY <1>1, <1>5, <2>1 DEF TextsSound, TextSound
  <2>3. PICK cites : cites = x.cites \cup {p \in m : into[p] = i}
    OBVIOUS
  <2>4. cites \subseteq Known /\ cites \subseteq Licensed(at)
    BY <1>6, <2>2, <2>3 DEF SectionTexts
  <2>5. PICK y : y = [x EXCEPT !.cites = cites]
    OBVIOUS
  <2>6. y \in SectionTexts /\ y.cites = cites /\ y.from = x.from /\ y.reused = x.reused
    BY <2>2, <2>4, <2>5 DEF SectionTexts
  <2>7. texts'[i] = y
    BY <1>4, <1>5, <2>1, <2>2, <2>3, <2>5 DEF SectionTexts
  <2>8. TextSound(y, i, supports)
    BY <1>5, <2>2, <2>3, <2>4, <2>6 DEF TextSound, FromCurrent
  <2> QED
    BY <2>7, <2>8
<1>8. \A i \in Ids : texts'[i] # None => TextSound(texts'[i], i, supports)
  BY <1>1, <1>4, <1>7 DEF TextsSound
<1>9. \A i \in Ids : texts'[i] = None => texts[i] = None
  BY <1>4, <1>7, NoneAssumption DEF TextSound
<1>10. SectionsTypeOK'
  BY <1>1, <1>2, <1>4 DEF SectionsTypeOK, inputs
<1>11. CheckpointsSound(candidates)' /\ CheckpointsSound(verified)' /\ VerifiedValid'
  BY <1>1, <1>2 DEF CheckpointsSound, CheckpointSound, VerifiedValid
<1>12. TextsSound'
  <2> SUFFICES ASSUME NEW i \in Ids, texts'[i] # None
               PROVE  TextSound(texts[i], i, supports)'
    BY DEF TextsSound
  <2>1. PICK x, plan : x = texts'[i] /\ plan = supports'
    OBVIOUS
  <2>2. TextSound(x, i, plan)
    BY <1>2, <1>8, <2>1
  <2>3. TextSound(x, i, supports)'
    BY <1>2, <2>1, <2>2, TextSteady
  <2>4. texts'[i] = x
    BY <2>1
  <2> QED
    BY <2>3, <2>4 DEF TextSound, FromCurrent
<1>13. PlansWhole'
  BY <1>2 DEF PlansWhole, Over
<1>14. NothingLost'
  <2> SUFFICES ASSUME NEW i \in Ids, writes' > 0, texts'[i] = None
               PROVE  Draft(i, planned)' = {}
    BY DEF NothingLost
  <2>1. Draft(i, planned) = {}
    BY <1>1, <1>2, <1>9 DEF NothingLost, Over
  <2> QED
    BY <1>2, <2>1, PlannedSteady
<1> QED
  BY <1>10, <1>11, <1>12, <1>13, <1>14 DEF SectionsInv
-----------------------------------------------------------------------------
(* The theorems                                                            *)

SectionsSpec == SectionsInit /\ [][SectionsNext]_sectionVars

LEMMA SectionsInvariant == SectionsSpec => []SectionsInv
<1>1. SectionsInv /\ UNCHANGED sectionVars => SectionsInv'
  <2> SUFFICES ASSUME SectionsInv, UNCHANGED sectionVars
               PROVE  SectionsInv'
    OBVIOUS
  <2>1. UNCHANGED <<inputs, at, filling, supports, texts, candidates, verified, writes>>
    BY DEF sectionVars
  <2>2. \A i : Draft(i, planned)' = Draft(i, planned)
    BY <2>1, PlannedSteady
  <2>3. SectionsTypeOK' /\ PlansWhole' /\ VerifiedValid'
    BY <2>1 DEF SectionsInv, SectionsTypeOK, inputs, PlansWhole, Over, VerifiedValid
  <2>4. CheckpointsSound(candidates)' /\ CheckpointsSound(verified)'
    BY <2>1 DEF SectionsInv, CheckpointsSound, CheckpointSound
  <2>5. NothingLost'
    BY <2>1, <2>2 DEF SectionsInv, NothingLost, Over
  <2>6. TextsSound'
    <3> SUFFICES ASSUME NEW i \in Ids, texts'[i] # None
                 PROVE  TextSound(texts[i], i, supports)'
      BY DEF TextsSound
    <3>1. PICK x, plan : x = texts[i] /\ plan = supports'
      OBVIOUS
    <3>2. TextSound(x, i, supports) /\ texts'[i] = x /\ plan = supports
      BY <2>1, <3>1 DEF SectionsInv, TextsSound
    <3>3. TextSound(x, i, supports)'
      BY <2>1, <3>1, <3>2, TextSteady
    <3> QED
      BY <3>2, <3>3 DEF TextSound, FromCurrent
  <2> QED
    BY <2>3, <2>4, <2>5, <2>6 DEF SectionsInv
<1>2. SectionsInv /\ [SectionsNext]_sectionVars => SectionsInv'
  BY <1>1, StartKeeps, WriteTextKeeps, BackfillKeeps DEF SectionsNext
<1> QED
  BY <1>2, SectionsStart, PTL DEF SectionsSpec

(* Whatever is reused, before the merging or after it, rescued, written     *)
(* again or filled in, over any number of writings, and however the plan,  *)
(* the allocation and the claims change between them: a text that stands   *)
(* was written from the allocation and the claims of its present prompt,   *)
(* from papers its plan still has and from a draft that stated of them all *)
(* it would state now, and one that is reused cites its whole allocation   *)
(* (write_deliverable.py).                                                 *)
THEOREM ReuseIsCurrent == SectionsSpec => []ReuseCurrent
<1>1. SectionsInv => ReuseCurrent
  BY DEF SectionsInv, TextsSound, TextSound, FromCurrent, ReuseCurrent, Prompt
<1> QED
  BY <1>1, SectionsInvariant, PTL

(* No text cites a paper that neither the plan nor the allocation of its   *)
(* sections has (base_renderer.py, _backfill_global_citation_union).       *)
THEOREM CitationsAreLicensed == SectionsSpec => []CitesLicensed
<1>1. SectionsInv => CitesLicensed
  <2> SUFFICES ASSUME SectionsInv, NEW t \in Texts, NEW i \in Peers(t), texts[i] # None
               PROVE  texts[i].cites \subseteq UNION {planned[j] \cup given[j] : j \in Peers(t)}
    BY DEF CitesLicensed, Cited
  <2>1. i \in Ids /\ Outline[i].text = t
    BY DEF Peers
  <2> QED
    BY <2>1 DEF SectionsInv, TextsSound, TextSound, Licensed
<1> QED
  BY <1>1, SectionsInvariant, PTL

(* A section that has papers to cite has a text when a writing is over:    *)
(* failing, merging and reusing lose none (_write_sections_in_chinese).    *)
THEOREM SectionsDoStay == SectionsSpec => []SectionsStay
<1>1. SectionsInv => SectionsStay
  BY DEF SectionsInv, NothingLost, Over, SectionsStay
<1> QED
  BY <1>1, SectionsInvariant, PTL
=============================================================================
