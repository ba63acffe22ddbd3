-------------------------- MODULE RetrievalProofs --------------------------
(***************************************************************************)
(* Proofs about Retrieval, for any papers, words, scopes and limits: what  *)
(* a session rests on was admitted for its scope by what is known of it,   *)
(* the requirement is called met only with enough admitted papers, and a   *)
(* run of an increment loses no detail (app/agent/retrieval_loop.py,       *)
(* app/agent/nodes/retrieval.py, app/services/retrieval_ranking_service.py,*)
(* app/agent/delegation_recovery.py).                                      *)
(*                                                                         *)
(* What a round of words sends is computed by folds.  Induction over their *)
(* indices is replaced by the smallest counterexample: the lemmas on Only, *)
(* Unique and the selections of a round are proved so, and give SentOnce.  *)
(***************************************************************************)
EXTENDS Retrieval, ListProofs, TLAPS

TableEntries == [scope : {0} \cup Scopes, read : {"raw", "full"}]

(* A table of verdicts: a function on some of the papers. *)
Table(f) ==
  /\ DOMAIN f \subseteq Papers
  /\ f = [p \in DOMAIN f |-> f[p]]
  /\ \A p \in DOMAIN f : f[p] \in TableEntries

(* A verdict of the model, or none yet. *)
Told(p, v) == v = Pending \/ (v.scope \in Scopes /\ <<p, v.read>> \in Fit[v.scope])

(* What a fetch lets in: included for a scope, within its years, and       *)
(* through its filters.                                                    *)
Admitted(p, v) ==
  /\ v.scope \in Scopes
  /\ <<p, v.read>> \in Fit[v.scope] /\ <<p, v.read>> \in Passes[v.scope]
  /\ Has(p, Years[v.scope])

Spans == {Years[s] : s \in Scopes} \cup {Added[s] : s \in Scopes}

SessionKeys ==
  {"pool", "branches", "searched", "windows", "candidates", "ranked", "papers", "scope",
   "diagnosed", "target", "recoveries", "settled"}
QueryKeys ==
  {"mode", "incremental", "window", "recovering", "anchored", "met", "failed", "fresh",
   "model", "judged"}

SessionSound(s) ==
  /\ s = [k \in SessionKeys |-> s[k]]
  /\ s.scope \in Scopes /\ s.settled \in Nat /\ s.settled <= s.scope
  /\ s.candidates \subseteq Papers
  /\ \A w \in s.windows : w[2] \in Spans
  /\ s.diagnosed \in BOOLEAN /\ s.target \in Nat /\ s.recoveries \in 0 .. Recoveries
  /\ Table(s.ranked) /\ \A p \in DOMAIN s.ranked : Told(p, s.ranked[p])
  /\ Table(s.papers) /\ \A p \in DOMAIN s.papers : Admitted(p, s.papers[p])
  /\ s.settled = s.scope => \A p \in DOMAIN s.papers : s.papers[p].scope = s.scope

QuerySound(q) ==
  /\ q = [k \in QueryKeys |-> q[k]]
  /\ q.mode \in {"search", "refresh", "refreshed"}
  /\ q.incremental \in BOOLEAN /\ q.recovering \in BOOLEAN /\ q.anchored \in BOOLEAN
  /\ q.met \in BOOLEAN /\ q.failed \in BOOLEAN /\ q.fresh \in BOOLEAN /\ q.model \in BOOLEAN
  /\ q.window \in {Whole} \cup Spans
  /\ q.judged \subseteq Papers \X {"raw", "full"}

Enough(s) ==
  Cardinality(AdmittedRanked(s)) >= Required \/ Cardinality(DOMAIN s.papers) >= Required

PlaceSound ==
  /\ at = [stage |-> at.stage, rounds |-> at.rounds]
  /\ at.stage \in {"idle", "rank", "loop", "again", "final", "once"}
  /\ at.rounds \in 0 .. Rounds
  /\ launches \in 0 .. Counted

RetrievalInv ==
  SessionSound(session) /\ QuerySound(query) /\ (query.met => Enough(session)) /\ PlaceSound
-----------------------------------------------------------------------------
LEMMA RetrievalNumbers ==
  /\ IsFiniteSet(Papers) /\ Required \in Nat \ {0} /\ PoolTargets \subseteq Nat /\ Rounds \in Nat
  /\ DetailBatch \in Nat \ {0} /\ MinimumGain \in Nat \ {0} /\ Limit \in Nat \ {0}
  /\ Recoveries \in Nat /\ Counted \in Nat
BY RetrievalAssumption DEF RetrievalAssumption

LEMMA ScopesAre ==
  /\ Cardinality(Scopes) \in Nat /\ Scopes = 1 .. Cardinality(Scopes)
  /\ \A s \in Scopes : s \in Nat \ {0}
<1>1. IsFiniteSet(Scopes) /\ Scopes = 1 .. Cardinality(Scopes)
  BY RetrievalAssumption DEF RetrievalAssumption
<1>2. Cardinality(Scopes) \in Nat
  BY <1>1, FS_CardinalityType
<1> QED
  BY <1>1, <1>2

LEMMA PassesType ==
  \A s \in Scopes : Passes[s] \subseteq Papers \X {"raw", "full"}
BY RetrievalAssumption DEF RetrievalAssumption

(* The tables of Retrieval are the ones of the type invariant. *)
LEMMA TablesAreVerdicts ==
  ASSUME NEW f, Table(f)
  PROVE  f \in Verdicts
<1>1. f \in [DOMAIN f -> TableEntries] /\ DOMAIN f \in SUBSET Papers
  BY DEF Table
<1> QED
  BY <1>1 DEF Verdicts, TableEntries

LEMMA NoneIsTable == Table(None) /\ DOMAIN None = {}
BY DEF None, Table

LEMMA CountsAreNaturals ==
  ASSUME NEW f, Table(f)
  PROVE  Cardinality(DOMAIN f) \in Nat
BY RetrievalNumbers, FS_Subset, FS_CardinalityType DEF Table

LEMMA MergedTables ==
  ASSUME NEW f, NEW g, Table(f), Table(g)
  PROVE  /\ Table(Merged(f, g)) /\ DOMAIN Merged(f, g) = DOMAIN f \cup DOMAIN g
         /\ \A p \in DOMAIN g : Merged(f, g)[p] = g[p]
         /\ \A p \in DOMAIN f \ DOMAIN g : Merged(f, g)[p] = f[p]
BY DEF Merged, Table

LEMMA ComparesCounts ==
  ASSUME NEW f, Table(f)
  PROVE  \E b \in BOOLEAN : b = (Cardinality(DOMAIN f) >= Required)
<1>1. Cardinality(DOMAIN f) \in Nat /\ Required \in Nat
  BY CountsAreNaturals, RetrievalNumbers
<1>2. PICK n \in Nat, m \in Nat : n = Cardinality(DOMAIN f) /\ m = Required
  BY <1>1
<1>3. (n >= m) \in BOOLEAN
  OBVIOUS
<1> QED
  BY <1>2, <1>3

LEMMA MergedVerdicts ==
  ASSUME NEW f, NEW g, NEW scope, Table(f), Table(g)
  PROVE  /\ \A p \in DOMAIN f : f[p].scope = scope /\ Told(p, f[p])
         /\ \A p \in DOMAIN g : g[p].scope = scope /\ Told(p, g[p])
         => /\ Table(Merged(f, g))
            /\ \A p \in DOMAIN Merged(f, g) :
                 Merged(f, g)[p].scope = scope /\ Told(p, Merged(f, g)[p])
<1>1. /\ Table(Merged(f, g)) /\ DOMAIN Merged(f, g) = DOMAIN f \cup DOMAIN g
      /\ \A p \in DOMAIN g : Merged(f, g)[p] = g[p]
      /\ \A p \in DOMAIN f \ DOMAIN g : Merged(f, g)[p] = f[p]
  BY MergedTables
<1>2. ASSUME NEW p \in DOMAIN Merged(f, g)
      PROVE  (p \in DOMAIN g /\ Merged(f, g)[p] = g[p]) \/ (p \in DOMAIN f /\ Merged(f, g)[p] = f[p])
  <2>1. p \in DOMAIN g \/ p \in DOMAIN f \ DOMAIN g
    BY <1>1
  <2> QED
    BY <1>1, <2>1
<1> QED
  BY <1>1, <1>2

LEMMA ScreeningDomain ==
  ASSUME NEW S, NEW lost
  PROVE  /\ DOMAIN Screening(S, lost) \subseteq S
         /\ \A p \in DOMAIN Screening(S, lost) : Screening(S, lost)[p] = (<<p, "raw">> \in Fit[session.scope])
BY DEF Screening
-----------------------------------------------------------------------------
LEMMA StartsSound ==
  RetrievalInit => RetrievalInv
<1> SUFFICES ASSUME RetrievalInit
             PROVE  RetrievalInv
  OBVIOUS
<1>1. 1 \in Scopes
  BY RetrievalAssumption DEF RetrievalAssumption
<1>2. SessionSound(session)
  <2>1. session = [pool |-> Plan, branches |-> <<>>, searched |-> {}, windows |-> {},
                   candidates |-> {}, ranked |-> None, papers |-> None, scope |-> 1,
                   diagnosed |-> FALSE, target |-> 0, recoveries |-> 0, settled |-> 0]
    BY DEF RetrievalInit
  <2>2. session = [k \in SessionKeys |-> session[k]]
    BY <2>1 DEF SessionKeys
  <2>3. /\ session.ranked = None /\ session.papers = None /\ session.scope = 1
        /\ session.candidates = {} /\ session.windows = {} /\ session.diagnosed = FALSE
        /\ session.target = 0 /\ session.recoveries = 0 /\ session.settled = 0
    BY <2>1
  <2>4. /\ session.settled \in Nat /\ session.settled <= session.scope
        /\ session.settled # session.scope /\ session.recoveries \in 0 .. Recoveries
    BY <2>3, RetrievalNumbers
  <2>5. /\ Table(session.ranked) /\ DOMAIN session.ranked = {}
        /\ Table(session.papers) /\ DOMAIN session.papers = {}
    BY <2>3, NoneIsTable
  <2> QED
    BY <1>1, <2>2, <2>3, <2>4, <2>5 DEF SessionSound
<1>3. QuerySound(query) /\ ~query.met
  <2>1. PICK model \in BOOLEAN : query = Run("search", FALSE, Whole, model)
    BY DEF RetrievalInit
  <2>2. query = [mode |-> "search", incremental |-> FALSE, window |-> Whole, recovering |-> FALSE,
                 anchored |-> FALSE, met |-> FALSE, failed |-> FALSE, fresh |-> FALSE,
                 model |-> model, judged |-> {}]
    BY <2>1 DEF Run
  <2> QED
    BY <2>2 DEF QuerySound, QueryKeys
<1>4. PlaceSound
  BY RetrievalNumbers DEF PlaceSound, RetrievalInit
<1> QED
  BY <1>2, <1>3, <1>4 DEF RetrievalInv
-----------------------------------------------------------------------------
(* A session whose verdicts and details stay is as sound as it was.        *)
LEMMA VerdictsStay ==
  ASSUME NEW s, NEW t, SessionSound(s),
         t = [k \in SessionKeys |-> t[k]],
         t.scope = s.scope, t.ranked = s.ranked, t.papers = s.papers,
         t.settled = s.settled, t.target = s.target,
         t.candidates \subseteq Papers, \A w \in t.windows : w[2] \in Spans,
         t.diagnosed \in BOOLEAN, t.recoveries \in 0 .. Recoveries
  PROVE  SessionSound(t) /\ (Enough(s) => Enough(t))
<1>1. SessionSound(t)
  BY DEF SessionSound
<1>2. Enough(s) => Enough(t)
  BY DEF Enough, AdmittedRanked
<1> QED
  BY <1>1, <1>2

LEMMA SearchKeeps ==
  ASSUME NEW s, NEW q, SessionSound(s), QuerySound(q), q.met => Enough(s),
         launches \in 0 .. Counted, Search(s, q)
  PROVE  /\ SessionSound(session') /\ QuerySound(query') /\ (query'.met => Enough(session'))
         /\ launches' \in 0 .. Counted
         /\ session'.scope = s.scope /\ session'.papers = s.papers /\ session'.target = s.target
         /\ query'.mode = q.mode
<1>1. PICK lost \in SUBSET Words, voided \in BOOLEAN : SearchOf(s, q, lost, voided)
  BY DEF Search
<1> DEFINE years == Window(s, q)
<1>3. years \in Spans
  BY DEF Window, SessionSound, QuerySound, Spans, Whole
<1>4a. PICK words \in {Round(Unseen(s, q), s.branches)} :
         LET browsed == Browsed(words, s.diagnosed /\ q.window = Whole, q.anchored)
             found == {p \in Papers : Has(p, years) /\ \E k \in ToSet(words) \ lost : p \in Found[k]}
         IN /\ session' = [s EXCEPT
                 !.candidates = @ \cup found,
                 !.searched = @ \cup ToSet(words),
                 !.windows = @ \cup {<<Key[k], years>> : k \in ToSet(words)},
                 !.diagnosed = @ \/ (browsed # NoWord /\ ~voided)]
            /\ query' = [q EXCEPT !.anchored = @ \/ browsed \in CnkiAnchors,
                                  !.fresh = found \ s.candidates # {},
                                  !.failed = s.candidates \cup found = {}]
            /\ launches' = Lower(Counted, launches + (IF browsed = NoWord THEN 0 ELSE 1))
  BY <1>1 DEF SearchOf
<1>4b. PICK browsed : browsed = Browsed(words, s.diagnosed /\ q.window = Whole, q.anchored)
  OBVIOUS
<1>4c. PICK found :
         found = {p \in Papers : Has(p, years) /\ \E k \in ToSet(words) \ lost : p \in Found[k]}
  OBVIOUS
<1>4. /\ found \subseteq Papers
      /\ session' = [s EXCEPT
           !.candidates = s.candidates \cup found,
           !.searched = s.searched \cup ToSet(words),
           !.windows = s.windows \cup {<<Key[k], years>> : k \in ToSet(words)},
           !.diagnosed = s.diagnosed \/ (browsed # NoWord /\ ~voided)]
      /\ query' = [q EXCEPT !.anchored = q.anchored \/ browsed \in CnkiAnchors,
                            !.fresh = found \ s.candidates # {},
                            !.failed = s.candidates \cup found = {}]
      /\ launches' = Lower(Counted, launches + (IF browsed = NoWord THEN 0 ELSE 1))
  BY <1>4a, <1>4b, <1>4c
<1>5. PICK d \in BOOLEAN, a \in BOOLEAN, r \in BOOLEAN, f \in BOOLEAN :
        /\ d = (s.diagnosed \/ (browsed # NoWord /\ ~voided))
        /\ a = (q.anchored \/ browsed \in CnkiAnchors)
        /\ r = (found \ s.candidates # {})
        /\ f = (s.candidates \cup found = {})
  OBVIOUS
<1>6. PICK w : w = s.windows \cup {<<Key[k], years>> : k \in ToSet(words)}
  OBVIOUS
<1>7. \A x \in w : x[2] \in Spans
  BY <1>3, <1>6 DEF SessionSound
<1>8. session' = [s EXCEPT !.candidates = s.candidates \cup found,
                           !.searched = s.searched \cup ToSet(words),
                           !.windows = w, !.diagnosed = d]
  BY <1>4, <1>5, <1>6
<1>9. query' = [q EXCEPT !.anchored = a, !.fresh = r, !.failed = f]
  BY <1>4, <1>5
<1>10. s = [k \in SessionKeys |-> s[k]] /\ q = [k \in QueryKeys |-> q[k]]
  BY DEF SessionSound, QuerySound
<1>11. /\ session' = [k \in SessionKeys |-> session'[k]]
       /\ session'.scope = s.scope /\ session'.ranked = s.ranked /\ session'.papers = s.papers
       /\ session'.settled = s.settled /\ session'.target = s.target
       /\ session'.recoveries = s.recoveries
       /\ session'.candidates = s.candidates \cup found /\ session'.windows = w
       /\ session'.diagnosed = d
  BY <1>8, <1>10 DEF SessionKeys
<1>12. SessionSound(session') /\ (Enough(s) => Enough(session'))
  <2>1. s.candidates \subseteq Papers /\ s.recoveries \in 0 .. Recoveries
    BY DEF SessionSound
  <2>2. session'.candidates \subseteq Papers
    BY <1>4, <1>11, <2>1
  <2> QED
    BY <1>5, <1>7, <1>11, <2>1, <2>2, VerdictsStay
<1>13. QuerySound(query') /\ query'.met = q.met /\ query'.mode = q.mode
  <2>1. /\ query' = [k \in QueryKeys |-> query'[k]]
        /\ query'.mode = q.mode /\ query'.incremental = q.incremental
        /\ query'.recovering = q.recovering /\ query'.met = q.met /\ query'.model = q.model
        /\ query'.window = q.window /\ query'.judged = q.judged
        /\ query'.anchored = a /\ query'.fresh = r /\ query'.failed = f
    BY <1>9, <1>10 DEF QueryKeys
  <2> QED
    BY <1>5, <2>1 DEF QuerySound
<1>14. launches' \in 0 .. Counted
  BY <1>4, RetrievalNumbers DEF Lower
<1> QED
  BY <1>11, <1>12, <1>13, <1>14
-----------------------------------------------------------------------------
(* Verdicts that were told make a sound ranking.                           *)
LEMMA RankingIsSound ==
  ASSUME NEW s, NEW t, NEW ranked, SessionSound(s), t = [s EXCEPT !.ranked = ranked],
         Table(ranked), \A p \in DOMAIN ranked : Told(p, ranked[p])
  PROVE  /\ SessionSound(t)
         /\ t.ranked = ranked /\ t.scope = s.scope /\ t.papers = s.papers /\ t.target = s.target
<1>1. s = [k \in SessionKeys |-> s[k]]
  BY DEF SessionSound
<1>2. /\ t = [k \in SessionKeys |-> t[k]]
      /\ t.ranked = ranked /\ t.scope = s.scope /\ t.papers = s.papers /\ t.target = s.target
      /\ t.settled = s.settled /\ t.recoveries = s.recoveries /\ t.candidates = s.candidates
      /\ t.windows = s.windows /\ t.diagnosed = s.diagnosed
  BY <1>1 DEF SessionKeys
<1>3. SessionSound(t)
  BY <1>2 DEF SessionSound
<1> QED
  BY <1>2, <1>3

LEMMA RankKeeps ==
  ASSUME SessionSound(session), QuerySound(query), query.met => Enough(session), Rank \/ Wait
  PROVE  /\ SessionSound(session') /\ QuerySound(query') /\ (query'.met => Enough(session'))
         /\ launches' = launches
         /\ session'.scope = session.scope /\ session'.papers = session.papers
         /\ session'.target = session.target /\ query'.mode = query.mode
<1>1. CASE session' = [session EXCEPT !.ranked = Ranked(session)] /\ query' = [query EXCEPT !.met = FALSE]
  <2>1. PICK ranked : ranked = Ranked(session)
    OBVIOUS
  <2>2. Table(ranked) /\ \A p \in DOMAIN ranked : Told(p, ranked[p])
    <3>1. ranked = [p \in Passing(session) |-> Pending] /\ Passing(session) \subseteq Papers
      BY <2>1 DEF Ranked, Passing, SessionSound
    <3>2. Pending \in TableEntries
      BY DEF Pending, TableEntries
    <3> QED
      BY <3>1, <3>2 DEF Table, Told
  <2>3. /\ SessionSound(session') /\ session'.scope = session.scope
        /\ session'.papers = session.papers /\ session'.target = session.target
    BY <1>1, <2>1, <2>2, RankingIsSound
  <2>4. QuerySound(query') /\ ~query'.met /\ query'.mode = query.mode
    BY <1>1 DEF QuerySound, QueryKeys
  <2> QED
    BY <2>3, <2>4 DEF Rank, Wait
<1>2. CASE UNCHANGED <<session, query>>
  BY <1>2 DEF Rank, Wait
<1> QED
  BY <1>1, <1>2 DEF Rank, Wait

(* Only what the model includes enters the ranking, with what stays of it. *)
LEMMA ScreenKeeps ==
  ASSUME SessionSound(session), QuerySound(query), NEW S \in SUBSET Papers, NEW most, NEW kept,
         Table(kept), \A p \in DOMAIN kept : kept[p].scope = session.scope /\ Told(p, kept[p]),
         Screen(S, most, kept)
  PROVE  /\ SessionSound(session') /\ QuerySound(query') /\ (query'.met => Enough(session'))
         /\ launches' = launches
         /\ session'.scope = session.scope /\ session'.papers = session.papers
         /\ session'.target = session.target /\ query'.mode = query.mode
<1>1. PICK lost \in SUBSET S :
        \E heard \in {Screening(S, lost)} :
        \E ranked \in {Merged(kept, Verdict(First({p \in DOMAIN heard : heard[p]}, most)))} :
          /\ session' = [session EXCEPT !.ranked = ranked]
          /\ query' = [query EXCEPT !.met = Cardinality(DOMAIN ranked) >= Required,
                                    !.judged = @ \cup {<<p, "raw">> : p \in DOMAIN heard}]
          /\ UNCHANGED <<launches, again>>
  BY DEF Screen
<1>1a. PICK heard \in {Screening(S, lost)} :
        \E ranked \in {Merged(kept, Verdict(First({p \in DOMAIN heard : heard[p]}, most)))} :
          /\ session' = [session EXCEPT !.ranked = ranked]
          /\ query' = [query EXCEPT !.met = Cardinality(DOMAIN ranked) >= Required,
                                    !.judged = @ \cup {<<p, "raw">> : p \in DOMAIN heard}]
          /\ UNCHANGED <<launches, again>>
  BY <1>1
<1>2. PICK D : D = First({p \in DOMAIN heard : heard[p]}, most)
  OBVIOUS
<1>3. PICK new : new = Verdict(D)
  OBVIOUS
<1>4. PICK ranked : ranked = Merged(kept, new)
  OBVIOUS
<1>5. DOMAIN heard \subseteq S /\ \A p \in DOMAIN heard : heard[p] = (<<p, "raw">> \in Fit[session.scope])
  BY <1>1a, ScreeningDomain
<1>6. D \subseteq S /\ \A p \in D : <<p, "raw">> \in Fit[session.scope]
  BY <1>2, <1>5 DEF First
<1>7. session.scope \in Scopes
  BY DEF SessionSound
<1>8. Table(new) /\ \A p \in DOMAIN new : new[p].scope = session.scope /\ Told(p, new[p])
  <2>1. new = [p \in D |-> [scope |-> session.scope, read |-> "raw"]]
    BY <1>3 DEF Verdict
  <2>2. [scope |-> session.scope, read |-> "raw"] \in TableEntries
    BY <1>7 DEF TableEntries
  <2> QED
    BY <1>6, <1>7, <2>1, <2>2 DEF Table, Told
<1>9. /\ Table(ranked)
      /\ \A p \in DOMAIN ranked : ranked[p].scope = session.scope /\ Told(p, ranked[p])
  <2>1. /\ Table(Merged(kept, new))
        /\ \A p \in DOMAIN Merged(kept, new) :
             Merged(kept, new)[p].scope = session.scope /\ Told(p, Merged(kept, new)[p])
    BY <1>8, MergedVerdicts
  <2> QED
    BY <1>4, <2>1
<1>10. PICK b \in BOOLEAN : b = (Cardinality(DOMAIN ranked) >= Required)
  <2>1. Table(ranked)
    BY <1>9
  <2> QED
    BY <2>1, ComparesCounts
<1>11. PICK judged : judged = query.judged \cup {<<p, "raw">> : p \in DOMAIN heard}
  OBVIOUS
<1>12. judged \subseteq Papers \X {"raw", "full"}
  BY <1>5, <1>11 DEF QuerySound
<1>13. /\ session' = [session EXCEPT !.ranked = ranked]
       /\ query' = [query EXCEPT !.met = b, !.judged = judged]
       /\ launches' = launches
  BY <1>1a, <1>2, <1>3, <1>4, <1>10, <1>11
<1>14. /\ SessionSound(session') /\ session'.ranked = ranked
       /\ session'.scope = session.scope /\ session'.papers = session.papers
       /\ session'.target = session.target
  BY <1>9, <1>13, RankingIsSound
<1>15. QuerySound(query') /\ query'.met = b /\ query'.mode = query.mode
  <2>1. query = [k \in QueryKeys |-> query[k]]
    BY DEF QuerySound
  <2>2. /\ query' = [k \in QueryKeys |-> query'[k]]
        /\ query'.mode = query.mode /\ query'.incremental = query.incremental
        /\ query'.recovering = query.recovering /\ query'.met = b /\ query'.model = query.model
        /\ query'.window = query.window /\ query'.judged = judged
        /\ query'.anchored = query.anchored /\ query'.fresh = query.fresh
        /\ query'.failed = query.failed
    BY <1>13, <2>1 DEF QueryKeys
  <2> QED
    BY <1>12, <2>2 DEF QuerySound
<1>16. b => Enough(session')
  <2>1. AdmittedRanked(session') = DOMAIN ranked
    BY <1>9, <1>14 DEF AdmittedRanked
  <2> QED
    BY <1>10, <2>1 DEF Enough
<1> QED
  BY <1>13, <1>14, <1>15, <1>16

LEMMA RankAndScreenKeeps ==
  ASSUME SessionSound(session), QuerySound(query), query.met => Enough(session), RankAndScreen
  PROVE  /\ SessionSound(session') /\ QuerySound(query') /\ (query'.met => Enough(session'))
         /\ launches' = launches
         /\ session'.scope = session.scope /\ session'.papers = session.papers
         /\ session'.target = session.target /\ query'.mode = query.mode
<1>1. CASE Screen(Passing(session), Target, None)
  <2>1. Passing(session) \subseteq Papers
    BY DEF Passing, SessionSound
  <2>2. Table(None) /\ \A p \in DOMAIN None : None[p].scope = session.scope /\ Told(p, None[p])
    BY NoneIsTable
  <2> QED
    BY <1>1, <2>1, <2>2, ScreenKeeps
<1>2. CASE Wait
  BY <1>2, RankKeeps
<1> QED
  BY <1>1, <1>2 DEF RankAndScreen
-----------------------------------------------------------------------------
(* Only a fetch changes the details and the size of the pool.              *)
Stays == session'.papers = session.papers /\ session'.target = session.target

LEMMA FocusedIsSound ==
  ASSUME NEW s, SessionSound(s), NEW words
  PROVE  /\ SessionSound(Focused(s, words)) /\ (Enough(s) => Enough(Focused(s, words)))
         /\ Focused(s, words).scope = s.scope /\ Focused(s, words).papers = s.papers
         /\ Focused(s, words).target = s.target
<1>1. PICK t : t = Focused(s, words)
  OBVIOUS
<1>2. CASE words = <<>>
  BY <1>1, <1>2 DEF Focused
<1>3. CASE words # <<>>
  <2>1. \E pool, branches : t = [s EXCEPT !.pool = pool, !.branches = branches]
    BY <1>1, <1>3 DEF Focused
  <2>2. PICK pool, branches : t = [s EXCEPT !.pool = pool, !.branches = branches]
    BY <2>1
  <2>3. s = [k \in SessionKeys |-> s[k]]
    BY DEF SessionSound
  <2>4. /\ t = [k \in SessionKeys |-> t[k]]
        /\ t.scope = s.scope /\ t.ranked = s.ranked /\ t.papers = s.papers
        /\ t.settled = s.settled /\ t.target = s.target /\ t.candidates = s.candidates
        /\ t.windows = s.windows /\ t.diagnosed = s.diagnosed /\ t.recoveries = s.recoveries
    BY <2>2, <2>3 DEF SessionKeys
  <2>5. /\ s.candidates \subseteq Papers /\ \A w \in s.windows : w[2] \in Spans
        /\ s.diagnosed \in BOOLEAN /\ s.recoveries \in 0 .. Recoveries
    BY DEF SessionSound
  <2> QED
    BY <1>1, <2>4, <2>5, VerdictsStay
<1> QED
  BY <1>2, <1>3

LEMMA JudgeWaitingKeeps ==
  ASSUME RetrievalInv, JudgeWaiting
  PROVE  RetrievalInv' /\ Stays
<1>1. SessionSound(session) /\ QuerySound(query) /\ PlaceSound
  BY DEF RetrievalInv
<1>2. PICK kept : kept = [p \in AdmittedRanked(session) |-> session.ranked[p]]
  OBVIOUS
<1>3. Table(kept) /\ \A p \in DOMAIN kept : kept[p].scope = session.scope /\ Told(p, kept[p])
  BY <1>1, <1>2 DEF AdmittedRanked, Table, SessionSound
<1>4. PICK S : S = Waiting(session) \cap Passing(session)
  OBVIOUS
<1>5. S \in SUBSET Papers
  BY <1>1, <1>4 DEF Passing, SessionSound
<1>6. Screen(S, Cardinality(Papers), kept) /\ UNCHANGED at
  BY <1>2, <1>4 DEF JudgeWaiting
<1>7. /\ SessionSound(session') /\ QuerySound(query') /\ (query'.met => Enough(session'))
      /\ launches' = launches /\ Stays
  BY <1>1, <1>3, <1>5, <1>6, ScreenKeeps DEF Stays
<1> QED
  BY <1>1, <1>6, <1>7 DEF RetrievalInv, PlaceSound

LEMMA StartKeeps ==
  ASSUME RetrievalInv, Start
  PROVE  RetrievalInv' /\ Stays
<1>1. SessionSound(session) /\ QuerySound(query) /\ (query.met => Enough(session)) /\ PlaceSound
  BY DEF RetrievalInv
<1>2. PICK words \in Focuses :
        /\ Searching /\ Search(Focused(session, words), query)
        /\ at' = IF query'.failed THEN at
                 ELSE [stage |-> "rank", rounds |-> IF query.incremental THEN Lower(Rounds, 1) ELSE Rounds]
  BY DEF Start
<1>3. /\ SessionSound(Focused(session, words)) /\ (query.met => Enough(Focused(session, words)))
      /\ Focused(session, words).papers = session.papers
      /\ Focused(session, words).target = session.target
  BY <1>1, FocusedIsSound
<1>4. launches \in 0 .. Counted
  BY <1>1 DEF PlaceSound
<1>5. /\ SessionSound(session') /\ QuerySound(query') /\ (query'.met => Enough(session'))
      /\ launches' \in 0 .. Counted
      /\ session'.papers = session.papers /\ session'.target = session.target
  BY <1>1, <1>2, <1>3, <1>4, SearchKeeps
<1>6. PICK n : n = IF query.incremental THEN Lower(Rounds, 1) ELSE Rounds
  OBVIOUS
<1>7. n \in 0 .. Rounds
  BY <1>6, RetrievalNumbers DEF Lower
<1>8. at' = at \/ at' = [stage |-> "rank", rounds |-> n]
  BY <1>2, <1>6
<1>9. PlaceSound'
  BY <1>1, <1>5, <1>7, <1>8 DEF PlaceSound
<1> QED
  BY <1>5, <1>9 DEF RetrievalInv, Stays

LEMMA SearchAgainKeeps ==
  ASSUME RetrievalInv, SearchAgain
  PROVE  RetrievalInv' /\ Stays
<1>1. SessionSound(session) /\ QuerySound(query) /\ (query.met => Enough(session)) /\ PlaceSound
  BY DEF RetrievalInv
<1>2. launches \in 0 .. Counted
  BY <1>1 DEF PlaceSound
<1>3. /\ SessionSound(session') /\ QuerySound(query') /\ (query'.met => Enough(session'))
      /\ launches' \in 0 .. Counted /\ Stays
  BY <1>1, <1>2, SearchKeeps DEF SearchAgain, Stays
<1>4. PlaceSound'
  BY <1>1, <1>3 DEF PlaceSound, SearchAgain
<1> QED
  BY <1>3, <1>4 DEF RetrievalInv

LEMMA RankingKeeps ==
  ASSUME RetrievalInv, RankRound \/ Finish \/ RankOnce
  PROVE  RetrievalInv' /\ Stays
<1>1. SessionSound(session) /\ QuerySound(query) /\ (query.met => Enough(session)) /\ PlaceSound
  BY DEF RetrievalInv
<1>2. /\ SessionSound(session') /\ QuerySound(query') /\ (query'.met => Enough(session'))
      /\ launches' = launches /\ Stays
  <2>1. CASE Rank
    BY <1>1, <2>1, RankKeeps DEF Stays
  <2>2. CASE RankAndScreen
    BY <1>1, <2>2, RankAndScreenKeeps DEF Stays
  <2>3. CASE UNCHANGED <<session, query, launches, again>>
    BY <1>1, <2>3 DEF Stays
  <2> QED
    BY <2>1, <2>2, <2>3 DEF RankRound, Finish, RankOnce
<1>3. PlaceSound'
  <2>1. at' = [at EXCEPT !.stage = "loop"] \/ at' = [at EXCEPT !.stage = "idle"]
          \/ at' = [stage |-> "idle", rounds |-> 0]
    BY DEF RankRound, Finish, RankOnce
  <2> QED
    BY <1>1, <1>2, <2>1, RetrievalNumbers DEF PlaceSound
<1> QED
  BY <1>2, <1>3 DEF RetrievalInv

LEMMA RefineKeeps ==
  ASSUME RetrievalInv, Refine
  PROVE  RetrievalInv' /\ Stays
<1>1. SessionSound(session) /\ QuerySound(query) /\ (query.met => Enough(session)) /\ PlaceSound
  BY DEF RetrievalInv
<1>2. PICK words \in Refined :
        /\ at.rounds > 0
        /\ session' = [session EXCEPT !.pool =
             Swept(IF query.model THEN words \o Only(session.pool, Core) ELSE session.pool)]
        /\ at' = [stage |-> "again", rounds |-> at.rounds - 1]
        /\ UNCHANGED <<query, launches, again>>
  BY DEF Refine
<1>3. session = [k \in SessionKeys |-> session[k]]
  BY <1>1 DEF SessionSound
<1>4. PICK pool : session' = [session EXCEPT !.pool = pool]
  BY <1>2
<1>5. /\ session' = [k \in SessionKeys |-> session'[k]]
      /\ session'.scope = session.scope /\ session'.ranked = session.ranked
      /\ session'.papers = session.papers /\ session'.settled = session.settled
      /\ session'.target = session.target /\ session'.candidates = session.candidates
      /\ session'.windows = session.windows /\ session'.diagnosed = session.diagnosed
      /\ session'.recoveries = session.recoveries
  BY <1>3, <1>4 DEF SessionKeys
<1>6. SessionSound(session') /\ (Enough(session) => Enough(session'))
  <2>1. /\ session.candidates \subseteq Papers /\ \A w \in session.windows : w[2] \in Spans
        /\ session.diagnosed \in BOOLEAN /\ session.recoveries \in 0 .. Recoveries
    BY <1>1 DEF SessionSound
  <2> QED
    BY <1>1, <1>5, <2>1, VerdictsStay
<1>7. PlaceSound'
  BY <1>1, <1>2, RetrievalNumbers DEF PlaceSound
<1> QED
  BY <1>1, <1>2, <1>5, <1>6, <1>7 DEF RetrievalInv, Stays

LEMMA PausesKeep ==
  ASSUME RetrievalInv, Leave \/ Stop
  PROVE  RetrievalInv' /\ Stays
<1>1. UNCHANGED <<session, query, launches>>
  BY DEF Leave, Stop
<1>2. PlaceSound'
  BY <1>1, RetrievalNumbers DEF RetrievalInv, PlaceSound, Leave, Stop
<1> QED
  BY <1>1, <1>2 DEF RetrievalInv, Stays

(* The run of a recovery; it is called met as before. *)
LEMMA RecoveringIsSound ==
  ASSUME QuerySound(query), NEW s, s.scope \in Scopes
  PROVE  QuerySound(Recovering(s)) /\ Recovering(s).met = query.met
<1>1. query = [k \in QueryKeys |-> query[k]]
  BY DEF QuerySound
<1>2. PICK q : q = Recovering(s)
  OBVIOUS
<1>3. /\ q = [k \in QueryKeys |-> q[k]]
      /\ q.mode = query.mode /\ q.incremental = TRUE /\ q.recovering = TRUE
      /\ q.anchored = query.anchored /\ q.met = query.met /\ q.failed = query.failed
      /\ q.fresh = FALSE /\ q.model = query.model /\ q.window = Years[s.scope]
      /\ q.judged = query.judged
  BY <1>1, <1>2 DEF Recovering, QueryKeys
<1>4. Years[s.scope] \in Spans
  BY DEF Spans
<1> QED
  BY <1>2, <1>3, <1>4 DEF QuerySound

LEMMA RecoverKeeps ==
  ASSUME RetrievalInv, RecoverRoute \/ RecoverCitations
  PROVE  RetrievalInv' /\ Stays
<1>1. SessionSound(session) /\ QuerySound(query) /\ (query.met => Enough(session)) /\ PlaceSound
  BY DEF RetrievalInv
<1>2. session = [k \in SessionKeys |-> session[k]] /\ session.recoveries < Recoveries
  BY <1>1 DEF SessionSound, RecoverRoute, RecoverCitations
<1>3. PICK n \in 0 .. Recoveries : n = session.recoveries + 1
  BY <1>1, <1>2, RetrievalNumbers DEF SessionSound
<1>4. ASSUME NEW t, NEW pool, NEW branches,
             t = [session EXCEPT !.pool = pool, !.recoveries = n, !.branches = branches]
      PROVE  /\ SessionSound(t) /\ (Enough(session) => Enough(t)) /\ t.scope = session.scope
             /\ t.papers = session.papers /\ t.target = session.target
  <2>1. /\ t = [k \in SessionKeys |-> t[k]]
        /\ t.scope = session.scope /\ t.ranked = session.ranked /\ t.papers = session.papers
        /\ t.settled = session.settled /\ t.target = session.target
        /\ t.candidates = session.candidates /\ t.windows = session.windows
        /\ t.diagnosed = session.diagnosed /\ t.recoveries = n
    BY <1>2, <1>4 DEF SessionKeys
  <2>2. /\ session.candidates \subseteq Papers /\ \A w \in session.windows : w[2] \in Spans
        /\ session.diagnosed \in BOOLEAN
    BY <1>1 DEF SessionSound
  <2> QED
    BY <1>1, <1>3, <2>1, <2>2, VerdictsStay
<1>5. session.scope \in Scopes /\ launches \in 0 .. Counted
  BY <1>1 DEF SessionSound, PlaceSound
<1>6. QuerySound(Recovering(session)) /\ Recovering(session).met = query.met
  BY <1>1, <1>5, RecoveringIsSound
<1>7. CASE RecoverRoute
  <2>1. PICK words \in Recovery :
          Search([session EXCEPT !.pool = Unique(@ \o words), !.recoveries = @ + 1,
                                 !.branches = Append(@, [queries |-> words, targeted |-> TRUE])],
                 Recovering(session))
    BY <1>7 DEF RecoverRoute
  <2>2. PICK t : t = [session EXCEPT !.pool = Unique(session.pool \o words), !.recoveries = n,
                        !.branches = Append(session.branches, [queries |-> words, targeted |-> TRUE])]
    OBVIOUS
  <2>3. /\ SessionSound(t) /\ (Enough(session) => Enough(t))
        /\ t.papers = session.papers /\ t.target = session.target
    BY <1>4, <2>2
  <2>4. Search(t, Recovering(session))
    BY <1>3, <2>1, <2>2
  <2>5. /\ SessionSound(session') /\ QuerySound(query') /\ (query'.met => Enough(session'))
        /\ launches' \in 0 .. Counted /\ Stays
    BY <1>1, <1>5, <1>6, <2>3, <2>4, SearchKeeps DEF Stays
  <2>6. at' = at \/ at' = [at EXCEPT !.stage = "once"]
    BY <1>7 DEF RecoverRoute
  <2>7. PlaceSound'
    BY <1>1, <2>5, <2>6 DEF PlaceSound
  <2> QED
    BY <2>5, <2>7 DEF RetrievalInv
<1>8. CASE RecoverCitations
  <2>1. /\ session' = [session EXCEPT !.pool = session.pool, !.recoveries = n,
                                      !.branches = session.branches]
        /\ query' = Recovering(session) /\ UNCHANGED <<at, launches, again>>
    BY <1>2, <1>3, <1>8 DEF RecoverCitations, SessionKeys
  <2>2. SessionSound(session') /\ (Enough(session) => Enough(session')) /\ Stays
    BY <1>4, <2>1 DEF Stays
  <2> QED
    BY <1>1, <1>6, <2>1, <2>2 DEF RetrievalInv, PlaceSound
<1> QED
  BY <1>7, <1>8

LEMMA SettleKeeps ==
  ASSUME RetrievalInv, Settle
  PROVE  RetrievalInv' /\ Stays
<1>1. SessionSound(session) /\ QuerySound(query) /\ (query.met => Enough(session)) /\ PlaceSound
  BY DEF RetrievalInv
<1>2. /\ query' = [query EXCEPT !.incremental = FALSE, !.window = Whole, !.recovering = FALSE]
      /\ UNCHANGED <<session, at, launches>>
  BY DEF Settle
<1>3. QuerySound(query') /\ query'.met = query.met
  BY <1>1, <1>2 DEF QuerySound, QueryKeys
<1> QED
  BY <1>1, <1>2, <1>3 DEF RetrievalInv, PlaceSound, Stays
-----------------------------------------------------------------------------
(* The next run of the session: nothing is met, and the verdicts that      *)
(* stand were given.                                                       *)
LEMMA RunIsSound ==
  ASSUME NEW mode \in {"search", "refresh", "refreshed"}, NEW incremental \in BOOLEAN,
         NEW window \in {Whole} \cup Spans, NEW model \in BOOLEAN
  PROVE  QuerySound(Run(mode, incremental, window, model)) /\ ~Run(mode, incremental, window, model).met
<1>1. PICK q : q = Run(mode, incremental, window, model)
  OBVIOUS
<1>2. q = [mode |-> mode, incremental |-> incremental, window |-> window, recovering |-> FALSE,
           anchored |-> FALSE, met |-> FALSE, failed |-> FALSE, fresh |-> FALSE,
           model |-> model, judged |-> {}]
  BY <1>1 DEF Run
<1>3. QuerySound(q) /\ ~q.met
  BY <1>2 DEF QuerySound, QueryKeys
<1> QED
  BY <1>1, <1>3

LEMMA TurnsKeep ==
  ASSUME RetrievalInv, Widen \/ Retry \/ Refresh
  PROVE  RetrievalInv' /\ Stays
<1>1. SessionSound(session) /\ QuerySound(query) /\ PlaceSound
  BY DEF RetrievalInv
<1>2. PICK mode \in {"search", "refresh"}, incremental \in BOOLEAN, window \in {Whole} \cup Spans :
        query' = Run(mode, incremental, window, query.model) /\ UNCHANGED <<at, launches>>
  <2>1. CASE Widen
    <3>1. /\ query' = Run("search", TRUE, Added[session.scope + 1], query.model)
          /\ session.scope + 1 \in Scopes /\ UNCHANGED <<at, launches>>
      BY <2>1 DEF Widen, Turn
    <3>2. Added[session.scope + 1] \in Spans
      BY <3>1 DEF Spans
    <3> QED
      BY <3>1, <3>2
  <2>2. CASE Retry \/ Refresh
    BY <2>2 DEF Retry, Refresh, Turn
  <2> QED
    BY <2>1, <2>2
<1>3. query.model \in BOOLEAN
  BY <1>1 DEF QuerySound
<1>4. QuerySound(query') /\ ~query'.met
  BY <1>2, <1>3, RunIsSound
<1>5. session = [k \in SessionKeys |-> session[k]]
  BY <1>1 DEF SessionSound
<1>6. SessionSound(session') /\ Stays
  <2>1. CASE Widen
    <3>1. session' = [session EXCEPT !.scope = session.scope + 1] /\ session.scope + 1 \in Scopes
      BY <2>1 DEF Widen, Turn
    <3>2. /\ session' = [k \in SessionKeys |-> session'[k]]
          /\ session'.scope = session.scope + 1 /\ session'.ranked = session.ranked
          /\ session'.papers = session.papers /\ session'.settled = session.settled
          /\ session'.target = session.target /\ session'.candidates = session.candidates
          /\ session'.windows = session.windows /\ session'.diagnosed = session.diagnosed
          /\ session'.recoveries = session.recoveries
      BY <1>5, <3>1 DEF SessionKeys
    <3>3. session.scope \in Nat /\ session.settled \in Nat /\ session.settled <= session.scope
      BY <1>1, ScopesAre DEF SessionSound
    <3>4. session'.settled <= session'.scope /\ session'.settled # session'.scope
      BY <3>2, <3>3
    <3> QED
      BY <1>1, <3>1, <3>2, <3>4 DEF SessionSound, Stays
  <2>2. CASE Retry
    BY <1>1, <2>2 DEF Retry, Turn, Stays
  <2>3. CASE Refresh
    <3>1. session' = [session EXCEPT !.candidates = DOMAIN session.papers, !.ranked = session.papers]
      BY <2>3 DEF Refresh, Turn
    <3>2. /\ session' = [k \in SessionKeys |-> session'[k]]
          /\ session'.scope = session.scope /\ session'.ranked = session.papers
          /\ session'.papers = session.papers /\ session'.settled = session.settled
          /\ session'.target = session.target /\ session'.candidates = DOMAIN session.papers
          /\ session'.windows = session.windows /\ session'.diagnosed = session.diagnosed
          /\ session'.recoveries = session.recoveries
      BY <1>5, <3>1 DEF SessionKeys
    <3>3. DOMAIN session.papers \subseteq Papers
      BY <1>1 DEF SessionSound, Table
    <3>4. \A p \in DOMAIN session.papers : Told(p, session.papers[p])
      BY <1>1 DEF SessionSound, Admitted, Told
    <3> QED
      BY <1>1, <3>2, <3>3, <3>4 DEF SessionSound, Stays
  <2> QED
    BY <2>1, <2>2, <2>3
<1> QED
  BY <1>1, <1>2, <1>4, <1>6 DEF RetrievalInv, PlaceSound
-----------------------------------------------------------------------------
(* The fetch                                                               *)

LEMMA StandingIs ==
  ASSUME SessionSound(session)
  PROVE  /\ Table(Standing) /\ DOMAIN Standing \subseteq DOMAIN session.papers
         /\ \A p \in DOMAIN Standing :
              Standing[p] = session.papers[p] /\ Standing[p].scope = session.scope
         /\ query.incremental =>
              \A p \in DOMAIN session.papers :
                session.papers[p].scope = session.scope => p \in DOMAIN Standing
<1>1. CASE query.incremental
  <2>1. Standing = [p \in {q \in DOMAIN session.papers : session.papers[q].scope = session.scope}
                      |-> session.papers[p]]
    BY <1>1 DEF Standing
  <2> QED
    BY <2>1 DEF SessionSound, Table
<1>2. CASE ~query.incremental
  BY <1>2, NoneIsTable DEF Standing
<1> QED
  BY <1>1, <1>2

LEMMA TargetIsNumber ==
  ASSUME SessionSound(session), NEW pool \in PoolTargets
  PROVE  PoolTarget(pool) \in Nat
<1>1. Cardinality(DOMAIN Standing) \in Nat
  BY StandingIs, CountsAreNaturals
<1>2. Wanted \in Nat
  BY <1>1, RetrievalNumbers DEF Wanted, Higher
<1>3. PICK w \in Nat : w = Wanted
  BY <1>2
<1>4. Half(w) \in Nat
  BY DEF Half
<1>5. pool \in Nat /\ session.target \in Nat /\ Limit \in Nat
  BY RetrievalNumbers DEF SessionSound
<1> QED
  BY <1>3, <1>4, <1>5 DEF PoolTarget, Higher, Lower

(* What is read of a paper, and what makes it valid. *)
LEMMA AwaitedAre ==
  ASSUME SessionSound(session), NEW p \in Awaited, NEW filled
  PROVE  /\ p \in Papers /\ p \in DOMAIN session.ranked /\ p \notin DOMAIN Standing
         /\ session.ranked[p] # Pending /\ Told(p, session.ranked[p])
         /\ Now(p, filled) \in {"raw", "full"}
<1>1. p \in DOMAIN session.ranked /\ session.ranked[p] # Pending /\ p \notin DOMAIN Standing
  BY DEF Awaited
<1>2. p \in Papers /\ session.ranked[p] \in TableEntries /\ Told(p, session.ranked[p])
  BY <1>1 DEF SessionSound, Table
<1>3. Now(p, filled) \in {"raw", "full"}
  BY <1>2 DEF Now, TableEntries
<1> QED
  BY <1>1, <1>2, <1>3

LEMMA ValidAreAdmitted ==
  ASSUME SessionSound(session), NEW filled, NEW lost, NEW p \in Awaited, Valid(p, filled, lost)
  PROVE  LET v == [scope |-> session.scope, read |-> Now(p, filled)]
         IN v \in TableEntries /\ Admitted(p, v)
<1>1. PICK read : read = Now(p, filled)
  OBVIOUS
<1>2. /\ read \in {"raw", "full"} /\ session.scope \in Scopes
      /\ session.ranked[p] # Pending /\ Told(p, session.ranked[p])
  BY <1>1, AwaitedAre DEF SessionSound
<1>3. Has(p, Years[session.scope]) /\ <<p, read>> \in Passes[session.scope]
  BY <1>1 DEF Valid
<1>4. <<p, read>> \in Fit[session.scope]
  <2>1. CASE Stands(p, read)
    <3>1. session.ranked[p] = [scope |-> session.scope, read |-> read]
      BY <2>1 DEF Stands
    <3> QED
      BY <1>2, <3>1 DEF Told
  <2>2. CASE ~Stands(p, read)
    BY <1>1, <2>2 DEF Valid
  <2> QED
    BY <2>1, <2>2
<1>5. PICK v : v = [scope |-> session.scope, read |-> read]
  OBVIOUS
<1>6. v \in TableEntries /\ Admitted(p, v)
  BY <1>2, <1>3, <1>4, <1>5 DEF TableEntries, Admitted
<1> QED
  BY <1>1, <1>5, <1>6

(* The details a fetch ends with. *)
LEMMA FetchedAreSound ==
  ASSUME SessionSound(session), NEW filled, NEW lost, NEW n,
         NEW papers, papers = Merged(Standing, [p \in ValidOf(n, filled, lost) |->
                                       [scope |-> session.scope, read |-> Now(p, filled)]])
  PROVE  /\ Table(papers) /\ DOMAIN Standing \subseteq DOMAIN papers
         /\ \A p \in DOMAIN papers : papers[p].scope = session.scope /\ Admitted(p, papers[p])
<1>1. PICK valid : valid = ValidOf(n, filled, lost)
  OBVIOUS
<1>2. PICK added : added = [p \in valid |-> [scope |-> session.scope, read |-> Now(p, filled)]]
  OBVIOUS
<1>3. valid \subseteq Awaited /\ \A p \in valid : Valid(p, filled, lost)
  BY <1>1 DEF ValidOf, First
<1>4. ASSUME NEW p \in valid
      PROVE  /\ p \in Papers /\ added[p] \in TableEntries
             /\ Admitted(p, added[p]) /\ added[p].scope = session.scope
  <2>1. p \in Awaited /\ Valid(p, filled, lost)
    BY <1>3
  <2>2. added[p] = [scope |-> session.scope, read |-> Now(p, filled)]
    BY <1>2
  <2> QED
    BY <2>1, <2>2, AwaitedAre, ValidAreAdmitted
<1>5. DOMAIN added = valid /\ added = [p \in DOMAIN added |-> added[p]]
  BY <1>2
<1>6. Table(added)
  BY <1>4, <1>5 DEF Table
<1>7. \A p \in DOMAIN Standing : /\ p \in DOMAIN session.papers
                                 /\ Standing[p] = session.papers[p]
                                 /\ Standing[p].scope = session.scope
  BY StandingIs
<1>8. \A p \in DOMAIN Standing : Admitted(p, Standing[p])
  BY <1>7 DEF SessionSound
<1>9. papers = Merged(Standing, added)
  BY <1>1, <1>2
<1>10. /\ Table(papers) /\ DOMAIN papers = DOMAIN Standing \cup DOMAIN added
       /\ \A p \in DOMAIN added : papers[p] = added[p]
       /\ \A p \in DOMAIN Standing \ DOMAIN added : papers[p] = Standing[p]
  <2>1. PICK kept : kept = Standing
    OBVIOUS
  <2>2. Table(kept)
    BY <2>1, StandingIs
  <2>3. /\ Table(Merged(kept, added)) /\ DOMAIN Merged(kept, added) = DOMAIN kept \cup DOMAIN added
        /\ \A p \in DOMAIN added : Merged(kept, added)[p] = added[p]
        /\ \A p \in DOMAIN kept \ DOMAIN added : Merged(kept, added)[p] = kept[p]
    BY <1>6, <2>2, MergedTables, Zenon
  <2>4. papers = Merged(kept, added) /\ kept = Standing
    BY <1>9, <2>1
  <2> QED
    BY <2>3, <2>4
<1> QED
  BY <1>4, <1>5, <1>7, <1>8, <1>10

(* A fetch of an increment keeps the details. *)
Keeps ==
  /\ session'.scope = session.scope
  /\ query.incremental =>
       \A p \in DOMAIN session.papers :
         session.papers[p].scope = session.scope => p \in DOMAIN session'.papers

LEMMA FetchKeeps ==
  ASSUME RetrievalInv, FetchDetails
  PROVE  RetrievalInv' /\ Keeps
<1>1. SessionSound(session) /\ QuerySound(query) /\ PlaceSound
  BY DEF RetrievalInv
<1>2. PICK filled \in SUBSET (Enriched \cap DOMAIN session.ranked), lost \in SUBSET DOMAIN session.ranked :
        Fetch(filled, lost)
  BY DEF FetchDetails
<1>3. PICK pool \in PoolTargets :
        \E target \in {PoolTarget(pool)} :
        \E n \in {Through(target, filled, lost)} :
        \E valid \in {ValidOf(n, filled, lost)} :
        \E papers \in {Merged(Standing, [p \in valid |-> [scope |-> session.scope, read |-> Now(p, filled)]])} :
           /\ session' = [session EXCEPT !.papers = papers, !.target = target, !.settled = session.scope]
           /\ query' = [query EXCEPT
                !.met = Cardinality(DOMAIN papers) >= Required,
                !.judged = @ \cup {<<p, Now(p, filled)>> :
                             p \in {q \in First(Awaited, n) : ~Stands(q, Now(q, filled)) /\ Heard(q, filled, lost)}},
                !.mode = IF @ = "refresh" THEN "refreshed" ELSE @]
  BY <1>2 DEF Fetch
<1>4a. PICK target \in {PoolTarget(pool)} :
        \E n \in {Through(target, filled, lost)} :
        \E valid \in {ValidOf(n, filled, lost)} :
        \E papers \in {Merged(Standing, [p \in valid |-> [scope |-> session.scope, read |-> Now(p, filled)]])} :
           /\ session' = [session EXCEPT !.papers = papers, !.target = target, !.settled = session.scope]
           /\ query' = [query EXCEPT
                !.met = Cardinality(DOMAIN papers) >= Required,
                !.judged = @ \cup {<<p, Now(p, filled)>> :
                             p \in {q \in First(Awaited, n) : ~Stands(q, Now(q, filled)) /\ Heard(q, filled, lost)}},
                !.mode = IF @ = "refresh" THEN "refreshed" ELSE @]
  BY <1>3
<1>4b. PICK n \in {Through(target, filled, lost)} :
        \E valid \in {ValidOf(n, filled, lost)} :
        \E papers \in {Merged(Standing, [p \in valid |-> [scope |-> session.scope, read |-> Now(p, filled)]])} :
           /\ session' = [session EXCEPT !.papers = papers, !.target = target, !.settled = session.scope]
           /\ query' = [query EXCEPT
                !.met = Cardinality(DOMAIN papers) >= Required,
                !.judged = @ \cup {<<p, Now(p, filled)>> :
                             p \in {q \in First(Awaited, n) : ~Stands(q, Now(q, filled)) /\ Heard(q, filled, lost)}},
                !.mode = IF @ = "refresh" THEN "refreshed" ELSE @]
  BY <1>4a
<1>4c. PICK valid \in {ValidOf(n, filled, lost)} :
        \E papers \in {Merged(Standing, [p \in valid |-> [scope |-> session.scope, read |-> Now(p, filled)]])} :
           /\ session' = [session EXCEPT !.papers = papers, !.target = target, !.settled = session.scope]
           /\ query' = [query EXCEPT
                !.met = Cardinality(DOMAIN papers) >= Required,
                !.judged = @ \cup {<<p, Now(p, filled)>> :
                             p \in {q \in First(Awaited, n) : ~Stands(q, Now(q, filled)) /\ Heard(q, filled, lost)}},
                !.mode = IF @ = "refresh" THEN "refreshed" ELSE @]
  BY <1>4b
<1>4d. PICK papers \in {Merged(Standing, [p \in valid |-> [scope |-> session.scope, read |-> Now(p, filled)]])} :
        /\ session' = [session EXCEPT !.papers = papers, !.target = target, !.settled = session.scope]
        /\ query' = [query EXCEPT
             !.met = Cardinality(DOMAIN papers) >= Required,
             !.judged = @ \cup {<<p, Now(p, filled)>> :
                    p \in {q \in First(Awaited, n) : ~Stands(q, Now(q, filled)) /\ Heard(q, filled, lost)}},
             !.mode = IF @ = "refresh" THEN "refreshed" ELSE @]
  BY <1>4c
<1>5. /\ Table(papers) /\ DOMAIN Standing \subseteq DOMAIN papers
      /\ \A p \in DOMAIN papers : papers[p].scope = session.scope /\ Admitted(p, papers[p])
  BY <1>1, <1>4c, <1>4d, FetchedAreSound
<1>6. target \in Nat
  BY <1>1, <1>4a, TargetIsNumber
<1>7. PICK met \in BOOLEAN : met = (Cardinality(DOMAIN papers) >= Required)
  BY <1>5, ComparesCounts
<1>8. PICK judged : judged = query.judged \cup {<<p, Now(p, filled)>> :
             p \in {q \in First(Awaited, n) : ~Stands(q, Now(q, filled)) /\ Heard(q, filled, lost)}}
  OBVIOUS
<1>9. judged \subseteq Papers \X {"raw", "full"}
  <2>1. \A p \in Awaited : p \in Papers /\ Now(p, filled) \in {"raw", "full"}
    BY <1>1, AwaitedAre
  <2>2. First(Awaited, n) \subseteq Awaited
    BY DEF First
  <2>3. query.judged \subseteq Papers \X {"raw", "full"}
    BY <1>1 DEF QuerySound
  <2> QED
    BY <1>8, <2>1, <2>2, <2>3
<1>10. PICK mode : mode = (IF query.mode = "refresh" THEN "refreshed" ELSE query.mode)
  OBVIOUS
<1>11. /\ session' = [k \in SessionKeys |-> session'[k]]
       /\ session'.scope = session.scope /\ session'.ranked = session.ranked
       /\ session'.papers = papers /\ session'.settled = session.scope
       /\ session'.target = target /\ session'.candidates = session.candidates
       /\ session'.windows = session.windows /\ session'.diagnosed = session.diagnosed
       /\ session'.recoveries = session.recoveries
  <2>1. session = [k \in SessionKeys |-> session[k]]
    BY <1>1 DEF SessionSound
  <2> QED
    BY <1>4d, <2>1 DEF SessionKeys
<1>12. SessionSound(session')
  <2>1. session.scope \in Nat
    BY <1>1, ScopesAre DEF SessionSound
  <2> QED
    BY <1>1, <1>5, <1>6, <1>11, <2>1 DEF SessionSound
<1>13. /\ query' = [k \in QueryKeys |-> query'[k]]
       /\ query'.mode = mode /\ query'.incremental = query.incremental
       /\ query'.window = query.window /\ query'.recovering = query.recovering
       /\ query'.anchored = query.anchored /\ query'.met = met
       /\ query'.failed = query.failed /\ query'.fresh = query.fresh
       /\ query'.model = query.model /\ query'.judged = judged
  <2>1. query = [k \in QueryKeys |-> query[k]]
    BY <1>1 DEF QuerySound
  <2>2. query' = [query EXCEPT !.met = met, !.judged = judged, !.mode = mode]
    BY <1>4d, <1>7, <1>8, <1>10
  <2> QED
    BY <2>1, <2>2 DEF QueryKeys
<1>14. QuerySound(query')
  BY <1>1, <1>7, <1>9, <1>10, <1>13 DEF QuerySound
<1>15. query'.met => Enough(session')
  BY <1>7, <1>11, <1>13 DEF Enough
<1>16. PlaceSound'
  BY <1>1 DEF PlaceSound, FetchDetails
<1>17. Keeps
  <2>1. query.incremental =>
          \A p \in DOMAIN session.papers :
            session.papers[p].scope = session.scope => p \in DOMAIN Standing
    BY <1>1, StandingIs
  <2> QED
    BY <1>5, <1>11, <2>1 DEF Keeps
<1> QED
  BY <1>12, <1>14, <1>15, <1>16, <1>17 DEF RetrievalInv
-----------------------------------------------------------------------------
(* Every step keeps the invariant, and what EvidenceKept asks.             *)
LEMMA StepKeeps ==
  ASSUME RetrievalInv, [RetrievalNext]_retrievalVars
  PROVE  RetrievalInv' /\ (Stays \/ Keeps)
<1>1. CASE JudgeWaiting
  BY <1>1, JudgeWaitingKeeps
<1>2. CASE Start
  BY <1>2, StartKeeps
<1>3. CASE SearchAgain
  BY <1>3, SearchAgainKeeps
<1>4. CASE RankRound \/ Finish \/ RankOnce
  BY <1>4, RankingKeeps
<1>5. CASE Refine
  BY <1>5, RefineKeeps
<1>6. CASE Leave \/ Stop
  BY <1>6, PausesKeep
<1>7. CASE RecoverRoute \/ RecoverCitations
  BY <1>7, RecoverKeeps
<1>8. CASE Settle
  BY <1>8, SettleKeeps
<1>9. CASE FetchDetails
  BY <1>9, FetchKeeps
<1>10. CASE Widen \/ Retry \/ Refresh
  BY <1>10, TurnsKeep
<1>11. CASE UNCHANGED retrievalVars
  BY <1>11 DEF retrievalVars, RetrievalInv, PlaceSound, Stays
<1> QED
  BY <1>1, <1>2, <1>3, <1>4, <1>5, <1>6, <1>7, <1>8, <1>9, <1>10, <1>11 DEF RetrievalNext

(* The invariant holds in every state.                                     *)
THEOREM RetrievalInvariant == RetrievalSpec => []RetrievalInv
<1>1. RetrievalInit => RetrievalInv
  BY StartsSound
<1>2. RetrievalInv /\ [RetrievalNext]_retrievalVars => RetrievalInv'
  BY StepKeeps
<1> QED
  BY <1>1, <1>2, PTL DEF RetrievalSpec

(* Whatever is searched, screened, widened and read, in any order and with *)
(* any answers lost, the details of a settled scope were all admitted for  *)
(* it by what is known of them, and the requirement is called met only     *)
(* with enough papers (fetch_detail_node, screen_candidates).              *)
THEOREM EvidenceIsSound == RetrievalSpec => []EvidenceSound
<1>1. RetrievalInv => EvidenceSound
  <2> SUFFICES ASSUME RetrievalInv
               PROVE  EvidenceSound
    OBVIOUS
  <2>1. SessionSound(session) /\ QuerySound(query) /\ (query.met => Enough(session)) /\ PlaceSound
    BY DEF RetrievalInv
  <2>2. session.ranked \in Verdicts /\ session.papers \in Verdicts
    BY <2>1, TablesAreVerdicts DEF SessionSound
  <2>3. {query.incremental, query.recovering, query.anchored, query.met,
         query.failed, query.fresh, query.model} \subseteq BOOLEAN
    BY <2>1 DEF QuerySound
  <2>4. \A w \in session.windows : w[2] \in {Years[s] : s \in Scopes} \cup {Added[s] : s \in Scopes}
    BY <2>1 DEF SessionSound, Spans
  <2>5. RetrievalTypeOK
    BY <2>1, <2>2, <2>3, <2>4 DEF RetrievalTypeOK, SessionSound, QuerySound, PlaceSound
  <2>6. ASSUME session.settled = session.scope, NEW p \in DOMAIN session.papers
        PROVE  /\ session.papers[p].scope = session.scope
               /\ <<p, session.papers[p].read>> \in Fit[session.scope] \cap Passes[session.scope]
               /\ Has(p, Years[session.scope])
    <3>1. session.papers[p].scope = session.scope
      BY <2>1, <2>6 DEF SessionSound
    <3>2. Admitted(p, session.papers[p])
      BY <2>1 DEF SessionSound
    <3> QED
      BY <3>1, <3>2 DEF Admitted
  <2> QED
    BY <2>1, <2>5, <2>6 DEF EvidenceSound, Enough
<1> QED
  BY <1>1, RetrievalInvariant, PTL

(* No step of a run that only adds to the evidence drops a detail that was *)
(* admitted for the scope: EvidenceKept, for any words, papers and limits. *)
THEOREM EvidenceIsKept == RetrievalSpec => EvidenceKept
<1>1. RetrievalInv /\ [RetrievalNext]_retrievalVars =>
        [query.incremental /\ session'.scope = session.scope /\ query'.mode = "search" =>
           \A p \in DOMAIN session.papers :
             session.papers[p].scope = session.scope => p \in DOMAIN session'.papers]_retrievalVars
  <2> SUFFICES ASSUME RetrievalInv, [RetrievalNext]_retrievalVars, query.incremental,
                      NEW p \in DOMAIN session.papers, session.papers[p].scope = session.scope
               PROVE  p \in DOMAIN session'.papers
    OBVIOUS
  <2>1. CASE Stays
    BY <2>1 DEF Stays
  <2>2. CASE Keeps
    BY <2>2 DEF Keeps
  <2> QED
    BY <2>1, <2>2, StepKeeps
<1> QED
  BY <1>1, RetrievalInvariant, PTL DEF RetrievalSpec, EvidenceKept

-----------------------------------------------------------------------------
(* A sequence of elements of a set is one of a larger set. *)
LEMMA SeqWidens ==
  ASSUME NEW X, NEW Y, X \subseteq Y, NEW s \in Seq(X)
  PROVE  s \in Seq(Y)
OBVIOUS

LEMMA OnlySeq ==
  ASSUME NEW X, NEW s \in Seq(X), NEW S
  PROVE  Only(s, S) \in Seq(X \cap S)
<1> DEFINE V == Seq(X \cap S)
           n == Len(s)
           Fold(g) == g = [i \in 0 .. n |->
                             IF i = 0 THEN <<>>
                             ELSE IF s[i] \in S THEN Append(g[i - 1], s[i]) ELSE g[i - 1]]
<1>1. PICK R : R = [p \in (1 .. n) \X V |->
                      IF s[p[1]] \in S THEN Append(p[2], s[p[1]]) ELSE p[2]]
  OBVIOUS
<1>2. n \in Nat /\ <<>> \in V /\ R \in [(1 .. n) \X V -> V]
  BY <1>1
<1>3. PICK m \in [0 .. n -> V] : StepChain(m, n, <<>>, R)
  <2> HIDE DEF V, n
  <2> QED
    BY <1>2, ChainExists
<1>4. Fold(m)
  <2>1. ASSUME NEW i \in 0 .. n
        PROVE  m[i] = IF i = 0 THEN <<>>
                      ELSE IF s[i] \in S THEN Append(m[i - 1], s[i]) ELSE m[i - 1]
    <3>1. m[i] = IF i = 0 THEN <<>> ELSE R[<<i, m[i - 1]>>]
      BY <1>3 DEF StepChain
    <3>2. i # 0 => i \in 1 .. n /\ m[i - 1] \in V
      BY <1>2
    <3> QED
      BY <1>1, <3>1, <3>2
  <2> QED
    BY <2>1
<1>5. PICK g : g = CHOOSE h : Fold(h)
  OBVIOUS
<1>6. Fold(g)
  BY <1>4, <1>5
<1>7. Only(s, S) = g[n]
  BY <1>5 DEF Only
<1>8. ASSUME NEW i \in 1 .. n, g[i - 1] \in V PROVE g[i] \in V
  <2>1. g[i] = IF s[i] \in S THEN Append(g[i - 1], s[i]) ELSE g[i - 1]
    <3>1. i \in 0 .. n /\ i # 0
      BY <1>2
    <3>2. \A j \in 0 .. n :
            g[j] = IF j = 0 THEN <<>>
                   ELSE IF s[j] \in S THEN Append(g[j - 1], s[j]) ELSE g[j - 1]
      BY <1>6
    <3> QED
      BY <3>1, <3>2
  <2>2. s[i] \in X
    OBVIOUS
  <2> QED
    BY <1>8, <2>1, <2>2
<1>9. g[0] \in V
  BY <1>2, <1>6
<1> QED
  BY <1>2, <1>7, <1>8, <1>9, ChainStays

-----------------------------------------------------------------------------
(* The selections of words return words they were given.                   *)
LEMMA OnlyIn ==
  ASSUME NEW X, NEW s \in Seq(X), NEW S
  PROVE  Only(s, S) \in Seq(X) /\ Only(s, S) \in Seq(S)
<1>1. Only(s, S) \in Seq(X \cap S)
  BY OnlySeq
<1>2. X \cap S \subseteq X /\ X \cap S \subseteq S
  OBVIOUS
<1> QED
  BY <1>1, <1>2, SeqWidens

LEMMA WithoutSeq ==
  ASSUME NEW X, NEW s \in Seq(X), NEW S
  PROVE  Without(s, S) \in Seq(X \ S)
<1>1. Only(s, ToSet(s) \ S) \in Seq(X \cap (ToSet(s) \ S))
  BY OnlySeq
<1>2. X \cap (ToSet(s) \ S) \subseteq X \ S
  OBVIOUS
<1> QED
  BY <1>1, <1>2, SeqWidens DEF Without

LEMMA WithoutIn ==
  ASSUME NEW X, NEW s \in Seq(X), NEW S
  PROVE  Without(s, S) \in Seq(X)
<1>1. X \ S \subseteq X
  OBVIOUS
<1> QED
  BY <1>1, WithoutSeq, SeqWidens

LEMMA AheadSeq ==
  ASSUME NEW X, NEW s \in Seq(X), NEW S
  PROVE  Ahead(s, S) \in Seq(X)
<1>1. Only(s, S) \in Seq(X) /\ Without(s, S) \in Seq(X)
  BY OnlyIn, WithoutIn
<1> QED
  BY <1>1 DEF Ahead

LEMMA CutSeq ==
  ASSUME NEW X, NEW s \in Seq(X), NEW n \in Int
  PROVE  Cut(s, n) \in Seq(X)
<1> DEFINE m == IF n < Len(s) THEN n ELSE Len(s)
<1>1. m \in Int /\ m <= Len(s) /\ Len(s) \in Nat
  OBVIOUS
<1> HIDE DEF m
<1>2. SubSeq(s, 1, m) \in Seq(X)
  BY <1>1
<1> QED
  BY <1>2 DEF Cut, m

LEMMA ToSetIn ==
  ASSUME NEW X, NEW s \in Seq(X)
  PROVE  ToSet(s) \subseteq X
BY DEF ToSet

(* Dropping repetitions leaves a sequence of the same elements.            *)
LEMMA UniqueSeq ==
  ASSUME NEW X, NEW s \in Seq(X)
  PROVE  Unique(s) \in Seq(X)
<1> DEFINE V == Seq(X)
           n == Len(s)
           Step(v, x) == IF Contains(v, x) THEN v ELSE Append(v, x)
           Fold(g) == g = [t \in SUBSET DOMAIN s |->
                             IF t = {} THEN <<>>
                             ELSE Step(g[t \ {Max(t)}], s[Max(t)])]
<1>1. /\ n \in Nat /\ DOMAIN s = 1 .. n /\ <<>> \in V
  OBVIOUS
<1>2. ASSUME NEW v \in V, NEW i \in 1 .. n PROVE Step(v, s[i]) \in V
  BY <1>1
<1> HIDE DEF V, n, Step
<1>3. PICK R : R = [p \in (1 .. n) \X V |-> Step(p[2], s[p[1]])]
  OBVIOUS
<1>4. R \in [(1 .. n) \X V -> V]
  BY <1>2, <1>3
<1>5. PICK m \in [SUBSET (1 .. n) -> V] : LeftFold(m, n, <<>>, R)
  BY <1>1, <1>4, LeftExists
<1>6. Fold(m)
  <2>1. ASSUME NEW t \in SUBSET (1 .. n)
        PROVE  m[t] = IF t = {} THEN <<>> ELSE Step(m[t \ {Max(t)}], s[Max(t)])
    <3>1. m[t] = IF t = {} THEN <<>> ELSE R[<<Max(t), m[t \ {Max(t)}]>>]
      BY <1>5 DEF LeftFold
    <3>2. t # {} => Max(t) \in 1 .. n /\ m[t \ {Max(t)}] \in V
      BY <1>1, Largest
    <3> QED
      BY <1>3, <3>1, <3>2
  <2> QED
    BY <1>1, <2>1
<1>7. PICK g : g = CHOOSE h : Fold(h)
  OBVIOUS
<1>8. Fold(g)
  BY <1>6, <1>7
<1>9. Unique(s) = g[DOMAIN s]
  BY <1>7 DEF Unique, FoldLeft, MapThenFoldSet, Step
<1>10. ASSUME NEW t \in SUBSET (1 .. n), t # {}, g[t \ {Max(t)}] \in V
       PROVE  g[t] \in V
  <2>1. g[t] = Step(g[t \ {Max(t)}], s[Max(t)])
    BY <1>1, <1>8, <1>10
  <2>2. Max(t) \in 1 .. n
    BY <1>1, <1>10, Largest
  <2> QED
    BY <1>2, <1>10, <2>1, <2>2
<1>11. g[{}] \in V
  BY <1>1, <1>8
<1>12. g[1 .. n] \in V
  BY <1>1, <1>10, <1>11, LeftStays
<1> QED
  BY <1>1, <1>9, <1>12 DEF V

LEMMA MixedSeq ==
  ASSUME NEW X, NEW s \in Seq(X), NEW n \in Int
  PROVE  Mixed(s, n) \in Seq(X)
<1>1. CASE s = <<>>
  BY <1>1 DEF Mixed
<1>2. CASE s # <<>>
  <2> DEFINE latin == Only(Tail(s), Latin)
             first == IF Head(s) \in Han /\ latin # <<>>
                      THEN Cut(latin, n - 1) \o <<Head(s)>>
                      ELSE <<Head(s)>> \o latin
             rest == Without(Tail(s), Latin)
             chosen == Cut(first \o rest, n)
             han == Only(s, Han)
  <2>1. Tail(s) \in Seq(X) /\ Head(s) \in X /\ n - 1 \in Int
    BY <1>2
  <2>2. latin \in Seq(X) /\ rest \in Seq(X) /\ han \in Seq(X)
    BY <2>1, OnlyIn, WithoutIn
  <2>3. Cut(latin, n - 1) \in Seq(X)
    BY <2>1, <2>2, CutSeq
  <2> HIDE DEF latin, rest, han
  <2>4. first \in Seq(X)
    BY <2>1, <2>2, <2>3
  <2> HIDE DEF first
  <2>5. first \o rest \in Seq(X)
    BY <2>2, <2>4
  <2>6. chosen \in Seq(X)
    BY <2>5, CutSeq
  <2> HIDE DEF chosen
  <2>7. Cut(chosen, n - 1) \in Seq(X)
    BY <2>1, <2>6, CutSeq
  <2>8. han # <<>> => Append(Cut(chosen, n - 1), Head(han)) \in Seq(X)
    BY <2>2, <2>7
  <2>9. Mixed(s, n) = IF han # <<>> /\ ToSet(chosen) \cap Han = {}
                      THEN Append(Cut(chosen, n - 1), Head(han)) ELSE chosen
    BY <1>2 DEF Mixed, latin, rest, han, first, chosen
  <2> QED
    BY <2>6, <2>8, <2>9
<1> QED
  BY <1>1, <1>2

Branch == [queries : Seq(Words), targeted : BOOLEAN]

(* The voices of the branches are among the words asked about.             *)
LEMMA VoicesSeq ==
  ASSUME NEW X, NEW s \in Seq(X), NEW branches \in Seq(Branch), NEW most
  PROVE  Voices(s, branches, most) \in Seq(X)
<1> DEFINE V == Seq(X)
           n == Len(branches)
           Step(v, x) == IF Len(v) >= most \/ Only(x.queries, ToSet(s) \ ToSet(v)) = <<>> THEN v
                         ELSE Append(v, Head(Only(x.queries, ToSet(s) \ ToSet(v))))
           Fold(g) == g = [t \in SUBSET DOMAIN branches |->
                             IF t = {} THEN <<>>
                             ELSE Step(g[t \ {Max(t)}], branches[Max(t)])]
<1>1. /\ n \in Nat /\ DOMAIN branches = 1 .. n /\ <<>> \in V
  OBVIOUS
<1>2. ASSUME NEW v \in V, NEW i \in 1 .. n PROVE Step(v, branches[i]) \in V
  <2> DEFINE free == Only(branches[i].queries, ToSet(s) \ ToSet(v))
  <2>1. branches[i] \in Branch
    BY <1>1
  <2>2. branches[i].queries \in Seq(Words)
    BY <2>1 DEF Branch
  <2>3. free \in Seq(ToSet(s) \ ToSet(v))
    BY <2>2, OnlyIn
  <2> HIDE DEF free
  <2>4. free # <<>> => Head(free) \in X
    BY <2>3, ToSetIn
  <2>5. Step(v, branches[i]) = IF Len(v) >= most \/ free = <<>> THEN v ELSE Append(v, Head(free))
    BY DEF free
  <2>6. v \in Seq(X) /\ (free # <<>> => Append(v, Head(free)) \in Seq(X))
    BY <2>4
  <2> HIDE DEF Step
  <2> QED
    BY <2>5, <2>6
<1> HIDE DEF V, n, Step
<1>3. PICK R : R = [p \in (1 .. n) \X V |-> Step(p[2], branches[p[1]])]
  OBVIOUS
<1>4. R \in [(1 .. n) \X V -> V]
  BY <1>2, <1>3
<1>5. PICK m \in [SUBSET (1 .. n) -> V] : LeftFold(m, n, <<>>, R)
  BY <1>1, <1>4, LeftExists
<1>6. Fold(m)
  <2>1. ASSUME NEW t \in SUBSET (1 .. n)
        PROVE  m[t] = IF t = {} THEN <<>> ELSE Step(m[t \ {Max(t)}], branches[Max(t)])
    <3>1. m[t] = IF t = {} THEN <<>> ELSE R[<<Max(t), m[t \ {Max(t)}]>>]
      BY <1>5 DEF LeftFold
    <3>2. t # {} => Max(t) \in 1 .. n /\ m[t \ {Max(t)}] \in V
      BY <1>1, Largest
    <3> QED
      BY <1>3, <3>1, <3>2
  <2> QED
    BY <1>1, <2>1
<1>7. PICK g : g = CHOOSE h : Fold(h)
  OBVIOUS
<1>8. Fold(g)
  BY <1>6, <1>7
<1>9. Voices(s, branches, most) = g[DOMAIN branches]
  BY <1>7 DEF Voices, FoldLeft, MapThenFoldSet, Step
<1>10. ASSUME NEW t \in SUBSET (1 .. n), t # {}, g[t \ {Max(t)}] \in V
       PROVE  g[t] \in V
  <2>1. g[t] = Step(g[t \ {Max(t)}], branches[Max(t)])
    BY <1>1, <1>8, <1>10
  <2>2. Max(t) \in 1 .. n
    BY <1>1, <1>10, Largest
  <2> QED
    BY <1>2, <1>10, <2>1, <2>2
<1>11. g[{}] \in V
  BY <1>1, <1>8
<1>12. g[1 .. n] \in V
  BY <1>1, <1>10, <1>11, LeftStays
<1> QED
  BY <1>1, <1>9, <1>12 DEF V

LEMMA DiverseSeq ==
  ASSUME NEW X, NEW s \in Seq(X), NEW branches \in Seq(Branch), NEW n \in Int
  PROVE  Diverse(s, branches, n) \in Seq(X)
<1> DEFINE voices == Voices(s, branches, n)
           left == n - Len(voices)
<1>1. voices \in Seq(X)
  BY VoicesSeq
<1> HIDE DEF voices
<1>2. left \in Int
  BY <1>1
<1>3. Without(s, ToSet(voices)) \in Seq(X)
  BY WithoutIn
<1>4. Mixed(Without(s, ToSet(voices)), left) \in Seq(X)
  BY <1>2, <1>3, MixedSeq
<1>5. Cut(voices, n) \in Seq(X)
  BY <1>1, CutSeq
<1>6. voices \o Mixed(Without(s, ToSet(voices)), left) \in Seq(X)
  BY <1>1, <1>4
<1> QED
  BY <1>5, <1>6 DEF Diverse, voices

(* So are the queries of a recovery.                                       *)
LEMMA AskedSeq ==
  ASSUME NEW X, NEW s \in Seq(X), NEW branches \in Seq(Branch)
  PROVE  Asked(s, branches) \in Seq(X)
<1> DEFINE V == Seq(X)
           n == Len(branches)
           Step(v, x) == IF x.targeted THEN v \o Only(x.queries, ToSet(s)) ELSE v
           Fold(g) == g = [t \in SUBSET DOMAIN branches |->
                             IF t = {} THEN <<>>
                             ELSE Step(g[t \ {Max(t)}], branches[Max(t)])]
<1>1. /\ n \in Nat /\ DOMAIN branches = 1 .. n /\ <<>> \in V
  OBVIOUS
<1>2. ASSUME NEW v \in V, NEW i \in 1 .. n PROVE Step(v, branches[i]) \in V
  <2>1. branches[i] \in Branch
    BY <1>1
  <2>2. branches[i].queries \in Seq(Words)
    BY <2>1 DEF Branch
  <2>3. Only(branches[i].queries, ToSet(s)) \in Seq(ToSet(s))
    BY <2>2, OnlyIn
  <2>4. Only(branches[i].queries, ToSet(s)) \in Seq(X)
    BY <2>3, ToSetIn, SeqWidens
  <2> QED
    BY <2>4
<1> HIDE DEF V, n, Step
<1>3. PICK R : R = [p \in (1 .. n) \X V |-> Step(p[2], branches[p[1]])]
  OBVIOUS
<1>4. R \in [(1 .. n) \X V -> V]
  BY <1>2, <1>3
<1>5. PICK m \in [SUBSET (1 .. n) -> V] : LeftFold(m, n, <<>>, R)
  BY <1>1, <1>4, LeftExists
<1>6. Fold(m)
  <2>1. ASSUME NEW t \in SUBSET (1 .. n)
        PROVE  m[t] = IF t = {} THEN <<>> ELSE Step(m[t \ {Max(t)}], branches[Max(t)])
    <3>1. m[t] = IF t = {} THEN <<>> ELSE R[<<Max(t), m[t \ {Max(t)}]>>]
      BY <1>5 DEF LeftFold
    <3>2. t # {} => Max(t) \in 1 .. n /\ m[t \ {Max(t)}] \in V
      BY <1>1, Largest
    <3> QED
      BY <1>3, <3>1, <3>2
  <2> QED
    BY <1>1, <2>1
<1>7. PICK g : g = CHOOSE h : Fold(h)
  OBVIOUS
<1>8. Fold(g)
  BY <1>6, <1>7
<1>9. Asked(s, branches) = g[DOMAIN branches]
  BY <1>7 DEF Asked, FoldLeft, MapThenFoldSet, Step
<1>10. ASSUME NEW t \in SUBSET (1 .. n), t # {}, g[t \ {Max(t)}] \in V
       PROVE  g[t] \in V
  <2>1. g[t] = Step(g[t \ {Max(t)}], branches[Max(t)])
    BY <1>1, <1>8, <1>10
  <2>2. Max(t) \in 1 .. n
    BY <1>1, <1>10, Largest
  <2> QED
    BY <1>2, <1>10, <2>1, <2>2
<1>11. g[{}] \in V
  BY <1>1, <1>8
<1>12. g[1 .. n] \in V
  BY <1>1, <1>10, <1>11, LeftStays
<1> QED
  BY <1>1, <1>9, <1>12 DEF V

LEMMA GroupsSeq ==
  ASSUME NEW X, NEW s \in Seq(X)
  PROVE  Groups(s) \in Seq(Seq(X))
<1> DEFINE Batched(i) == Only(s, Batches[i] \ UNION {Batches[j] : j \in 1 .. i - 1})
           batched == [i \in DOMAIN Batches |-> Batched(i)]
<1>1. \A i \in DOMAIN Batches : Batched(i) \in Seq(X)
  BY OnlyIn
<1>2. DOMAIN Batches = 1 .. Len(Batches) /\ Len(Batches) \in Nat
  BY KeywordAssumption DEF KeywordAssumption
<1> HIDE DEF Batched
<1>3. batched \in Seq(Seq(X))
  BY <1>1, <1>2
<1>4. Without(s, UNION ToSet(Batches)) \in Seq(X)
  BY WithoutIn
<1> HIDE DEF batched
<1>5. Append(batched, Without(s, UNION ToSet(Batches))) \in Seq(Seq(X))
  BY <1>3, <1>4
<1> QED
  BY <1>5 DEF Groups, batched, Batched

(* What the batches fill in is among their words.                          *)
LEMMA FilledSeq ==
  ASSUME NEW X, NEW groups \in Seq(Seq(X)), NEW branches \in Seq(Branch), NEW most \in Int
  PROVE  Filled(groups, branches, most) \in Seq(X)
<1> DEFINE V == Seq(X)
           n == Len(groups)
           Step(v, x) == IF Len(v) >= most THEN v ELSE v \o Diverse(x, branches, most - Len(v))
           Fold(g) == g = [t \in SUBSET DOMAIN groups |->
                             IF t = {} THEN <<>>
                             ELSE Step(g[t \ {Max(t)}], groups[Max(t)])]
<1>1. /\ n \in Nat /\ DOMAIN groups = 1 .. n /\ <<>> \in V
  OBVIOUS
<1>2. ASSUME NEW v \in V, NEW i \in 1 .. n PROVE Step(v, groups[i]) \in V
  <2>1. groups[i] \in Seq(X) /\ most - Len(v) \in Int
    BY <1>1
  <2>2. Diverse(groups[i], branches, most - Len(v)) \in Seq(X)
    BY <2>1, DiverseSeq
  <2> QED
    BY <2>2
<1> HIDE DEF V, n, Step
<1>3. PICK R : R = [p \in (1 .. n) \X V |-> Step(p[2], groups[p[1]])]
  OBVIOUS
<1>4. R \in [(1 .. n) \X V -> V]
  BY <1>2, <1>3
<1>5. PICK m \in [SUBSET (1 .. n) -> V] : LeftFold(m, n, <<>>, R)
  BY <1>1, <1>4, LeftExists
<1>6. Fold(m)
  <2>1. ASSUME NEW t \in SUBSET (1 .. n)
        PROVE  m[t] = IF t = {} THEN <<>> ELSE Step(m[t \ {Max(t)}], groups[Max(t)])
    <3>1. m[t] = IF t = {} THEN <<>> ELSE R[<<Max(t), m[t \ {Max(t)}]>>]
      BY <1>5 DEF LeftFold
    <3>2. t # {} => Max(t) \in 1 .. n /\ m[t \ {Max(t)}] \in V
      BY <1>1, Largest
    <3> QED
      BY <1>3, <3>1, <3>2
  <2> QED
    BY <1>1, <2>1
<1>7. PICK g : g = CHOOSE h : Fold(h)
  OBVIOUS
<1>8. Fold(g)
  BY <1>6, <1>7
<1>9. Filled(groups, branches, most) = g[DOMAIN groups]
  BY <1>7 DEF Filled, FoldLeft, MapThenFoldSet, Step
<1>10. ASSUME NEW t \in SUBSET (1 .. n), t # {}, g[t \ {Max(t)}] \in V
       PROVE  g[t] \in V
  <2>1. g[t] = Step(g[t \ {Max(t)}], groups[Max(t)])
    BY <1>1, <1>8, <1>10
  <2>2. Max(t) \in 1 .. n
    BY <1>1, <1>10, Largest
  <2> QED
    BY <1>2, <1>10, <2>1, <2>2
<1>11. g[{}] \in V
  BY <1>1, <1>8
<1>12. g[1 .. n] \in V
  BY <1>1, <1>10, <1>11, LeftStays
<1> QED
  BY <1>1, <1>9, <1>12 DEF V

LEMMA BatchFirstSeq ==
  ASSUME NEW X, NEW s \in Seq(X), NEW branches \in Seq(Branch), NEW n \in Int
  PROVE  BatchFirst(s, branches, n) \in Seq(X)
<1> DEFINE wanted == Unique(Asked(s, branches))
           reserved == Cut(wanted, IF n < 2 THEN 1 ELSE n \div 2)
           rest == Without(s, ToSet(reserved))
           filled == Filled(Groups(rest), branches, n - Len(reserved))
<1>1. wanted \in Seq(X)
  BY AskedSeq, UniqueSeq
<1>2. (IF n < 2 THEN 1 ELSE n \div 2) \in Int
  OBVIOUS
<1> HIDE DEF wanted
<1>3. reserved \in Seq(X)
  BY <1>1, <1>2, CutSeq
<1> HIDE DEF reserved
<1>4. rest \in Seq(X)
  BY WithoutIn
<1> HIDE DEF rest
<1>5. Groups(rest) \in Seq(Seq(X))
  BY <1>4, GroupsSeq
<1>6. n - Len(reserved) \in Int
  BY <1>3
<1>7. filled \in Seq(X)
  BY <1>5, <1>6, FilledSeq
<1> HIDE DEF filled
<1>8. reserved \o filled \in Seq(X)
  BY <1>3, <1>7
<1> QED
  BY <1>8 DEF BatchFirst, wanted, reserved, rest, filled

(* The words picked for a round are words not searched yet.                *)
LEMMA PickedSeq ==
  ASSUME NEW X, NEW unseen \in Seq(X), NEW branches \in Seq(Branch)
  PROVE  Picked(unseen, branches) \in Seq(X)
<1> DEFINE ordered == Ahead(Ahead(unseen, Core), Recall)
           chosen == IF Batches = <<>> THEN Diverse(ordered, branches, WordLimit)
                     ELSE BatchFirst(ordered, branches, WordLimit)
<1>1. ordered \in Seq(X)
  BY AheadSeq
<1>2. WordLimit \in Int
  BY KeywordAssumption DEF KeywordAssumption
<1> HIDE DEF ordered
<1>3. chosen \in Seq(X)
  BY <1>1, <1>2, DiverseSeq, BatchFirstSeq
<1> HIDE DEF chosen
<1>4. Ahead(chosen, Core) \in Seq(X)
  BY <1>3, AheadSeq
<1> QED
  BY <1>4 DEF Picked, ordered, chosen

(* They are searched as they clean.                                        *)
LEMMA CleanedSeq ==
  ASSUME NEW X, X \subseteq Words, NEW s \in Seq(X)
  PROVE  Cleaned(s) \in Seq({Clean[k] : k \in X} \ {NoWord})
<1> DEFINE clean == [i \in DOMAIN s |-> Clean[s[i]]]
           C == {Clean[k] : k \in X}
           words == Without(clean, Generic \cup {NoWord})
<1>1. clean \in Seq(C)
  <2>1. DOMAIN s = 1 .. Len(s) /\ Len(s) \in Nat /\ \A i \in DOMAIN s : s[i] \in X
    OBVIOUS
  <2>2. \A i \in DOMAIN s : Clean[s[i]] \in C
    BY <2>1
  <2> HIDE DEF C
  <2> QED
    BY <2>1, <2>2
<1> HIDE DEF clean
<1>2. words \in Seq(C \ (Generic \cup {NoWord}))
  BY <1>1, WithoutSeq
<1>3. C \ (Generic \cup {NoWord}) \subseteq C \ {NoWord}
  OBVIOUS
<1> HIDE DEF words, C
<1>4. words \in Seq(C \ {NoWord})
  BY <1>2, <1>3, SeqWidens
<1>5. Unique(words) \in Seq(C \ {NoWord})
  BY <1>4, UniqueSeq
<1> QED
  BY <1>5 DEF Cleaned, words, clean, C

(* Dropping the words that say almost the same leaves the others.          *)
LEMMA DistinctSeq ==
  ASSUME NEW X, NEW s \in Seq(X)
  PROVE  Distinct(s) \in Seq(X)
<1> DEFINE V == Seq(X)
           n == Len(Ahead(s, Recall))
           Step(v, x) == IF x \notin Anchors /\ Within[x] \cap ToSet(v) # {} THEN v ELSE Append(v, x)
           Fold(g) == g = [t \in SUBSET DOMAIN Ahead(s, Recall) |->
                             IF t = {} THEN <<>>
                             ELSE Step(g[t \ {Max(t)}], Ahead(s, Recall)[Max(t)])]
<1>0. Ahead(s, Recall) \in Seq(X)
  BY AheadSeq
<1>1. /\ n \in Nat /\ DOMAIN Ahead(s, Recall) = 1 .. n /\ <<>> \in V
  BY <1>0
<1>2. ASSUME NEW v \in V, NEW i \in 1 .. n PROVE Step(v, Ahead(s, Recall)[i]) \in V
  BY <1>0, <1>1
<1> HIDE DEF V, n, Step
<1>3. PICK R : R = [p \in (1 .. n) \X V |-> Step(p[2], Ahead(s, Recall)[p[1]])]
  OBVIOUS
<1>4. R \in [(1 .. n) \X V -> V]
  BY <1>2, <1>3
<1>5. PICK m \in [SUBSET (1 .. n) -> V] : LeftFold(m, n, <<>>, R)
  BY <1>1, <1>4, LeftExists
<1>6. Fold(m)
  <2>1. ASSUME NEW t \in SUBSET (1 .. n)
        PROVE  m[t] = IF t = {} THEN <<>> ELSE Step(m[t \ {Max(t)}], Ahead(s, Recall)[Max(t)])
    <3>1. m[t] = IF t = {} THEN <<>> ELSE R[<<Max(t), m[t \ {Max(t)}]>>]
      BY <1>5 DEF LeftFold
    <3>2. t # {} => Max(t) \in 1 .. n /\ m[t \ {Max(t)}] \in V
      BY <1>1, Largest
    <3> QED
      BY <1>3, <3>1, <3>2
  <2> QED
    BY <1>1, <2>1
<1>7. PICK g : g = CHOOSE h : Fold(h)
  OBVIOUS
<1>8. Fold(g)
  BY <1>6, <1>7
<1>9. Distinct(s) = g[DOMAIN Ahead(s, Recall)]
  BY <1>7 DEF Distinct, FoldLeft, MapThenFoldSet, Step
<1>10. ASSUME NEW t \in SUBSET (1 .. n), t # {}, g[t \ {Max(t)}] \in V
       PROVE  g[t] \in V
  <2>1. g[t] = Step(g[t \ {Max(t)}], Ahead(s, Recall)[Max(t)])
    BY <1>1, <1>8, <1>10
  <2>2. Max(t) \in 1 .. n
    BY <1>1, <1>10, Largest
  <2> QED
    BY <1>2, <1>10, <2>1, <2>2
<1>11. g[{}] \in V
  BY <1>1, <1>8
<1>12. g[1 .. n] \in V
  BY <1>1, <1>10, <1>11, LeftStays
<1> QED
  BY <1>1, <1>9, <1>12 DEF V

(* The topic takes the place of another word in its clean form, or as it   *)
(* stands if nothing is left of it.                                        *)
Sent(X) == {IF Clean[k] = NoWord THEN k ELSE Clean[k] : k \in X}

LEMMA RoundSeq ==
  ASSUME NEW X, X \subseteq Words, NEW unseen \in Seq(X), NEW branches \in Seq(Branch)
  PROVE  Round(unseen, branches) \in Seq(Sent(X))
<1> DEFINE s == Distinct(Cleaned(Picked(unseen, branches)))
           anchors == Only(unseen, Anchors)
           anchor == IF Clean[Head(anchors)] = NoWord THEN Head(anchors) ELSE Clean[Head(anchors)]
<1>1. s \in Seq({Clean[k] : k \in X} \ {NoWord})
  BY PickedSeq, CleanedSeq, DistinctSeq
<1>2. {Clean[k] : k \in X} \ {NoWord} \subseteq Sent(X)
  BY DEF Sent
<1> HIDE DEF s
<1>3. s \in Seq(Sent(X))
  BY <1>1, <1>2, SeqWidens
<1>4. anchors \in Seq(X)
  BY OnlyIn
<1> HIDE DEF anchors
<1>5. anchors # <<>> => anchor \in Sent(X)
  BY <1>4 DEF Sent
<1> HIDE DEF anchor
<1>6. Len(s) - 1 \in Int
  BY <1>3
<1>7. Cut(s, Len(s) - 1) \in Seq(Sent(X))
  BY <1>3, <1>6, CutSeq
<1>8. anchors # <<>> => <<anchor>> \in Seq(Sent(X)) /\ Append(Cut(s, Len(s) - 1), anchor) \in Seq(Sent(X))
  BY <1>5, <1>7
<1>9. Round(unseen, branches)
        = IF ToSet(s) \cap Anchors # {} \/ anchors = <<>> THEN s
          ELSE IF s = <<>> THEN <<anchor>> ELSE Append(Cut(s, Len(s) - 1), anchor)
  BY DEF Round, Promoted, s, anchors, anchor
<1> QED
  BY <1>3, <1>8, <1>9

LEMMA SweptSeq ==
  ASSUME NEW s \in Seq(Words)
  PROVE  Swept(s) \in Seq(Words)
<1> DEFINE clean == [i \in DOMAIN s |-> Clean[s[i]]]
           words == Without(clean, {NoWord})
<1>1. clean \in Seq(Words \cup {NoWord})
  BY KeywordAssumption DEF KeywordAssumption
<1> HIDE DEF clean
<1>2. words \in Seq((Words \cup {NoWord}) \ {NoWord})
  BY <1>1, WithoutSeq
<1>3. (Words \cup {NoWord}) \ {NoWord} \subseteq Words
  OBVIOUS
<1> HIDE DEF words
<1>4. words \in Seq(Words)
  BY <1>2, <1>3, SeqWidens
<1>5. Unique(words) \in Seq(Words)
  BY <1>4, UniqueSeq
<1> QED
  BY <1>5 DEF Swept, words, clean

-----------------------------------------------------------------------------
(* What the searches rest on: the pool holds words, the branches hold      *)
(* sequences of them, and no window was searched twice.                    *)
Worded(s) == s.pool \in Seq(Words) /\ s.branches \in Seq(Branch)
WordsInv == Worded(session) /\ SentOnce

Shaped(s) == s = [k \in SessionKeys |-> s[k]]

(* A word of a round was not sent for the years of the round, or another   *)
(* word cleans to it.                                                      *)
LEMMA UnseenIsNew ==
  ASSUME NEW s, NEW q, Worded(s),
         NEW k \in ToSet(Round(Unseen(s, q), s.branches)),
         <<Key[k], Window(s, q)>> \in s.windows
  PROVE  \E j \in Words : Clean[j] # j /\ k = Clean[j]
<1> DEFINE X == {w \in Words : /\ <<Key[w], Window(s, q)>> \notin s.windows
                               /\ q.window # Whole \/ s.windows # {} \/ w \notin s.searched}
<1>1. s.pool \in Seq(Words) /\ s.branches \in Seq(Branch)
  BY DEF Worded
<1>2. Unseen(s, q) = Only(s.pool, X)
  BY DEF Unseen
<1>3. X \subseteq Words /\ \A w \in X : <<Key[w], Window(s, q)>> \notin s.windows
  OBVIOUS
<1> HIDE DEF X
<1>4. Unseen(s, q) \in Seq(X)
  BY <1>1, <1>2, OnlyIn
<1>5. Round(Unseen(s, q), s.branches) \in Seq(Sent(X))
  BY <1>1, <1>3, <1>4, RoundSeq
<1>6. k \in Sent(X)
  BY <1>5, ToSetIn
<1>7. PICK j \in X : k = IF Clean[j] = NoWord THEN j ELSE Clean[j]
  BY <1>6 DEF Sent
<1>8. k # j
  BY <1>3, <1>7
<1> QED
  BY <1>3, <1>7, <1>8

LEMMA RoundIsWords ==
  ASSUME NEW s, NEW q, Worded(s)
  PROVE  ToSet(Round(Unseen(s, q), s.branches)) \subseteq Words
<1>1. s.pool \in Seq(Words) /\ s.branches \in Seq(Branch)
  BY DEF Worded
<1>2. Unseen(s, q) \in Seq(Words)
  BY <1>1, OnlyIn DEF Unseen
<1>3. Round(Unseen(s, q), s.branches) \in Seq(Sent(Words))
  BY <1>1, <1>2, RoundSeq
<1>4. Sent(Words) \subseteq Words
  BY KeywordAssumption DEF KeywordAssumption, Sent
<1> QED
  BY <1>3, <1>4, ToSetIn

LEMMA SearchSendsOnce ==
  ASSUME NEW s, NEW q, Shaped(s), Worded(s), s.windows = session.windows, SentOnce, Search(s, q)
  PROVE  WordsInv'
<1> DEFINE words == Round(Unseen(s, q), s.branches)
           years == Window(s, q)
<1>0. PICK lost, voided : SearchOf(s, q, lost, voided)
  BY DEF Search
<1>1. LET browsed == Browsed(words, s.diagnosed /\ q.window = Whole, q.anchored)
          found == {p \in Papers : Has(p, years) /\ \E k \in ToSet(words) \ lost : p \in Found[k]}
      IN session' = [s EXCEPT
           !.candidates = @ \cup found,
           !.searched = @ \cup ToSet(words),
           !.windows = @ \cup {<<Key[k], years>> : k \in ToSet(words)},
           !.diagnosed = @ \/ (browsed # NoWord /\ ~voided)]
  BY <1>0 DEF SearchOf
<1>1a. PICK candidates : candidates = s.candidates \cup
         {p \in Papers : Has(p, years) /\ \E k \in ToSet(words) \ lost : p \in Found[k]}
  OBVIOUS
<1>1b. PICK diagnosed : diagnosed = (s.diagnosed \/
         (Browsed(words, s.diagnosed /\ q.window = Whole, q.anchored) # NoWord /\ ~voided))
  OBVIOUS
<1>2. again' = again \cup {k \in ToSet(words) : <<Key[k], years>> \in s.windows}
  BY <1>0 DEF SearchOf
<1>3. ToSet(words) \subseteq Words
  BY RoundIsWords
<1>4. \A k \in ToSet(words) : <<Key[k], years>> \in s.windows => \E j \in Words : Clean[j] # j /\ k = Clean[j]
  BY UnseenIsNew
<1> HIDE DEF words, years
<1>5. PICK windows : windows = s.windows \cup {<<Key[k], years>> : k \in ToSet(words)}
  OBVIOUS
<1>5a. session' = [s EXCEPT !.candidates = candidates,
                              !.searched = s.searched \cup ToSet(words),
                              !.windows = windows, !.diagnosed = diagnosed]
  BY <1>1, <1>1a, <1>1b, <1>5
<1>6. session'.pool = s.pool /\ session'.branches = s.branches /\ session'.windows = windows
  BY <1>5a DEF Shaped, SessionKeys
<1>7. \A w \in windows : w[1] \in Words
  BY <1>3, <1>5, RetrievalAssumption DEF SentOnce, RetrievalAssumption
<1>8. again' \subseteq {Clean[k] : k \in {w \in Words : Clean[w] # w}}
  BY <1>2, <1>4 DEF SentOnce
<1> QED
  BY <1>6, <1>7, <1>8 DEF WordsInv, Worded, SentOnce

LEMMA NewBranch ==
  ASSUME NEW words \in Seq(Words)
  PROVE  [queries |-> words, targeted |-> TRUE] \in Branch
BY DEF Branch

LEMMA FocusedIsWorded ==
  ASSUME NEW s, Shaped(s), Worded(s), NEW words \in Seq(Words)
  PROVE  /\ Shaped(Focused(s, words)) /\ Worded(Focused(s, words))
         /\ Focused(s, words).windows = s.windows
<1> DEFINE swept == Swept(words)
           branch == [queries |-> swept, targeted |-> TRUE]
           pool == swept \o Without(s.pool, ToSet(swept))
           branches == <<branch>> \o Without(s.branches, {branch})
<1>1. swept \in Seq(Words)
  BY SweptSeq
<1>2. Focused(s, words) = IF words = <<>> THEN s
                          ELSE [s EXCEPT !.pool = pool, !.branches = branches]
  BY DEF Focused
<1> HIDE DEF swept
<1>3. branch \in Branch
  BY <1>1, NewBranch
<1>4. s.pool \in Seq(Words) /\ s.branches \in Seq(Branch)
  BY DEF Worded
<1>5. Without(s.pool, ToSet(swept)) \in Seq(Words)
  BY <1>4, WithoutIn
<1>6. pool \in Seq(Words)
  BY <1>1, <1>5
<1> HIDE DEF branch, pool
<1>7. Without(s.branches, {branch}) \in Seq(Branch)
  BY <1>4, WithoutIn
<1>8. branches \in Seq(Branch)
  BY <1>3, <1>7
<1> HIDE DEF branches
<1> QED
  BY <1>2, <1>4, <1>6, <1>8 DEF Shaped, Worded, SessionKeys

LEMMA StartsWorded ==
  ASSUME RetrievalInit
  PROVE  WordsInv
BY RetrievalAssumption DEF RetrievalInit, RetrievalAssumption, WordsInv, Worded, SentOnce

(* A step keeps the words: those that do not search leave alone what was   *)
(* sent.                                                                   *)
LEMMA WordsStay ==
  ASSUME Shaped(session), WordsInv, [RetrievalNext]_retrievalVars
  PROVE  WordsInv'
<1> USE DEF WordsInv
<1>1. CASE Start
  <2>1. PICK words \in Focuses : Search(Focused(session, words), query)
    BY <1>1 DEF Start
  <2>2. words \in Seq(Words)
    <3>1. words = <<>> \/ words \in Recovery
      BY <2>1 DEF Focuses
    <3>2. Recovery \subseteq Seq(Words) /\ <<>> \in Seq(Words)
      BY RetrievalAssumption DEF RetrievalAssumption
    <3> QED
      BY <3>1, <3>2
  <2>3. /\ Shaped(Focused(session, words)) /\ Worded(Focused(session, words))
        /\ Focused(session, words).windows = session.windows
    BY <2>2, FocusedIsWorded
  <2> QED
    BY <2>1, <2>3, SearchSendsOnce
<1>2. CASE SearchAgain
  BY <1>2, SearchSendsOnce DEF SearchAgain
<1>3. CASE RecoverRoute
  <2>1. PICK words \in Recovery :
          Search([session EXCEPT !.pool = Unique(@ \o words), !.recoveries = @ + 1,
                                 !.branches = Append(@, [queries |-> words, targeted |-> TRUE])],
                 Recovering(session))
    BY <1>3 DEF RecoverRoute
  <2>2. words \in Seq(Words) /\ session.pool \in Seq(Words) /\ session.branches \in Seq(Branch)
    BY RetrievalAssumption DEF RetrievalAssumption, Worded
  <2>3. PICK pool : pool = Unique(session.pool \o words)
    OBVIOUS
  <2>4. PICK branches : branches = Append(session.branches, [queries |-> words, targeted |-> TRUE])
    OBVIOUS
  <2>5. pool \in Seq(Words)
    <3>1. session.pool \o words \in Seq(Words)
      BY <2>2
    <3> QED
      BY <2>3, <3>1, UniqueSeq
  <2>6. branches \in Seq(Branch)
    BY <2>2, <2>4, NewBranch
  <2>7. PICK s : s = [session EXCEPT !.pool = pool, !.recoveries = session.recoveries + 1,
                                     !.branches = branches]
    OBVIOUS
  <2>8. Shaped(s) /\ Worded(s) /\ s.windows = session.windows
    BY <2>5, <2>6, <2>7 DEF Shaped, Worded, SessionKeys
  <2>9. Search(s, Recovering(session))
    BY <2>1, <2>3, <2>4, <2>7
  <2> QED
    BY <2>8, <2>9, SearchSendsOnce
<1>4. CASE Refine
  <2>1. PICK words \in Refined :
          /\ session' = [session EXCEPT !.pool =
               Swept(IF query.model THEN words \o Only(session.pool, Core) ELSE session.pool)]
          /\ again' = again
    BY <1>4 DEF Refine
  <2>2. words \in Seq(Words) /\ session.pool \in Seq(Words)
    BY RetrievalAssumption DEF RetrievalAssumption, Worded
  <2>3. Only(session.pool, Core) \in Seq(Words)
    BY <2>2, OnlyIn
  <2>4. PICK s : s = IF query.model THEN words \o Only(session.pool, Core) ELSE session.pool
    OBVIOUS
  <2>5. s \in Seq(Words)
    BY <2>2, <2>3, <2>4
  <2>6. Swept(s) \in Seq(Words)
    BY <2>5, SweptSeq
  <2>7. session' = [session EXCEPT !.pool = Swept(s)]
    BY <2>1, <2>4
  <2>8. /\ session'.pool = Swept(s) /\ session'.branches = session.branches
        /\ session'.windows = session.windows
    BY <2>7 DEF Shaped, SessionKeys
  <2> QED
    BY <2>1, <2>6, <2>8 DEF Worded, SentOnce
<1>5. ASSUME session'.pool = session.pool, session'.branches = session.branches,
             session'.windows = session.windows, again' = again
      PROVE  WordsInv'
  BY <1>5 DEF Worded, SentOnce
<1>6. ASSUME session' = session, again' = again PROVE WordsInv'
  BY <1>5, <1>6
<1>7. ASSUME NEW ranked, session' = [session EXCEPT !.ranked = ranked], again' = again
      PROVE  WordsInv'
  BY <1>5, <1>7 DEF Shaped, SessionKeys
<1>8. ASSUME NEW S, NEW most, NEW kept, Screen(S, most, kept) PROVE WordsInv'
  BY <1>7, <1>8 DEF Screen
<1>9. CASE JudgeWaiting
  BY <1>8, <1>9 DEF JudgeWaiting
<1>10. ASSUME RankAndScreen PROVE WordsInv'
  BY <1>7, <1>8, <1>10 DEF RankAndScreen, Wait
<1>11. CASE RankRound \/ Finish \/ RankOnce
  BY <1>6, <1>7, <1>10, <1>11 DEF RankRound, Rank, Finish, RankOnce
<1>12. CASE Leave \/ Stop \/ Settle \/ Retry
  BY <1>6, <1>12 DEF Leave, Stop, Settle, Retry, Turn
<1>13. CASE RecoverCitations
  BY <1>5, <1>13 DEF RecoverCitations, Shaped, SessionKeys
<1>14. CASE FetchDetails
  <2>1. PICK papers, target :
          session' = [session EXCEPT !.papers = papers, !.target = target, !.settled = session.scope]
    BY <1>14 DEF FetchDetails, Fetch
  <2>2. again' = again
    BY <1>14 DEF FetchDetails
  <2> QED
    BY <1>5, <2>1, <2>2 DEF Shaped, SessionKeys
<1>15. CASE Widen
  BY <1>5, <1>15 DEF Widen, Turn, Shaped, SessionKeys
<1>16. CASE Refresh
  BY <1>5, <1>16 DEF Refresh, Turn, Shaped, SessionKeys
<1>17. CASE UNCHANGED retrievalVars
  BY <1>6, <1>17 DEF retrievalVars
<1> QED
  BY <1>1, <1>2, <1>3, <1>4, <1>9, <1>11, <1>12, <1>13, <1>14, <1>15, <1>16, <1>17
     DEF RetrievalNext

(* Whatever is refined, recovered and resumed, a word that no other word   *)
(* cleans to is sent once for the same years (search_node).                *)
THEOREM WordsAreSentOnce == RetrievalSpec => []SentOnce
<1>1. RetrievalInit => WordsInv
  BY StartsWorded
<1>2. RetrievalInv /\ WordsInv /\ [RetrievalNext]_retrievalVars => WordsInv'
  <2>1. RetrievalInv => Shaped(session)
    BY DEF RetrievalInv, SessionSound, Shaped
  <2> QED
    BY <2>1, WordsStay
<1>3. WordsInv => SentOnce
  BY DEF WordsInv
<1> QED
  BY <1>1, <1>2, <1>3, RetrievalInvariant, PTL DEF RetrievalSpec
=============================================================================
