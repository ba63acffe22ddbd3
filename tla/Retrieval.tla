----------------------------- MODULE Retrieval -----------------------------
(***************************************************************************)
(* The search for papers of one session: the loop of searching, ranking    *)
(* and refining of app/agent/retrieval_loop.py over search_node,           *)
(* rank_node, refine_search_node and fetch_detail_node of                  *)
(* app/agent/nodes/retrieval.py, the screening of                          *)
(* app/services/retrieval_ranking_service.py and                           *)
(* app/tools/paper_rerank.py, and the recovery search of                   *)
(* app/agent/delegation_recovery.py.                                       *)
(*                                                                         *)
(* Papers are numbered in the order of the fused ranking.  A verdict is    *)
(* given for one scope and for what was known of the paper when the model  *)
(* read it.  The loop runs in the thread of one execution; it is left at   *)
(* its checkpoints when the execution is stopped, and resumed from there   *)
(* as a new call.                                                          *)
(***************************************************************************)
EXTENDS Keywords, FiniteSets

CONSTANTS
  Papers,         \* 1 .. n
  Year,           \* of each paper
  Found,          \* the papers the sources have for each word
  Enriched,       \* the papers whose details add to what the model reads
  Scopes,         \* the scopes the user confirms, 1 .. n in their order
  Years,          \* the years of each scope
  Added,          \* the years a decision to widen the scope adds, or none
  Passes,         \* evaluate_paper_hard_filters, for each scope
  Fit, Barred,    \* what the model includes, with a full contract, and bars
  Key,            \* _normalized_window_key: one word of each set of tokens
  Plan,           \* the words of the research plan, in order
  Refined,        \* what the model may answer to a refinement
  Recovery,       \* what a route or a focus with a gap may be searched with
  Required,       \* required_reference_count
  Target,         \* retrieval_target
  Limit,          \* generation_limit
  PoolTargets,    \* absolute_evidence_pool_target, for the yields observed
  Rounds,         \* search_refinement_max_rounds
  ScreenLimit,    \* the papers one screening hands to the model at first
  ScreenMost,     \* rerank_candidate_max
  ScreenBatch,    \* rerank_batch_size
  DetailBatch,    \* the papers of a further batch of details
  MinimumGain,    \* evidence_recovery_min_new_evidence
  Recoveries,     \* BOUND: recovery searches of a session
  Counted         \* BOUND: how far the browser searches are counted

ASSUME RetrievalAssumption ==
  /\ IsFiniteSet(Papers) /\ Papers = 1 .. Cardinality(Papers)
  /\ IsFiniteSet(Scopes) /\ Scopes = 1 .. Cardinality(Scopes) /\ 1 \in Scopes
  /\ Key \in [Words -> Words]
  /\ Plan \in Seq(Words) /\ Refined \cup Recovery \subseteq Seq(Words)
  /\ Found \in [Words -> SUBSET Papers] /\ Enriched \subseteq Papers
  /\ \A s \in Scopes : Passes[s] \subseteq Papers \X {"raw", "full"}
  /\ \A s \in Scopes : Fit[s] \cap Barred[s] = {}
  /\ \A s \in Scopes : Added[s] \subseteq Years[s]
  /\ Required \in Nat \ {0} /\ PoolTargets \subseteq Nat /\ Rounds \in Nat
  /\ {Target, Limit, ScreenLimit, ScreenMost, ScreenBatch, DetailBatch, MinimumGain} \subseteq Nat \ {0}
  /\ {Recoveries, Counted} \subseteq Nat

VARIABLES
  session,   \* what outlives a run of the agent: research_state
  query,     \* the flags of the current run
  at,        \* where the loop stands
  \* History.
  launches,  \* browser searches of CNKI the session has made
  again      \* words a search sent for years they had been sent for

retrievalVars == <<session, query, at, launches, again>>

Pending == [scope |-> 0, read |-> "raw"]
None == [p \in {} |-> Pending]
Whole == {}     \* no window: the years of the scope

(* session.ranked and session.papers (paper_details) give for each paper   *)
(* the scope of its verdict and what had been read of it.  session.settled *)
(* is history: the scope of the last fetch of details.                     *)
Verdicts == UNION {[S -> [scope : {0} \cup Scopes, read : {"raw", "full"}]] : S \in SUBSET Papers}

(* at.stage: where the loop resumes; at.rounds: refinements it has left.   *)
RetrievalTypeOK ==
  /\ session.scope \in Scopes
  /\ session.candidates \subseteq Papers
  /\ session.ranked \in Verdicts /\ session.papers \in Verdicts
  /\ \A w \in session.windows : w[2] \in {Years[s] : s \in Scopes} \cup {Added[s] : s \in Scopes}
  /\ session.diagnosed \in BOOLEAN /\ session.target \in Nat
  /\ session.recoveries \in 0 .. Recoveries
  /\ query.mode \in {"search", "refresh", "refreshed"}
  /\ {query.incremental, query.recovering, query.anchored, query.met,
      query.failed, query.fresh, query.model} \subseteq BOOLEAN
  /\ query.judged \subseteq Papers \X {"raw", "full"}
  /\ at.stage \in {"idle", "rank", "loop", "again", "final", "once"}
  /\ at.rounds \in 0 .. Rounds
  /\ launches \in 0 .. Counted

(* A run begins with the fields research_state does not keep cleared.      *)
(* model: has the deployment a model to call?                              *)
Run(mode, incremental, window, model) ==
  [mode |-> mode, incremental |-> incremental, window |-> window, recovering |-> FALSE,
   anchored |-> FALSE, met |-> FALSE, failed |-> FALSE, fresh |-> FALSE,
   model |-> model, judged |-> {}]

RetrievalInit ==
  /\ session = [pool |-> Plan, branches |-> <<>>, searched |-> {}, windows |-> {},
                candidates |-> {}, ranked |-> None, papers |-> None, scope |-> 1,
                diagnosed |-> FALSE, target |-> 0, recoveries |-> 0, settled |-> 0]
  /\ \E model \in BOOLEAN : query = Run("search", FALSE, Whole, model)
  /\ at = [stage |-> "idle", rounds |-> 0]
  /\ launches = 0
  /\ again = {}

-----------------------------------------------------------------------------
Higher(a, b) == IF a < b THEN b ELSE a
Lower(a, b) == IF a < b THEN a ELSE b
Half(n) == (3 * n + 1) \div 2       \* n and the reserve of one half
Has(p, years) == Year[p] \in years
First(S, n) == {p \in S : Cardinality({q \in S : q < p}) < n}
Swept(words) == Unique(Without([i \in DOMAIN words |-> Clean[words[i]]], {NoWord}))

(* is_semantically_admitted, for papers that were included. *)
AdmittedRanked(s) == {p \in DOMAIN s.ranked : s.ranked[p].scope = s.scope}
Waiting(s) == {p \in DOMAIN s.ranked : s.ranked[p] = Pending}

(* The years of a search: of the increment, or else of the scope. *)
Window(s, q) == IF q.window = Whole THEN Years[s.scope] ELSE q.window

(* has_unsearched_queries *)
Unsearched(s) == query.window # Whole \/ ToSet(s.pool) \ s.searched # {}

(* FAULT: only the words of the session are compared, not their years. *)
UnseenAnyYear(s, q) ==
  Only(s.pool, {k \in Words : q.window # Whole \/ s.windows # {} \/ k \notin s.searched})

Unseen(s, q) ==
  Only(s.pool, {k \in Words : /\ <<Key[k], Window(s, q)>> \notin s.windows
                              /\ q.window # Whole \/ s.windows # {} \/ k \notin s.searched})

-----------------------------------------------------------------------------
(* search_node for s and q: the papers of the words in lost are not        *)
(* returned; if voided, the dispatch of the browsed word failed and its    *)
(* diagnostics are gone.  Every word is recorded as searched.              *)
SearchOf(s, q, lost, voided) ==
  \E words \in {Round(Unseen(s, q), s.branches)} :
  LET years == Window(s, q)
      browsed == Browsed(words, s.diagnosed /\ q.window = Whole, q.anchored)
      found == {p \in Papers : Has(p, years) /\ \E k \in ToSet(words) \ lost : p \in Found[k]}
  IN /\ lost \subseteq ToSet(words)
     /\ voided => browsed \in lost
     /\ session' = [s EXCEPT
          !.candidates = @ \cup found,
          !.searched = @ \cup ToSet(words),
          !.windows = @ \cup {<<Key[k], years>> : k \in ToSet(words)},
          !.diagnosed = @ \/ (browsed # NoWord /\ ~voided)]
     /\ query' = [q EXCEPT !.anchored = @ \/ browsed \in CnkiAnchors,
                           !.fresh = found \ s.candidates # {},
                           !.failed = s.candidates \cup found = {}]
     /\ launches' = Lower(Counted, launches + (IF browsed = NoWord THEN 0 ELSE 1))
     /\ again' = again \cup {k \in ToSet(words) : <<Key[k], years>> \in s.windows}

Search(s, q) == \E lost \in SUBSET Words, voided \in BOOLEAN : SearchOf(s, q, lost, voided)

(* rank_candidates: what passes the filters waits for a verdict, whatever  *)
(* verdict it had.                                                         *)
Passing(s) == {p \in s.candidates : Has(p, Years[s.scope]) /\ <<p, "raw">> \in Passes[s.scope]}
Ranked(s) == [p \in Passing(s) |-> Pending]

(* rank_node without a model, which leaves the ranking alone if it fails. *)
Rank ==
  /\ \/ /\ session' = [session EXCEPT !.ranked = Ranked(session)]
        /\ query' = [query EXCEPT !.met = FALSE]
     \/ UNCHANGED <<session, query>>
  /\ UNCHANGED <<launches, again>>

-----------------------------------------------------------------------------
(* llm_rerank_papers.  A verdict known from before costs no call; those of *)
(* the papers in lost do not arrive, and such a paper is not barred.       *)
Answered(p, lost) == <<p, "raw">> \in query.judged \/ p \notin lost
Retained(p, lost) == ~Answered(p, lost) \/ <<p, "raw">> \notin Barred[session.scope]

(* The next papers of S are given to the model while the papers retained   *)
(* are short of the reserve and the last batch had one.                    *)
Deepened(done, S, lost) ==
  IF /\ Cardinality({p \in done.given : Retained(p, lost)}) < Half(Required)
     /\ \E p \in done.last : Retained(p, lost)
     /\ Cardinality(done.given) < ScreenMost
  THEN LET next == First(S \ done.given, Lower(ScreenBatch, ScreenMost - Cardinality(done.given)))
       IN [given |-> done.given \cup next, last |-> next]
  ELSE done

(* The first papers of S, in batches. *)
FirstBatches(S) ==
  LET start == First(S, ScreenLimit)
      rest == ((Cardinality(start) - 1) \div ScreenBatch) * ScreenBatch
  IN [given |-> start, last |-> start \ First(start, rest)]

Screening(S, lost) ==
  LET end == FoldLeft(LAMBDA done, p : Deepened(done, S, lost), FirstBatches(S), SetToSeq(S))
  IN [p \in {q \in S : q \in end.given /\ Answered(q, lost)} |-> <<p, "raw">> \in Fit[session.scope]]

Verdict(S) == [p \in S |-> [scope |-> session.scope, read |-> "raw"]]
Merged(f, g) == [p \in DOMAIN f \cup DOMAIN g |-> IF p \in DOMAIN g THEN g[p] ELSE f[p]]

(* screen_candidates: only papers included now enter the ranking, after    *)
(* the papers of kept.                                                     *)
Screen(S, most, kept) ==
  \E lost \in SUBSET S :
  \E heard \in {Screening(S, lost)} :
  \E ranked \in {Merged(kept, Verdict(First({p \in DOMAIN heard : heard[p]}, most)))} :
     /\ session' = [session EXCEPT !.ranked = ranked]
     /\ query' = [query EXCEPT !.met = Cardinality(DOMAIN ranked) >= Required,
                               !.judged = @ \cup {<<p, "raw">> : p \in DOMAIN heard}]
     /\ UNCHANGED <<launches, again>>

(* With no model the ranking waits. *)
Wait ==
  /\ session' = [session EXCEPT !.ranked = Ranked(session)]
  /\ query' = [query EXCEPT !.met = FALSE]
  /\ UNCHANGED <<launches, again>>

RankAndScreen == IF query.model THEN Screen(Passing(session), Target, None) ELSE Wait

-----------------------------------------------------------------------------
(* search_rank_with_refinement.  A run that makes up for a focus searches  *)
(* its words first.                                                        *)
Focused(s, words) ==
  LET branch == [queries |-> Swept(words), targeted |-> TRUE]
  IN IF words = <<>> THEN s
     ELSE [s EXCEPT !.pool = branch.queries \o Without(@, ToSet(branch.queries)),
                    !.branches = <<branch>> \o Without(@, {branch})]

Focuses == {<<>>} \cup IF query.incremental THEN Recovery ELSE {}
Searching == at.stage = "idle" /\ query.mode = "search"

(* A ranking that waits is screened first, if there is nothing to search. *)
JudgeWaiting ==
  /\ Searching /\ query.model
  /\ Waiting(session) # {} /\ ~Unsearched(session)
  /\ Screen(Waiting(session) \cap Passing(session), Cardinality(Papers),
            [p \in AdmittedRanked(session) |-> session.ranked[p]])
  /\ UNCHANGED at

Start ==
  \E words \in Focuses :
  \E s \in {Focused(session, words)} :
     /\ Searching
     /\ Waiting(s) = {} \/ Unsearched(s)
     /\ Search(s, query)
     /\ at' = IF query'.failed THEN at
              ELSE [stage |-> "rank", rounds |-> IF query.incremental THEN Lower(Rounds, 1) ELSE Rounds]

RankRound == at.stage = "rank" /\ Rank /\ at' = [at EXCEPT !.stage = "loop"]

(* refine_search_node: the words of the plan that are neither core words   *)
(* nor named again leave the pool.  It ends the loop if it has no new      *)
(* words or fails, as does a window that has the reserve.                  *)
Refine ==
  \E words \in Refined :
  LET pool == Swept(IF query.model THEN words \o Only(session.pool, Core) ELSE session.pool)
  IN /\ at.stage = "loop" /\ at.rounds > 0
     /\ pool # session.pool
     /\ session' = [session EXCEPT !.pool = pool]
     /\ at' = [stage |-> "again", rounds |-> at.rounds - 1]
     /\ UNCHANGED <<query, launches, again>>
Leave == at.stage = "loop" /\ at' = [at EXCEPT !.stage = "final"] /\ UNCHANGED <<session, query, launches, again>>

SearchAgain ==
  /\ at.stage = "again"
  /\ Search(session, query)
  /\ at' = [at EXCEPT !.stage = IF query'.fresh THEN "rank" ELSE "final"]

Finish ==
  /\ at.stage = "final"
  /\ IF session.ranked = None THEN UNCHANGED <<session, query, launches, again>> ELSE RankAndScreen
  /\ at' = [stage |-> "idle", rounds |-> 0]

(* A checkpoint ends an execution that was stopped; the next one finds the *)
(* state of the checkpoint.                                                *)
Stop ==
  /\ at.stage \in {"rank", "loop", "again"}
  /\ at' = [stage |-> "idle", rounds |-> 0]
  /\ UNCHANGED <<session, query, launches, again>>

-----------------------------------------------------------------------------
(* search_once: new words for a route, in a branch of their own, or once   *)
(* more the loop for a shortfall of citations; the search counts as one of *)
(* an increment over the years of the scope until Analysis settles it.     *)
Recovering(s) ==
  [query EXCEPT !.incremental = TRUE, !.window = Years[s.scope], !.recovering = TRUE, !.fresh = FALSE]

RecoverRoute ==
  /\ Searching /\ session.papers # None /\ session.recoveries < Recoveries
  /\ \E words \in Recovery :
       Search([session EXCEPT !.pool = Unique(@ \o words), !.recoveries = @ + 1,
                              !.branches = Append(@, [queries |-> words, targeted |-> TRUE])],
              Recovering(session))
  /\ at' = IF query'.fresh THEN [at EXCEPT !.stage = "once"] ELSE at
RankOnce == at.stage = "once" /\ RankAndScreen /\ at' = [at EXCEPT !.stage = "idle"]

RecoverCitations ==
  /\ Searching /\ session.papers # None /\ session.recoveries < Recoveries
  /\ session' = [session EXCEPT !.recoveries = @ + 1]
  /\ query' = Recovering(session)
  /\ UNCHANGED <<at, launches, again>>

Settle ==
  /\ at.stage = "idle" /\ query.recovering
  /\ query' = [query EXCEPT !.incremental = FALSE, !.window = Whole, !.recovering = FALSE]
  /\ UNCHANGED <<session, at, launches, again>>

-----------------------------------------------------------------------------
(* The details a run starts from: an increment keeps what was admitted for *)
(* its scope.                                                              *)
(* FAULT: every fetch starts anew. *)
AnewEachTime == None

Standing ==
  IF query.incremental
  THEN [p \in {q \in DOMAIN session.papers : session.papers[q].scope = session.scope} |-> session.papers[p]]
  ELSE None

(* Was the verdict on p given for this scope and for what is now read?     *)
(* FAULT: the verdict of an earlier scope stands. *)
StandsAnyScope(p, read) == session.ranked[p].read = read

Stands(p, read) == session.ranked[p] = [scope |-> session.scope, read |-> read]

(* What the next fetch is to add, and the papers it may add, in the order  *)
(* of the fused ranking.                                                   *)
Wanted ==
  IF query.incremental
  THEN Higher(IF query.recovering THEN MinimumGain ELSE 1, Required - Cardinality(DOMAIN Standing))
  ELSE Required
Awaited == {p \in DOMAIN session.ranked : session.ranked[p] # Pending} \ DOMAIN Standing

(* The details of the papers in filled arrive; the answers of the model on *)
(* the papers in lost do not.                                              *)
Now(p, filled) == IF p \in filled THEN "full" ELSE session.ranked[p].read
Heard(p, filled, lost) == query.model /\ (<<p, Now(p, filled)>> \in query.judged \/ p \notin lost)

(* A paper whose verdict does not stand is screened again.                 *)
Valid(p, filled, lost) ==
  LET read == <<p, Now(p, filled)>>
  IN /\ Has(p, Years[session.scope]) /\ read \in Passes[session.scope]
     /\ Stands(p, read[2]) \/ (Heard(p, filled, lost) /\ read \in Fit[session.scope])
ValidOf(n, filled, lost) == {p \in First(Awaited, n) : Valid(p, filled, lost)}

(* How many are read: the target, and more while too few of them are valid. *)
Through(target, filled, lost) ==
  LET Batch(done, i) ==
        LET missing == Wanted - Cardinality(ValidOf(done, filled, lost))
        IN IF done > 0 /\ missing <= 0 THEN done
           ELSE Lower(Cardinality(Awaited),
                      IF done = 0 THEN target ELSE done + Higher(DetailBatch, missing))
  IN FoldLeft(Batch, 0, SetToSeq(Awaited))

(* The size the pool of evidence is to have, which is kept and never asked *)
(* to be more than the generation may use.                                 *)
PoolTarget(pool) == Lower(Limit, Higher(Higher(Half(Wanted), pool), session.target))

(* fetch_detail_node *)
Fetch(filled, lost) ==
  \E pool \in PoolTargets :
  \E target \in {PoolTarget(pool)} :
  \E n \in {Through(target, filled, lost)} :
  \E valid \in {ValidOf(n, filled, lost)} :
  \E papers \in {Merged(Standing, [p \in valid |-> [scope |-> session.scope, read |-> Now(p, filled)]])} :
     /\ session' = [session EXCEPT !.papers = papers, !.target = target, !.settled = session.scope]
     /\ query' = [query EXCEPT
          !.met = Cardinality(DOMAIN papers) >= Required,
          !.judged = @ \cup {<<p, Now(p, filled)>> :
                               p \in {q \in First(Awaited, n) : ~Stands(q, Now(q, filled)) /\ Heard(q, filled, lost)}},
          !.mode = IF @ = "refresh" THEN "refreshed" ELSE @]

FetchDetails ==
  /\ at.stage = "idle"
  /\ \/ query.mode = "search" /\ AdmittedRanked(session) # {}
     \/ query.mode = "refresh"
  /\ \E filled \in SUBSET (Enriched \cap DOMAIN session.ranked), lost \in SUBSET DOMAIN session.ranked :
       Fetch(filled, lost)
  /\ UNCHANGED <<at, launches, again>>

-----------------------------------------------------------------------------
(* The session goes on with another run: the user widens the scope, a      *)
(* search is tried once more, or only the papers selected are read again.  *)
Turn(s, mode, incremental, window) ==
  /\ at.stage = "idle"
  /\ session.candidates # {}
  /\ session' = s
  /\ query' = Run(mode, incremental, window, query.model)
  /\ UNCHANGED <<at, launches, again>>

Widen ==
  LET next == session.scope + 1
  IN next \in Scopes /\ Turn([session EXCEPT !.scope = next], "search", TRUE, Added[next])
Retry == Turn(session, "search", TRUE, Whole)
Refresh ==
  /\ session.papers # None
  /\ Turn([session EXCEPT !.candidates = DOMAIN session.papers, !.ranked = session.papers],
          "refresh", FALSE, Whole)

RetrievalNext ==
  \/ JudgeWaiting \/ Start \/ RankRound \/ Refine \/ Leave \/ SearchAgain \/ Finish \/ Stop
  \/ RecoverRoute \/ RankOnce \/ RecoverCitations \/ Settle
  \/ FetchDetails
  \/ Widen \/ Retry \/ Refresh

RetrievalSpec == RetrievalInit /\ [][RetrievalNext]_retrievalVars

-----------------------------------------------------------------------------
(* After the details of a scope are read, what the session rests on was    *)
(* admitted for that scope, by what is now known of it ("不能把旧卡片继续算作   *)
(* 当前证据"); and the requirement is never called met by a ranking or by     *)
(* details that hold too few papers admitted for the scope.                *)
EvidenceSound ==
  /\ RetrievalTypeOK
  /\ session.settled = session.scope =>
       \A p \in DOMAIN session.papers :
         /\ session.papers[p].scope = session.scope
         /\ <<p, session.papers[p].read>> \in Fit[session.scope] \cap Passes[session.scope]
         /\ Has(p, Years[session.scope])
  /\ query.met => \/ Cardinality(AdmittedRanked(session)) >= Required
                  \/ Cardinality(DOMAIN session.papers) >= Required

(* A word that is clean as it stands is sent at most once for the same     *)
(* years, however often runs end, are resumed and refine the pool.         *)
SentOnce ==
  /\ \A w \in session.windows : w[1] \in Words
  /\ again \subseteq {Clean[k] : k \in {w \in Words : Clean[w] # w}}

(* A run of an increment keeps the details that were admitted for its      *)
(* scope, whatever was ranked anew or is pending, however few papers the   *)
(* fetch finds, and whether the details and the model answer or not.       *)
EvidenceKept ==
  [][query.incremental /\ session'.scope = session.scope /\ query'.mode = "search" =>
       \A p \in DOMAIN session.papers :
         session.papers[p].scope = session.scope => p \in DOMAIN session'.papers]_retrievalVars

(* Core words carry the topic: words of an expansion never push a core     *)
(* word that was not searched yet out of a round (retrieval.py:210).       *)
CoreFirst ==
  LET unseen == Unseen(session, query)
      round == Round(unseen, session.branches)
  IN (\E k \in Core : Contains(unseen, k) /\ ~Contains(round, k)) => ToSet(round) \subseteq Core

(* The browser searches CNKI at most twice in a session (retrieval.py:351).*)
BrowserTwice == launches <= 2
=============================================================================
