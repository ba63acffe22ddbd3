---------------------------- MODULE MCRetrieval ----------------------------
(***************************************************************************)
(* An instance of Retrieval for TLC: three papers of two years, the words  *)
(* of a plan with two core words, and what a refinement and a recovery add.*)
(***************************************************************************)
EXTENDS Retrieval, TLC

Init == RetrievalInit
Next == RetrievalNext
Spec == Init /\ [][Next]_retrievalVars

-----------------------------------------------------------------------------
(* "topic" and "mixed" have Chinese characters; "mixed" cleans to "exact", *)
(* and "exact" repeats "core".                                             *)
mcWords == {"topic", "core", "exact", "mixed"}
mcClean == [k \in mcWords |-> IF k = "mixed" THEN "exact" ELSE k]
mcApart == [k \in mcWords |-> {}]
mcWithin == [k \in mcWords |-> IF k = "exact" THEN {"core"} ELSE {}]
mcBatches == <<{"topic", "core", "exact"}, {"mixed"}>>
mcKey == [k \in mcWords |-> k]
mcPlan == <<"topic", "core">>
mcRefined == {<<"exact">>}
mcRecovery == {<<"mixed">>}

mcYear == [p \in 1 .. 3 |-> IF p = 3 THEN 1 ELSE 2]
mcFound == [k \in mcWords |-> CASE k = "topic" -> {1} [] k = "core" -> {2} [] OTHER -> {2, 3}]
mcYears == <<{2}, {1, 2}>>
mcAdded == <<{}, {1}>>
mcPasses == <<{1, 2} \X {"raw", "full"}, (1 .. 3) \X {"raw", "full"}>>
mcFit == <<{<<1, "raw">>, <<1, "full">>, <<2, "raw">>},
           {<<1, "raw">>, <<1, "full">>, <<2, "full">>, <<3, "raw">>}>>
mcBarred == <<{<<2, "full">>}, {<<2, "raw">>}>>

-----------------------------------------------------------------------------
(* What no later step or property of the run depends on is left out: the   *)
(* browser, the years no later search can have, and what the next search   *)
(* will set.                                                               *)
Later == UNION {{Years[s], Added[s]} : s \in session.scope .. Cardinality(Scopes)}
RetrievalView ==
  <<session.pool, session.branches, session.searched, session.windows = {},
    {w \in session.windows : w[2] \in Later},
    session.candidates, session.ranked, session.papers, session.scope, session.target,
    session.recoveries, session.settled = session.scope,
    [query EXCEPT !.anchored = FALSE, !.failed = FALSE, !.fresh = @ /\ at.stage # "idle"],
    at, SentOnce>>
=============================================================================
