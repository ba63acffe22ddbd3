---------------------------- MODULE ServiceProofs ----------------------------
(***************************************************************************)
(* Proofs about the service that takes the requests, in two parts that     *)
(* share no state.                                                         *)
(*                                                                         *)
(* Conversation (app/services/research_conversation_service.py) and the    *)
(* recovery ladder it runs (app/agent/generation_recovery.py): for every   *)
(* number of turns, requests and actions, and whatever the pipelines do,   *)
(* the automatic recovery keeps to its budget and repeats nothing futile,  *)
(* what a turn goes on with belongs to its request, and a draft that       *)
(* failed its gate is released under a permission only.                    *)
(*                                                                         *)
(* A turn may go on from three places: the row, the newest checkpoint and  *)
(* the memory of the running pipeline.  The history variables are about    *)
(* all three at once, so the invariant says of the state in each of them   *)
(* what the properties say of the one a turn sees (Sound).                 *)
(*                                                                         *)
(* JobQueue (app/services/research_job_service.py), for any number of      *)
(* jobs, sessions, processes and workers: permits, table and threads       *)
(* agree.                                                                  *)
(***************************************************************************)
EXTENDS Conversation, JobQueue, FiniteSetTheorems, SequenceTheorems, WellFoundedInduction, TLAPS

-----------------------------------------------------------------------------
(* The turns of a conversation.                                            *)

(* No entry of a history repeats an action that had brought nothing.       *)
NothingFutile(h) ==
  \A i, j \in DOMAIN h :
    /\ i < j
    /\ h[i].action = h[j].action
    /\ h[i].input = h[j].input
    /\ h[i].outcome \in {"no_progress", "failed"}
    => h[j].action \in {"recompute", "search"}

(* e belongs to the request, has used up the actions started for it, is    *)
(* marked when the last resort was taken, and carries a permission to      *)
(* release only when there is one.                                         *)
Sound(e, topic, actions, last, allowed) ==
  /\ e \in ResearchState
  /\ e.topic = topic
  /\ actions <= ActionCount(e)
  /\ last >= 1 => e.final
  /\ e.forced \/ e.gate = "released" => allowed # "none"
  /\ NothingFutile(e.history)

(* d comes of e without a recovery action being recorded.                  *)
Follows(d, e) ==
  /\ d \in ResearchState
  /\ d.topic = e.topic
  /\ ActionCount(e) <= ActionCount(d)
  /\ e.final => d.final
  /\ d.forced \/ d.gate = "released" => e.forced \/ e.gate = "released"
  /\ d.history = e.history
-----------------------------------------------------------------------------
(* The ladder                                                              *)

(* An action the ladder may name: one that had not failed on the same      *)
(* evidence and draft, or one with a bound of its own.                     *)
Allowed(e, action) ==
  action \in Executed => action \in {"recompute", "search"} \/ May(e, action)

(* A ladder with a last rung that always holds names the action of a rung  *)
(* that holds.                                                             *)
LEMMA FirstRung ==
  ASSUME NEW n \in Nat \ {0}, NEW rungs,
         DOMAIN rungs = 1 .. n, rungs[n] # "next"
  PROVE  \E i \in 1 .. n : rungs[i] # "next" /\ First(rungs) = rungs[i]
<1> DEFINE Holding == {i \in 1 .. n : rungs[i] # "next"}
<1>1. Holding \subseteq Nat /\ Holding # {}
  OBVIOUS
<1>2. IsWellFoundedOn(OpToRel(<, Nat), Nat)
  BY NatLessThanWellFounded
<1>3. PICK i \in Holding : \A j \in Holding : <<j, i>> \notin OpToRel(<, Nat)
  BY <1>1, <1>2, WFMin
<1>4. \A j \in Holding : ~(j < i)
  BY <1>1, <1>3 DEF OpToRel
<1>5. i \in DOMAIN rungs /\ rungs[i] # "next" /\ \A j \in 1 .. i - 1 : rungs[j] = "next"
  <2>1. i \in 1 .. n /\ rungs[i] # "next"
    BY <1>3
  <2>2. ASSUME NEW j \in 1 .. i - 1, rungs[j] # "next"
        PROVE  FALSE
    <3>1. j \in 1 .. n /\ j < i
      BY <2>1
    <3>2. j \in Holding
      BY <3>1, <2>2
    <3> QED
      BY <3>1, <3>2, <1>4
  <2> QED
    BY <2>1, <2>2
<1>6. PICK k : k = CHOOSE m \in DOMAIN rungs :
                     rungs[m] # "next" /\ \A j \in 1 .. m - 1 : rungs[j] = "next"
  OBVIOUS
<1>7. k \in DOMAIN rungs /\ rungs[k] # "next"
  BY <1>5, <1>6
<1>8. First(rungs) = rungs[k]
  BY <1>6 DEF First
<1> QED
  BY <1>7, <1>8

LEMMA CountLadderAllowed ==
  ASSUME NEW e, NEW f
  PROVE  Allowed(e, First(CountLadder(e, f)))
<1>1. PICK rungs : rungs = CountLadder(e, f)
  OBVIOUS
<1>2. DOMAIN rungs = 1 .. 7 /\ 7 \in Nat \ {0} /\ rungs[7] # "next"
  BY <1>1 DEF CountLadder
<1>3. PICK i \in 1 .. 7 : rungs[i] # "next" /\ First(rungs) = rungs[i]
  BY <1>2, FirstRung
<1>4. i \in {1, 2, 3, 4, 5, 6, 7}
  OBVIOUS
<1> QED
  BY <1>1, <1>3, <1>4 DEF CountLadder, Rung, Allowed, Executed, MaySearch

LEMMA FocusLadderAllowed ==
  ASSUME NEW e
  PROVE  Allowed(e, First(FocusLadder(e)))
<1>1. PICK rungs : rungs = FocusLadder(e)
  OBVIOUS
<1>2. DOMAIN rungs = 1 .. 3 /\ 3 \in Nat \ {0} /\ rungs[3] # "next"
  BY <1>1 DEF FocusLadder
<1>3. PICK i \in 1 .. 3 : rungs[i] # "next" /\ First(rungs) = rungs[i]
  BY <1>2, FirstRung
<1>4. i \in {1, 2, 3}
  OBVIOUS
<1> QED
  BY <1>1, <1>3, <1>4 DEF FocusLadder, Rung, Allowed, Executed

LEMMA MetadataLadderAllowed ==
  ASSUME NEW e
  PROVE  Allowed(e, First(MetadataLadder(e)))
<1>1. PICK rungs : rungs = MetadataLadder(e)
  OBVIOUS
<1>2. DOMAIN rungs = 1 .. 3 /\ 3 \in Nat \ {0} /\ rungs[3] # "next"
  BY <1>1 DEF MetadataLadder
<1>3. PICK i \in 1 .. 3 : rungs[i] # "next" /\ First(rungs) = rungs[i]
  BY <1>2, FirstRung
<1>4. i \in {1, 2, 3}
  OBVIOUS
<1> QED
  BY <1>1, <1>3, <1>4 DEF MetadataLadder, Rung, Allowed, Executed

LEMMA WritingLadderAllowed ==
  ASSUME NEW e
  PROVE  Allowed(e, First(WritingLadder(e)))
<1>1. PICK rungs : rungs = WritingLadder(e)
  OBVIOUS
<1>2. DOMAIN rungs = 1 .. 4 /\ 4 \in Nat \ {0} /\ rungs[4] # "next"
  BY <1>1 DEF WritingLadder
<1>3. PICK i \in 1 .. 4 : rungs[i] # "next" /\ First(rungs) = rungs[i]
  BY <1>2, FirstRung
<1>4. i \in {1, 2, 3, 4}
  OBVIOUS
<1> QED
  BY <1>1, <1>3, <1>4 DEF WritingLadder, Rung, Allowed, Executed

LEMMA LadderAllowed ==
  ASSUME NEW e, NEW f
  PROVE  Allowed(e, First(Ladder(e, f)))
<1>1. PICK rungs : rungs = Ladder(e, f)
  OBVIOUS
<1>2. DOMAIN rungs = 1 .. 11 /\ 11 \in Nat \ {0} /\ rungs[11] # "next"
  BY <1>1 DEF Ladder
<1>3. PICK i \in 1 .. 11 : rungs[i] # "next" /\ First(rungs) = rungs[i]
  BY <1>2, FirstRung
<1>4. i \in {1, 2, 3, 4, 5, 6, 7, 8, 9, 10, 11}
  OBVIOUS
<1>5. CASE i \in {1, 2, 3, 4, 9, 10, 11}
  BY <1>1, <1>3, <1>5 DEF Ladder, Rung, Allowed, Executed
<1>6. CASE i = 5
  BY <1>1, <1>3, <1>6, CountLadderAllowed DEF Ladder, Rung
<1>7. CASE i = 6
  BY <1>1, <1>3, <1>7, FocusLadderAllowed DEF Ladder, Rung
<1>8. CASE i = 7
  BY <1>1, <1>3, <1>8, MetadataLadderAllowed DEF Ladder, Rung
<1>9. CASE i = 8
  BY <1>1, <1>3, <1>9, WritingLadderAllowed DEF Ladder, Rung
<1> QED
  BY <1>4, <1>5, <1>6, <1>7, <1>8, <1>9

(* An action is started only while the budget lasts, and none that failed  *)
(* on the same evidence and draft.                                         *)
LEMMA DecideAllowed ==
  ASSUME NEW e \in ResearchState, NEW f, NEW strict \in BOOLEAN,
         Decide(e, f, strict) \in Executed
  PROVE  /\ ActionCount(e) < ActionBudget
         /\ Allowed(e, Decide(e, f, strict))
<1>1. Remaining(e) # 0
  BY DEF Decide, Executed
<1>2. ActionCount(e) \in Nat
  BY DEF ResearchState, ActionCount, Larger
<1>3. ActionCount(e) < ActionBudget
  BY <1>1, <1>2, RecoveryAssumption DEF Remaining, Larger
<1>4. Decide(e, f, strict) = First(Ladder(e, f))
  BY DEF Decide, Executed
<1> QED
  BY <1>3, <1>4, LadderAllowed
-----------------------------------------------------------------------------
(* The states a turn makes of one another                                  *)

LEMMA CountIsNat ==
  ASSUME NEW e \in ResearchState
  PROVE  ActionCount(e) \in Nat
BY DEF ResearchState, ActionCount, Larger

LEMMA FollowerIsSound ==
  ASSUME NEW e, NEW d, NEW topic, NEW actions \in Nat, NEW last, NEW before, NEW allowed,
         Sound(e, topic, actions, last, before), Follows(d, e),
         before # "none" => allowed # "none"
  PROVE  Sound(d, topic, actions, last, allowed)
<1>1. ActionCount(e) \in Nat /\ ActionCount(d) \in Nat
  BY CountIsNat DEF Sound, Follows
<1> QED
  BY <1>1 DEF Sound, Follows

LEMMA RetouchedFollows ==
  ASSUME NEW e \in ResearchState, NEW d \in ResearchState,
         d.topic = e.topic, d.final = e.final, d.history = e.history,
         d.count = e.count, d.attempts >= e.attempts, d.round = e.round,
         d.forced \/ d.gate = "released" => e.forced \/ e.gate = "released"
  PROVE  Follows(d, e)
<1>1. /\ e.count \in Nat /\ e.attempts \in Nat /\ e.round \in Nat
      /\ d.count \in Nat /\ d.attempts \in Nat /\ d.round \in Nat
  BY DEF ResearchState
<1>2. ActionCount(e) <= ActionCount(d)
  BY <1>1 DEF ActionCount, Larger
<1> QED
  BY <1>2 DEF Follows

LEMMA PreparedFollows ==
  ASSUME NEW e \in ResearchState, NEW entry, NEW d \in Prepared(entry, e)
  PROVE  Follows(d, e)
<1>1. d \in {e, Cleared(e), [e EXCEPT !.verified = FALSE]}
  BY DEF Prepared
<1>2. d \in ResearchState
  <2>1. Cleared(e) \in ResearchState
    BY DEF Cleared, ResearchState
  <2>2. [e EXCEPT !.verified = FALSE] \in ResearchState
    BY DEF ResearchState
  <2> QED
    BY <1>1, <2>1, <2>2
<1>3. /\ d.topic = e.topic /\ d.final = e.final /\ d.history = e.history
      /\ d.count = e.count /\ d.attempts = e.attempts /\ d.round = e.round
      /\ d.forced = e.forced /\ (d.gate = e.gate \/ d.gate = "none")
  BY <1>1 DEF Cleared, ResearchState
<1>4. d.attempts >= e.attempts
  BY <1>3 DEF ResearchState
<1> QED
  BY <1>2, <1>3, <1>4, RetouchedFollows

(* What the pipeline commits: no permission is given, and the gate         *)
(* releases a draft only under one.                                        *)
LEMMA AssessedFollows ==
  ASSUME NEW e \in ResearchState, NEW gates, NEW issues, NEW v \in BOOLEAN,
         gates \subseteq {"none", "passed", "pre", "failed", "released"},
         issues \subseteq SUBSET Codes,
         "released" \in gates => e.forced,
         NEW d \in Assessed(e, gates, issues, v)
  PROVE  Follows(d, e)
<1>1. PICK x \in Inputs \X gates \X issues :
        d = [e EXCEPT !.input = x[1], !.gate = x[2], !.codes = x[3], !.verified = v,
                      !.fresh = TRUE]
  BY DEF Assessed
<1>2. PICK i \in Inputs, g \in gates, c \in SUBSET Codes :
        d = [e EXCEPT !.input = i, !.gate = g, !.codes = c, !.verified = v, !.fresh = TRUE]
  BY <1>1
<1>3. d \in ResearchState
  BY <1>2 DEF ResearchState
<1>4. /\ d.topic = e.topic /\ d.final = e.final /\ d.history = e.history
      /\ d.count = e.count /\ d.attempts = e.attempts /\ d.round = e.round
      /\ d.forced = e.forced /\ d.gate = g
  BY <1>2 DEF ResearchState
<1>5. d.attempts >= e.attempts
  BY <1>4 DEF ResearchState
<1> QED
  BY <1>2, <1>3, <1>4, <1>5, RetouchedFollows

LEMMA IssuesAreCodes ==
  Issues \subseteq SUBSET Codes /\ {{}} \subseteq SUBSET Codes
BY GateCodesAssumption DEF GateCodesAssumption, Issues

LEMMA JudgedFollows ==
  ASSUME NEW e \in ResearchState, NEW d \in Judged(e)
  PROVE  Follows(d, e)
<1>1. CASE d \in Assessed(e, {"passed"}, {{}}, TRUE)
  BY <1>1, AssessedFollows, IssuesAreCodes
<1>2. CASE d \in Assessed(e, {"failed"} \cup (IF e.forced THEN {"released"} ELSE {}),
                          Issues, TRUE)
  <2>1. PICK gates : gates = {"failed"} \cup (IF e.forced THEN {"released"} ELSE {})
    OBVIOUS
  <2>2. gates \subseteq {"failed", "released"} /\ ("released" \in gates => e.forced)
    BY <2>1
  <2> QED
    BY <1>2, <2>1, <2>2, AssessedFollows, IssuesAreCodes
<1> QED
  BY <1>1, <1>2 DEF Judged

LEMMA GatheredFollows ==
  ASSUME NEW e \in ResearchState, NEW d \in Gathered(e)
  PROVE  Follows(d, e)
<1>1. CASE d \in Assessed(e, {"none"}, {{}}, FALSE)
  BY <1>1, AssessedFollows, IssuesAreCodes
<1>2. CASE d \in Assessed(e, {"pre"}, Issues, FALSE)
  BY <1>2, AssessedFollows, IssuesAreCodes
<1> QED
  BY <1>1, <1>2 DEF Gathered

LEMMA SearchedFollows ==
  ASSUME NEW e \in ResearchState, NEW d \in Searched(e)
  PROVE  Follows(d, e)
<1>1. PICK s \in BOOLEAN :
        d = [e EXCEPT !.round = @ + 1, !.count = ActionCount(e) + 1, !.stopped = s,
                      !.gate = "none", !.codes = {}, !.verified = FALSE, !.fresh = TRUE]
  BY DEF Searched
<1>2. ActionCount(e) \in Nat
  BY CountIsNat
<1>3. d \in ResearchState
  <2>1. PICK n \in Nat : n = ActionCount(e) + 1
    BY <1>2
  <2>2. PICK r \in Nat : r = e.round + 1
    BY DEF ResearchState
  <2>3. d = [e EXCEPT !.round = r, !.count = n, !.stopped = s, !.gate = "none",
                      !.codes = {}, !.verified = FALSE, !.fresh = TRUE]
    BY <1>1, <2>1, <2>2
  <2> QED
    BY <2>3 DEF ResearchState
<1>4. d.count = ActionCount(e) + 1 /\ d.attempts \in Nat /\ d.round \in Nat
  BY <1>1, <1>2, <1>3 DEF ResearchState
<1>5. ActionCount(e) <= ActionCount(d)
  BY <1>2, <1>4 DEF ActionCount, Larger
<1> QED
  BY <1>1, <1>3, <1>5 DEF Follows, ResearchState

LEMMA KeptFollows ==
  ASSUME NEW e \in ResearchState, NEW d \in Kept(e)
  PROVE  Follows(d, e)
<1>1. d = [e EXCEPT !.rejected = @ \cup {e.input}]
  BY DEF Kept
<1>2. d \in ResearchState
  BY <1>1 DEF ResearchState
<1>3. /\ d.topic = e.topic /\ d.final = e.final /\ d.history = e.history
      /\ d.count = e.count /\ d.attempts = e.attempts /\ d.round = e.round
      /\ d.forced = e.forced /\ d.gate = e.gate
  BY <1>1 DEF ResearchState
<1>4. d.attempts >= e.attempts
  BY <1>3 DEF ResearchState
<1> QED
  BY <1>1, <1>2, <1>3, <1>4, RetouchedFollows

(* A recovery action goes on the record and is counted; the recovery is    *)
(* strict, so that no permission is needed.                                *)
LEMMA StartedIsSound ==
  ASSUME NEW e, NEW topic, NEW actions \in Nat, NEW last, NEW before, NEW action \in Executed,
         Sound(e, topic, actions, last, before), e.gate # "released",
         Allowed(e, action)
  PROVE  Sound(StrictlyStarted(e, action), topic, actions + 1, last, "none")
<1>1. PICK d : d = StrictlyStarted(e, action)
  OBVIOUS
<1>2. PICK entry : entry = [action |-> action, input |-> e.input,
                            codes |-> e.codes, outcome |-> "started"]
  OBVIOUS
<1>3. e \in ResearchState /\ ActionCount(e) \in Nat
  BY CountIsNat DEF Sound
<1>4. entry \in HistoryEntry
  BY <1>2, <1>3 DEF HistoryEntry, ResearchState
<1>5. d = [e EXCEPT !.history = Append(@, entry), !.count = ActionCount(e) + 1,
                    !.active = TRUE, !.fresh = FALSE, !.attempts = @ + 1, !.forced = FALSE]
  BY <1>1, <1>2, <1>3 DEF StrictlyStarted, Started, ResearchState
<1>6. Append(e.history, entry) \in Seq(HistoryEntry)
  BY <1>3, <1>4 DEF ResearchState
<1>7. d \in ResearchState
  <2>1. PICK n \in Nat : n = ActionCount(e) + 1
    BY <1>3
  <2>2. PICK a \in Nat : a = e.attempts + 1
    BY <1>3 DEF ResearchState
  <2>3. PICK h \in Seq(HistoryEntry) : h = Append(e.history, entry)
    BY <1>6
  <2>4. d = [e EXCEPT !.history = h, !.count = n, !.active = TRUE, !.fresh = FALSE,
                      !.attempts = a, !.forced = FALSE]
    BY <1>5, <2>1, <2>2, <2>3
  <2> QED
    BY <1>3, <2>4 DEF ResearchState
<1>8. d.count = ActionCount(e) + 1 /\ d.attempts \in Nat /\ d.round \in Nat
  BY <1>3, <1>5, <1>7 DEF ResearchState
<1>9. actions + 1 <= ActionCount(d)
  BY <1>3, <1>8 DEF ActionCount, Larger, Sound
<1>10. NothingFutile(d.history)
  <2>1. PICK h : h = e.history
    OBVIOUS
  <2>2. h \in Seq(HistoryEntry) /\ d.history = Append(h, entry)
    BY <1>3, <1>5, <2>1 DEF ResearchState
  <2>3. NothingFutile(h)
    BY <2>1 DEF Sound
  <2>4. SUFFICES ASSUME NEW i \in DOMAIN Append(h, entry), NEW j \in DOMAIN Append(h, entry),
                        i < j,
                        Append(h, entry)[i].action = Append(h, entry)[j].action,
                        Append(h, entry)[i].input = Append(h, entry)[j].input,
                        Append(h, entry)[i].outcome \in {"no_progress", "failed"}
                 PROVE  Append(h, entry)[j].action \in {"recompute", "search"}
    BY <2>2 DEF NothingFutile
  <2>5. i \in DOMAIN h /\ Append(h, entry)[i] = h[i]
    BY <2>2, <2>4
  <2>6. CASE j \in DOMAIN h
    BY <2>2, <2>3, <2>4, <2>5, <2>6 DEF NothingFutile
  <2>7. CASE j = Len(h) + 1
    <3>1. Append(h, entry)[j] = entry
      BY <2>2, <2>7
    <3>2. h[i].action = action /\ h[i].input = e.input
      BY <1>2, <2>4, <2>5, <3>1
    <3>3. action \in Used(e)
      BY <2>1, <2>4, <2>5, <3>2 DEF Used
    <3> QED
      BY <1>2, <3>1, <3>3 DEF Allowed, May
  <2> QED
    BY <2>2, <2>6, <2>7
<1>11. d.topic = topic /\ (last >= 1 => d.final) /\ d.forced = FALSE /\ d.gate # "released"
  BY <1>3, <1>5 DEF Sound, ResearchState
<1> QED
  BY <1>1, <1>7, <1>9, <1>10, <1>11 DEF Sound

LEMMA FinalIsSound ==
  ASSUME NEW e, NEW topic, NEW actions \in Nat, NEW last, NEW before,
         Sound(e, topic, actions, last, before)
  PROVE  Sound(FinalMarked(e), topic, actions, 1, "final")
<1>1. e \in ResearchState /\ ActionCount(e) \in Nat
  BY CountIsNat DEF Sound
<1> QED
  BY <1>1 DEF Sound, FinalMarked, ResearchState, ActionCount, Larger

(* The outcome goes on the record of the last action.                      *)
LEMMA CompletedIsSound ==
  ASSUME NEW e, NEW topic, NEW actions \in Nat, NEW last, NEW allowed,
         NEW better, NEW cut,
         Sound(e, topic, actions, last, allowed)
  PROVE  Sound(Completed(e, better, cut), topic, actions, last, allowed)
<1>1. e \in ResearchState /\ ActionCount(e) \in Nat
  BY CountIsNat DEF Sound
<1>2. CASE ~(e.active /\ e.history # << >>)
  BY <1>2 DEF Completed
<1>3. CASE e.active /\ e.history # << >>
  <2>1. PICK outcome \in {"failed", "improved", "no_progress"} :
          Completed(e, better, cut) =
            [e EXCEPT !.active = FALSE, !.history[Len(e.history)].outcome = outcome]
    BY <1>3 DEF Completed
  <2>2. PICK h : h = e.history
    OBVIOUS
  <2>3. h \in Seq(HistoryEntry) /\ Len(h) \in DOMAIN h
    BY <1>1, <1>3, <2>2 DEF ResearchState
  <2>4. PICK k : k = [h EXCEPT ![Len(h)].outcome = outcome]
    OBVIOUS
  <2>5. k \in Seq(HistoryEntry)
    <3>1. [h[Len(h)] EXCEPT !.outcome = outcome] \in HistoryEntry
      <4>1. h[Len(h)] \in HistoryEntry
        BY <2>3
      <4> QED
        BY <4>1 DEF HistoryEntry
    <3>2. PICK x \in HistoryEntry : x = [h[Len(h)] EXCEPT !.outcome = outcome]
      BY <3>1
    <3>3. k = [h EXCEPT ![Len(h)] = x]
      BY <2>4, <3>2
    <3> QED
      BY <2>3, <3>3
  <2>6. PICK d : d = [e EXCEPT !.active = FALSE, !.history = k]
    OBVIOUS
  <2>7. Completed(e, better, cut) = d
    BY <1>1, <2>1, <2>2, <2>4, <2>6 DEF ResearchState
  <2>8. d \in ResearchState
    BY <1>1, <2>5, <2>6 DEF ResearchState
  <2>9. ActionCount(d) = ActionCount(e)
    BY <1>1, <2>6 DEF ResearchState, ActionCount
  <2>10. NothingFutile(d.history)
    <3>1. d.history = k
      BY <1>1, <2>6 DEF ResearchState
    <3>2. DOMAIN k = DOMAIN h /\ DOMAIN h = 1 .. Len(h)
      BY <2>3, <2>4
    <3>3. ASSUME NEW i \in DOMAIN h
          PROVE  k[i].action = h[i].action /\ k[i].input = h[i].input
      <4>1. h[i] \in HistoryEntry
        BY <2>3
      <4>2. k[i] = IF i = Len(h) THEN [h[i] EXCEPT !.outcome = outcome] ELSE h[i]
        BY <2>3, <2>4
      <4> QED
        BY <4>1, <4>2 DEF HistoryEntry
    <3>4. \A i \in DOMAIN h : i # Len(h) => k[i] = h[i]
      BY <2>3, <2>4
    <3>5. NothingFutile(h)
      BY <2>2 DEF Sound
    <3> QED
      BY <2>3, <3>1, <3>2, <3>3, <3>4, <3>5 DEF NothingFutile
  <2> QED
    BY <1>1, <2>6, <2>7, <2>8, <2>9, <2>10 DEF Sound, ResearchState
<1> QED
  BY <1>2, <1>3
-----------------------------------------------------------------------------
(* The inductive invariant                                                 *)

(* What the history variables say of e.                                    *)
InPlay(e) == Sound(e, row.topic, started, finals, licence)

RowType ==
  /\ row \in Row
  /\ commit \in ResearchState \cup {NoState}
  /\ newer \in BOOLEAN
  /\ pc \in {"idle", "run"}
  /\ how \in {"fresh", "resume", "answer", "regenerate", "continue",
              "reverify", "revise"}
  /\ work \in ResearchState \cup {NoState}
  /\ started \in 0 .. ActionBudget
  /\ finals \in 0 .. 1
  /\ licence \in {"none", "user", "final", "revoked"}

(* The three places.                                                       *)
StatesSound ==
  /\ row.e # NoState => InPlay(row.e)
  /\ newer => InPlay(commit)
  /\ pc = "run" => InPlay(work)

(* A question is pending while nothing runs; those before the run come     *)
(* before there is anything to go on with, the others with it.             *)
QuestionSound ==
  /\ row.ask # "none" => row.status = "needs_clarification" /\ pc = "idle"
  /\ row.ask \in {"profile", "scope"} =>
       /\ row.e = NoState /\ ~newer
       /\ started = 0 /\ finals = 0
  /\ row.ask \in {"main", "quality", "focus"} => Visible # NoState
  /\ row.ask = "focus" => NeedsDecision(Visible)
  /\ row.status = "partial" => row.e # NoState

TurnSound == RowType /\ StatesSound /\ QuestionSound

ConversationInv ==
  /\ TurnSound
  /\ denied \in SUBSET Relaxations
  /\ turns \in 0 .. MaxTurns
-----------------------------------------------------------------------------
(* The steps: what a pipeline's start and a turn's end leave behind        *)

LEMMA NoStateIsNone ==
  \A e \in ResearchState : e # NoState
BY StateAssumption DEF StateAssumption

(* The history variables go with what was done.                            *)
HistoryType ==
  /\ started \in 0 .. ActionBudget
  /\ finals \in 0 .. 1
  /\ licence \in {"none", "user", "final", "revoked"}

LEMMA LaunchKeeps ==
  ASSUME RowType, HistoryType',
         NEW entry \in {"fresh", "answer", "regenerate", "continue", "reverify", "revise"},
         NEW base \in ResearchState \cup {NoState}, NEW e \in ResearchState,
         Launch(entry, base, e),
         base # NoState => Sound(base, row.topic, started', finals', licence'),
         Sound(e, row.topic, started', finals', licence')
  PROVE  TurnSound'
<1>1. PICK d \in Prepared(entry, e) : work' = d
  BY DEF Launch
<1>2. Follows(d, e)
  BY <1>1, PreparedFollows
<1>3. started' \in Nat
  BY DEF HistoryType
<1>4. Sound(d, row.topic, started', finals', licence')
  BY <1>2, <1>3, FollowerIsSound
<1>5. /\ row' = [row EXCEPT !.status = "running", !.ask = "none", !.e = base]
      /\ newer' = FALSE /\ pc' = "run" /\ how' = entry /\ commit' = commit
  BY DEF Launch, Save
<1>6. row'.e = base /\ row'.topic = row.topic /\ row'.ask = "none" /\ row'.status = "running"
  BY <1>5 DEF RowType, Row
<1>7. row' \in Row
  BY <1>5 DEF RowType, Row
<1>8. d \in ResearchState
  BY <1>4 DEF Sound
<1>9. RowType'
  BY <1>1, <1>5, <1>7, <1>8 DEF RowType, HistoryType
<1>10. StatesSound'
  BY <1>1, <1>4, <1>5, <1>6 DEF StatesSound, InPlay
<1>11. QuestionSound'
  BY <1>6 DEF QuestionSound
<1> QED
  BY <1>9, <1>10, <1>11 DEF TurnSound

LEMMA EndKeeps ==
  ASSUME RowType, NEW e, InPlay(e),
         NEW kind \in {"needs_clarification", "blocked"},
         NEW ask \in {"none", "main", "quality", "focus"},
         ask # "none" => kind = "needs_clarification",
         ask = "focus" => NeedsDecision(e),
         End(kind, ask, e)
  PROVE  TurnSound'
<1>1. /\ row' = [row EXCEPT !.status = kind, !.ask = ask, !.e = e]
      /\ newer' = FALSE /\ pc' = "idle" /\ work' = NoState /\ how' = how
      /\ commit' = commit /\ started' = started /\ finals' = finals /\ licence' = licence
  BY DEF End, Save, Over, history
<1>2. e \in ResearchState /\ e # NoState
  BY NoStateIsNone DEF InPlay, Sound
<1>3. row'.e = e /\ row'.topic = row.topic /\ row'.ask = ask /\ row'.status = kind
  BY <1>1 DEF RowType, Row
<1>4. row' \in Row
  BY <1>1, <1>2 DEF RowType, Row
<1>5. RowType'
  BY <1>1, <1>4 DEF RowType
<1>6. StatesSound'
  BY <1>1, <1>3 DEF StatesSound, InPlay
<1>7. Visible' = e
  BY <1>1, <1>3 DEF Visible
<1>8. QuestionSound'
  BY <1>1, <1>2, <1>3, <1>7 DEF QuestionSound
<1> QED
  BY <1>5, <1>6, <1>8 DEF TurnSound

LEMMA EndCommittedKeeps ==
  ASSUME RowType, NEW e, InPlay(e),
         NEW kind \in Terminal \cup {"success"},
         EndCommitted(kind, e)
  PROVE  TurnSound'
<1>1. /\ row' = [row EXCEPT !.status = kind, !.ask = "none", !.e = e]
      /\ newer' \in BOOLEAN /\ commit' \in {commit, e} /\ (newer' => commit' = e)
      /\ pc' = "idle" /\ work' = NoState /\ how' = how
      /\ started' = started /\ finals' = finals /\ licence' = licence
  BY DEF EndCommitted, Over, history
<1>2. e \in ResearchState /\ e # NoState
  BY NoStateIsNone DEF InPlay, Sound
<1>3. row'.e = e /\ row'.topic = row.topic /\ row'.ask = "none"
  BY <1>1 DEF RowType, Row
<1>4. row' \in Row
  BY <1>1, <1>2 DEF RowType, Row, Terminal
<1>5. RowType'
  BY <1>1, <1>2, <1>4 DEF RowType
<1>6. StatesSound'
  BY <1>1, <1>3 DEF StatesSound, InPlay
<1>7. QuestionSound'
  BY <1>2, <1>3 DEF QuestionSound
<1> QED
  BY <1>5, <1>6, <1>7 DEF TurnSound

(* A recovery action, of a draft that was not released.                    *)
LEMMA ExecuteKeeps ==
  ASSUME RowType, NEW e, InPlay(e), e.gate # "released",
         NEW action \in Executed, Allowed(e, action), ActionCount(e) < ActionBudget,
         Execute(e, action)
  PROVE  TurnSound'
<1>1. PICK s : s = StrictlyStarted(e, action)
  OBVIOUS
<1>2. /\ Launch(Entry(action), s, s)
      /\ started' = started + 1 /\ licence' = "none" /\ finals' = finals
  BY <1>1 DEF Execute
<1>3. started \in Nat /\ ActionBudget \in Nat /\ ActionCount(e) \in Nat
  BY RecoveryAssumption, CountIsNat DEF RowType, InPlay, Sound
<1>4. started + 1 <= ActionBudget
  BY <1>3 DEF InPlay, Sound
<1>5. Sound(s, row.topic, started', finals', licence')
  BY <1>1, <1>2, <1>3, StartedIsSound DEF InPlay
<1>6. HistoryType'
  BY <1>2, <1>3, <1>4 DEF HistoryType, RowType
<1>7. Entry(action) \in {"fresh", "answer", "regenerate", "continue", "reverify", "revise"}
  BY DEF Entry
<1>8. s \in ResearchState
  BY <1>5 DEF Sound
<1> QED
  BY <1>2, <1>5, <1>6, <1>7, <1>8, LaunchKeeps

(* The last resort.                                                        *)
LEMMA RunFinalKeeps ==
  ASSUME RowType, NEW e, InPlay(e), ~e.final, RunFinal(e)
  PROVE  TurnSound'
<1>1. PICK s : s = FinalMarked(e)
  OBVIOUS
<1>2. /\ Launch("regenerate", s, s)
      /\ finals' = (IF finals = 0 THEN 1 ELSE 2)
      /\ licence' = "final" /\ started' = started
  BY <1>1 DEF RunFinal
<1>3. finals = 0
  BY DEF InPlay, Sound, RowType
<1>4. started \in Nat
  BY DEF RowType
<1>5. Sound(s, row.topic, started', finals', licence')
  BY <1>1, <1>2, <1>3, <1>4, FinalIsSound DEF InPlay
<1>6. HistoryType'
  BY <1>2, <1>3 DEF HistoryType, RowType
<1>7. s \in ResearchState
  BY <1>5 DEF Sound
<1> QED
  BY <1>2, <1>5, <1>6, <1>7, LaunchKeeps

LEMMA RecoverKeeps ==
  ASSUME RowType, NEW e, InPlay(e), NeedsDecision(e), Recover(e)
  PROVE  TurnSound'
<1>1. PICK f \in Facts, enabled \in BOOLEAN :
        LET action == Decide(e, f, denied = Relaxations) IN
        \/ /\ action = "degrade"
           /\ IF enabled /\ MayRunFinal(e, f) THEN RunFinal(e)
              ELSE EndCommitted("blocked", e)
        \/ /\ action \in Executed
           /\ IF f.cards \/ action = "search" THEN Execute(e, action)
              ELSE End("needs_clarification", "quality", e)
        \/ /\ action = "ask"
           /\ End("needs_clarification", Ask(e), e)
  BY DEF Recover
<1>2. PICK strict \in BOOLEAN : strict = (denied = Relaxations)
  OBVIOUS
<1>3. PICK action : action = Decide(e, f, strict)
  OBVIOUS
<1>4. CASE RunFinal(e) /\ MayRunFinal(e, f)
  BY <1>4, RunFinalKeeps DEF MayRunFinal
<1>5. CASE EndCommitted("blocked", e)
  BY <1>5, EndCommittedKeeps DEF Terminal
<1>6. CASE action \in Executed /\ Execute(e, action)
  <2>1. e \in ResearchState /\ e.gate # "released"
    BY DEF InPlay, Sound, NeedsDecision
  <2>2. ActionCount(e) < ActionBudget /\ Allowed(e, action)
    BY <1>3, <1>6, <2>1, DecideAllowed
  <2> QED
    BY <1>6, <2>1, <2>2, ExecuteKeeps
<1>7. CASE End("needs_clarification", "quality", e)
  BY <1>7, EndKeeps
<1>8. CASE End("needs_clarification", Ask(e), e)
  <2>1. Ask(e) \in {"quality", "focus"}
    BY DEF Ask
  <2> QED
    BY <1>8, <2>1, EndKeeps
<1> QED
  BY <1>1, <1>2, <1>3, <1>4, <1>5, <1>6, <1>7, <1>8

LEMMA PersistKeeps ==
  ASSUME RowType, NEW e, InPlay(e), NEW kind \in Terminal \cup {"waiting"}, NEW hard,
         Persist(e, kind, hard)
  PROVE  TurnSound'
<1>1. CASE End("needs_clarification", "main", e)
  BY <1>1, EndKeeps
<1>2. CASE NeedsDecision(e) /\ Recover(e)
  BY <1>2, RecoverKeeps
<1>3. CASE kind # "waiting" /\ EndCommitted(kind, e)
  BY <1>3, EndCommittedKeeps
<1> QED
  BY <1>1, <1>2, <1>3 DEF Persist

LEMMA PersistRevisionKeeps ==
  ASSUME RowType, NEW e, InPlay(e), NEW hard, PersistRevision(e, hard)
  PROVE  TurnSound'
<1>1. CASE NeedsDecision(e) /\ Recover(e)
  BY <1>1, RecoverKeeps
<1>2. CASE \E kind \in Derived(e) : EndCommitted(kind, e)
  <2>1. PICK kind \in Derived(e) : EndCommitted(kind, e)
    BY <1>2
  <2>2. kind \in Terminal \cup {"success"}
    BY DEF Derived, Terminal
  <2> QED
    BY <2>1, <2>2, EndCommittedKeeps
<1> QED
  BY <1>1, <1>2 DEF PersistRevision
-----------------------------------------------------------------------------
(* The steps: the user                                                     *)

LEMMA AmendedFollows ==
  ASSUME NEW e \in ResearchState, NEW i \in Inputs, NEW a \in Nat, a >= e.attempts,
         NEW x \in BOOLEAN, NEW y \in BOOLEAN, NEW v \in BOOLEAN, NEW z \in BOOLEAN,
         y => e.forced
  PROVE  Follows([e EXCEPT !.input = i, !.attempts = a, !.expand = x, !.forced = y,
                           !.verified = v, !.active = z], e)
<1>1. PICK d : d = [e EXCEPT !.input = i, !.attempts = a, !.expand = x, !.forced = y,
                             !.verified = v, !.active = z]
  OBVIOUS
<1>2. d \in ResearchState
  <2>1. d = [topic |-> e.topic, input |-> i, gate |-> e.gate, codes |-> e.codes,
             verified |-> v, fresh |-> e.fresh, count |-> e.count, attempts |-> a,
             round |-> e.round, history |-> e.history, rejected |-> e.rejected,
             active |-> z, expand |-> x, stopped |-> e.stopped, forced |-> y,
             final |-> e.final]
    BY <1>1 DEF ResearchState
  <2> QED
    BY <2>1 DEF ResearchState
<1>3. /\ d.topic = e.topic /\ d.final = e.final /\ d.history = e.history
      /\ d.count = e.count /\ d.attempts = a /\ d.round = e.round
      /\ d.forced = y /\ d.gate = e.gate
  BY <1>1 DEF ResearchState
<1>4. Follows(d, e)
  BY <1>2, <1>3, RetouchedFollows
<1> QED
  BY <1>1, <1>4

(* What the answers make of the state.                                     *)
LEMMA AnswersFollow ==
  ASSUME NEW e \in ResearchState, NEW i \in Inputs, NEW x \in BOOLEAN
  PROVE  /\ Follows([e EXCEPT !.input = i, !.verified = FALSE], e)
         /\ Follows([e EXCEPT !.active = FALSE], e)
         /\ Follows([e EXCEPT !.input = i, !.attempts = @ + 1], e)
         /\ Follows([e EXCEPT !.attempts = @ + 1, !.forced = FALSE, !.expand = x], e)
         /\ Follows([e EXCEPT !.attempts = @ + 1], e)
         /\ Follows([e EXCEPT !.expand = TRUE], e)
<1>1. e.attempts \in Nat /\ e.attempts + 1 \in Nat /\ e.attempts + 1 >= e.attempts
  BY DEF ResearchState
<1>2. PICK a \in Nat : a = e.attempts + 1
  BY <1>1
<1>3. /\ e.input \in Inputs /\ e.verified \in BOOLEAN /\ e.active \in BOOLEAN
      /\ e.forced \in BOOLEAN /\ e.expand \in BOOLEAN
  BY DEF ResearchState
<1>4. [e EXCEPT !.input = i, !.verified = FALSE] =
        [e EXCEPT !.input = i, !.attempts = e.attempts, !.expand = e.expand,
                  !.forced = e.forced, !.verified = FALSE, !.active = e.active]
  BY DEF ResearchState
<1>5. [e EXCEPT !.active = FALSE] =
        [e EXCEPT !.input = e.input, !.attempts = e.attempts, !.expand = e.expand,
                  !.forced = e.forced, !.verified = e.verified, !.active = FALSE]
  BY DEF ResearchState
<1>6. [e EXCEPT !.input = i, !.attempts = @ + 1] =
        [e EXCEPT !.input = i, !.attempts = a, !.expand = e.expand,
                  !.forced = e.forced, !.verified = e.verified, !.active = e.active]
  BY <1>2 DEF ResearchState
<1>7. [e EXCEPT !.attempts = @ + 1, !.forced = FALSE, !.expand = x] =
        [e EXCEPT !.input = e.input, !.attempts = a, !.expand = x,
                  !.forced = FALSE, !.verified = e.verified, !.active = e.active]
  BY <1>2 DEF ResearchState
<1>8. [e EXCEPT !.attempts = @ + 1] =
        [e EXCEPT !.input = e.input, !.attempts = a, !.expand = e.expand,
                  !.forced = e.forced, !.verified = e.verified, !.active = e.active]
  BY <1>2 DEF ResearchState
<1>9. [e EXCEPT !.expand = TRUE] =
        [e EXCEPT !.input = e.input, !.attempts = e.attempts, !.expand = TRUE,
                  !.forced = e.forced, !.verified = e.verified, !.active = e.active]
  BY DEF ResearchState
<1>10. e.attempts >= e.attempts /\ a >= e.attempts
  BY <1>1, <1>2
<1>11. TRUE \in BOOLEAN /\ FALSE \in BOOLEAN
  OBVIOUS
<1>12. Follows([e EXCEPT !.input = i, !.verified = FALSE], e)
  <2>1. Follows([e EXCEPT !.input = i, !.attempts = e.attempts, !.expand = e.expand,
                          !.forced = e.forced, !.verified = FALSE, !.active = e.active], e)
    BY <1>1, <1>3, <1>10, <1>11, AmendedFollows
  <2> QED
    BY <2>1, <1>4
<1>13. Follows([e EXCEPT !.active = FALSE], e)
  <2>1. Follows([e EXCEPT !.input = e.input, !.attempts = e.attempts, !.expand = e.expand,
                          !.forced = e.forced, !.verified = e.verified, !.active = FALSE], e)
    BY <1>1, <1>3, <1>10, <1>11, AmendedFollows
  <2> QED
    BY <2>1, <1>5
<1>14. Follows([e EXCEPT !.input = i, !.attempts = @ + 1], e)
  <2>1. Follows([e EXCEPT !.input = i, !.attempts = a, !.expand = e.expand,
                          !.forced = e.forced, !.verified = e.verified, !.active = e.active], e)
    BY <1>3, <1>10, <1>11, AmendedFollows
  <2> QED
    BY <2>1, <1>6
<1>15. Follows([e EXCEPT !.attempts = @ + 1, !.forced = FALSE, !.expand = x], e)
  <2>1. Follows([e EXCEPT !.input = e.input, !.attempts = a, !.expand = x,
                          !.forced = FALSE, !.verified = e.verified, !.active = e.active], e)
    BY <1>3, <1>10, <1>11, AmendedFollows
  <2> QED
    BY <2>1, <1>7
<1>16. Follows([e EXCEPT !.attempts = @ + 1], e)
  <2>1. Follows([e EXCEPT !.input = e.input, !.attempts = a, !.expand = e.expand,
                          !.forced = e.forced, !.verified = e.verified, !.active = e.active], e)
    BY <1>3, <1>10, <1>11, AmendedFollows
  <2> QED
    BY <2>1, <1>8
<1>17. Follows([e EXCEPT !.expand = TRUE], e)
  <2>1. Follows([e EXCEPT !.input = e.input, !.attempts = e.attempts, !.expand = TRUE,
                          !.forced = e.forced, !.verified = e.verified, !.active = e.active], e)
    BY <1>1, <1>3, <1>10, <1>11, AmendedFollows
  <2> QED
    BY <2>1, <1>9
<1> QED
  BY <1>12, <1>13, <1>14, <1>15, <1>16, <1>17

(* The pipeline goes on from what the row keeps, on what the answer makes  *)
(* of it.                                                                  *)
LEMMA ContinueKeeps ==
  ASSUME RowType, NEW base, NEW e, NEW d, NEW entry \in {"answer", "regenerate", "continue", "revise"},
         InPlay(base), InPlay(e), Follows(d, e),
         Launch(entry, base, d),
         started' = started, finals' = finals,
         licence' \in {"none", "user", "final", "revoked"},
         licence # "none" => licence' # "none"
  PROVE  TurnSound'
<1>1. started \in Nat /\ HistoryType'
  BY RecoveryAssumption DEF RowType, HistoryType
<1>2. Sound(base, row.topic, started', finals', licence')
  BY DEF InPlay, Sound
<1>3. Sound(d, row.topic, started', finals', licence')
  BY <1>1, FollowerIsSound DEF InPlay
<1>4. base \in ResearchState /\ d \in ResearchState
  BY <1>2, <1>3 DEF Sound
<1> QED
  BY <1>1, <1>2, <1>3, <1>4, LaunchKeeps

LEMMA ForceKeeps ==
  ASSUME RowType, NEW base, NEW e, InPlay(base), InPlay(e),
         Launch("regenerate", base, [e EXCEPT !.forced = TRUE]),
         started' = started, finals' = finals, licence' = "user"
  PROVE  TurnSound'
<1>1. HistoryType'
  BY DEF RowType, HistoryType
<1>2. Sound(base, row.topic, started', finals', licence')
  BY DEF InPlay, Sound
<1>3. PICK d : d = [e EXCEPT !.forced = TRUE]
  OBVIOUS
<1>4. e \in ResearchState
  BY DEF InPlay, Sound
<1>5. d \in ResearchState
  BY <1>3, <1>4 DEF ResearchState
<1>6. ActionCount(d) = ActionCount(e)
  BY <1>3, <1>4 DEF ResearchState, ActionCount
<1>7. d.topic = e.topic /\ d.final = e.final /\ d.history = e.history
  BY <1>3, <1>4 DEF ResearchState
<1>8. Sound(d, row.topic, started', finals', licence')
  BY <1>5, <1>6, <1>7 DEF InPlay, Sound
<1>9. base \in ResearchState
  BY DEF InPlay, Sound
<1> QED
  BY <1>1, <1>2, <1>3, <1>5, <1>8, <1>9, LaunchKeeps

LEMMA CarryOutKeeps ==
  ASSUME RowType, QuestionSound, NEW e, NEW f \in Facts, NEW input \in Inputs, NEW choice,
         Visible # NoState, InPlay(Visible), InPlay(e),
         row.ask = "focus" => e.gate # "released",
         CarryOut(choice, e, f, input)
  PROVE  TurnSound'
<1>1. PICK base : base = Visible
  OBVIOUS
<1>2. InPlay(base) /\ e \in ResearchState
  BY <1>1 DEF InPlay, Sound
<1>3. licence \in {"none", "user", "final", "revoked"}
  BY DEF RowType
<1>4. CASE ForceGenerate(e)
  BY <1>1, <1>2, <1>4, ForceKeeps DEF ForceGenerate, Regenerate
<1>5. CASE Accept(e, input)
  BY <1>1, <1>2, <1>3, <1>5, ContinueKeeps, AnswersFollow DEF Accept, Regenerate
<1>6. CASE Rewrite(e)
  <2>1. PICK x \in {e.expand, FALSE} :
          Regenerate([e EXCEPT !.attempts = @ + 1, !.forced = FALSE, !.expand = x])
    BY <1>6 DEF Rewrite
  <2>2. x \in BOOLEAN
    BY <1>2, <2>1 DEF ResearchState
  <2>3. PICK d : d = [e EXCEPT !.attempts = @ + 1, !.forced = FALSE, !.expand = x]
    OBVIOUS
  <2>4. input \in Inputs /\ Follows(d, e)
    BY <1>2, <2>2, <2>3, AnswersFollow
  <2>5. licence' \in {"none", "revoked"} /\ (licence # "none" => licence' # "none")
    BY <1>6 DEF Rewrite
  <2> QED
    BY <1>1, <1>2, <2>1, <2>3, <2>4, <2>5, ContinueKeeps DEF Regenerate
<1>7. CASE Reclassify(e)
  BY <1>1, <1>2, <1>3, <1>7, ContinueKeeps, AnswersFollow DEF Reclassify, Regenerate
<1>8. CASE Widen(e, input)
  BY <1>1, <1>2, <1>3, <1>8, ContinueKeeps, AnswersFollow DEF Widen, history
<1>9. CASE Retry(e, f)
  <2>1. PICK open : open = [e EXCEPT !.expand = TRUE]
    OBVIOUS
  <2>2. Follows(open, e) /\ open \in ResearchState /\ open.gate = e.gate
    <3>1. Follows(open, e)
      BY <1>2, <2>1, AnswersFollow
    <3> QED
      BY <1>2, <2>1, <3>1 DEF ResearchState
  <2>3. InPlay(open)
    <3>1. started \in Nat
      BY DEF RowType
    <3> QED
      BY <2>2, <3>1, FollowerIsSound DEF InPlay
  <2>4. CASE End("blocked", "none", open)
    BY <2>3, <2>4, EndKeeps
  <2>5. CASE row.ask = "focus" /\ Decide(open, f, denied = Relaxations) = "search"
             /\ Execute(open, "search")
    <3>1. PICK strict \in BOOLEAN : strict = (denied = Relaxations)
      OBVIOUS
    <3>2. "search" \in Executed
      BY DEF Executed
    <3>3. ActionCount(open) < ActionBudget /\ Allowed(open, "search")
      BY <2>2, <2>5, <3>1, <3>2, DecideAllowed
    <3> QED
      BY <2>2, <2>3, <2>5, <3>2, <3>3, ExecuteKeeps
  <2>6. CASE Launch("continue", Visible, [open EXCEPT !.attempts = @ + 1]) /\ UNCHANGED history
    BY <1>1, <1>2, <1>3, <2>2, <2>3, <2>6, ContinueKeeps, AnswersFollow DEF history
  <2>7. CASE Launch("regenerate", Visible, [e EXCEPT !.attempts = @ + 1]) /\ UNCHANGED history
    BY <1>1, <1>2, <1>3, <2>7, ContinueKeeps, AnswersFollow DEF history
  <2> QED
    BY <1>9, <2>1, <2>4, <2>5, <2>6, <2>7 DEF Retry, Exhausted
<1> QED
  BY <1>4, <1>5, <1>6, <1>7, <1>8, <1>9 DEF CarryOut

LEMMA VisibleInPlay ==
  ASSUME StatesSound, Visible # NoState
  PROVE  InPlay(Visible)
BY DEF StatesSound, Visible

LEMMA FreshIsSound ==
  ASSUME NEW topic \in Nat, NEW allowed
  PROVE  Sound(FreshState(topic), topic, 0, 0, allowed)
<1>1. PICK i \in Inputs : i = CHOOSE j \in Inputs : TRUE
  BY StateAssumption DEF StateAssumption
<1>2. PICK d : d = FreshState(topic)
  OBVIOUS
<1>3. << >> \in Seq(HistoryEntry)
  OBVIOUS
<1>4. d = [topic |-> topic, input |-> i, gate |-> "none", codes |-> {}, verified |-> FALSE,
           fresh |-> FALSE, count |-> 0, attempts |-> 0, round |-> 0, history |-> << >>,
           rejected |-> {}, active |-> FALSE, expand |-> TRUE, stopped |-> FALSE,
           forced |-> FALSE, final |-> FALSE]
  BY <1>1, <1>2 DEF FreshState
<1>5. d \in ResearchState
  BY <1>3, <1>4 DEF ResearchState
<1>6. ActionCount(d) \in Nat
  BY <1>5, CountIsNat
<1>7. NothingFutile(d.history)
  BY <1>4 DEF NothingFutile
<1> QED
  BY <1>2, <1>4, <1>5, <1>6, <1>7 DEF Sound

LEMMA PreflightKeeps ==
  ASSUME RowType, NEW topic \in 0 .. MaxTopics, pc = "idle",
         started' = 0, finals' = 0, licence' \in {"none", "user", "final", "revoked"},
         Preflight(topic)
  PROVE  TurnSound'
<1> topic \in Nat /\ 0 \in 0 .. ActionBudget
  BY TurnsAssumption, RecoveryAssumption DEF TurnsAssumption, RecoveryAssumption
<1>1. newer' = FALSE /\ commit' = commit
  BY DEF Preflight
<1>2. PICK asked : asked = [row EXCEPT !.topic = topic, !.e = NoState]
  OBVIOUS
<1>3. /\ started' \in 0 .. ActionBudget /\ finals' \in 0 .. 1 /\ newer' \in BOOLEAN
      /\ licence' \in {"none", "user", "final", "revoked"}
      /\ commit' \in ResearchState \cup {NoState}
  <2>1. started' \in 0 .. ActionBudget /\ finals' \in 0 .. 1
    OBVIOUS
  <2>2. newer' \in BOOLEAN /\ commit' \in ResearchState \cup {NoState}
    BY <1>1 DEF RowType
  <2> QED
    BY <2>1, <2>2
<1>4. asked \in Row /\ asked.topic = topic /\ asked.e = NoState
  BY <1>2 DEF RowType, Row
<1>5. CASE row' = [asked EXCEPT !.status = "blocked", !.ask = "none"] /\ UNCHANGED turn
  <2>1. row' \in Row /\ row'.e = NoState /\ row'.ask = "none" /\ row'.status = "blocked"
    BY <1>4, <1>5 DEF Row
  <2>2. pc' = "idle" /\ how' = how /\ work' = work
    BY <1>5 DEF turn
  <2>3. RowType'
    BY <1>1, <1>3, <2>1, <2>2 DEF RowType
  <2>4. StatesSound'
    BY <1>1, <2>1, <2>2 DEF StatesSound
  <2>5. QuestionSound'
    BY <1>1, <2>1, <2>2 DEF QuestionSound
  <2> QED
    BY <2>3, <2>4, <2>5 DEF TurnSound
<1>6. CASE /\ \E ask \in {"profile", "scope"} :
                row' = [asked EXCEPT !.status = "needs_clarification", !.ask = ask]
           /\ UNCHANGED turn
  <2>1. /\ row' \in Row /\ row'.e = NoState /\ row'.ask \in {"profile", "scope"}
        /\ row'.status = "needs_clarification"
    BY <1>4, <1>6 DEF Row
  <2>2. pc' = "idle" /\ how' = how /\ work' = work
    BY <1>6 DEF turn
  <2>3. RowType'
    BY <1>1, <1>3, <2>1, <2>2 DEF RowType
  <2>4. StatesSound'
    BY <1>1, <2>1, <2>2 DEF StatesSound
  <2>5. QuestionSound'
    BY <1>1, <2>1, <2>2 DEF QuestionSound
  <2> QED
    BY <2>3, <2>4, <2>5 DEF TurnSound
<1>7. CASE /\ row' = [asked EXCEPT !.status = "running", !.ask = "none"]
           /\ pc' = "run" /\ how' = "fresh" /\ work' = FreshState(topic)
  <2>1. /\ row' \in Row /\ row'.e = NoState /\ row'.ask = "none"
        /\ row'.status = "running" /\ row'.topic = topic
    BY <1>4, <1>7 DEF Row
  <2>2. PICK d : d = FreshState(topic)
    OBVIOUS
  <2>3. Sound(d, topic, 0, 0, licence')
    BY <2>2, FreshIsSound
  <2>4. work' = d /\ d \in ResearchState
    BY <1>7, <2>2, <2>3 DEF Sound
  <2>5. RowType'
    BY <1>1, <1>3, <1>7, <2>1, <2>4 DEF RowType
  <2>6. StatesSound'
    BY <1>1, <1>7, <2>1, <2>3, <2>4 DEF StatesSound, InPlay
  <2>7. QuestionSound'
    BY <2>1 DEF QuestionSound
  <2> QED
    BY <2>5, <2>6, <2>7 DEF TurnSound
<1> QED
  BY <1>2, <1>5, <1>6, <1>7 DEF Preflight

LEMMA UserKeeps ==
  ASSUME ConversationInv, User
  PROVE  TurnSound'
<1> USE DEF ConversationInv, TurnSound
<1>1. CASE \E forbidden \in {{}, Relaxations} : StartTurn(forbidden)
  <2>1. row.topic + 1 \in 0 .. MaxTopics
    BY <1>1, TurnsAssumption DEF StartTurn, RowType, Row, TurnsAssumption
  <2>2. PICK topic : topic = row.topic + 1
    OBVIOUS
  <2> QED
    BY <1>1, <2>1, <2>2, PreflightKeeps DEF StartTurn, UserTurn
<1>2. CASE AnswerPreflight
  <2>1. row.topic \in 0 .. MaxTopics
    BY DEF RowType, Row
  <2>2. PICK topic : topic = row.topic
    OBVIOUS
  <2>3. /\ started' = started /\ finals' = finals /\ licence' = licence
        /\ row.ask \in {"profile", "scope"}
    BY <1>2 DEF AnswerPreflight, history
  <2>4. row.e = NoState /\ ~newer /\ started = 0 /\ finals = 0
    BY <2>3 DEF QuestionSound
  <2>5. CASE Preflight(topic)
    BY <1>2, <2>1, <2>2, <2>3, <2>4, <2>5, PreflightKeeps DEF AnswerPreflight, UserTurn, RowType
  <2>6. CASE Launch("fresh", Visible, FreshState(topic))
    <3>1. Visible = NoState
      BY <2>4 DEF Visible
    <3>2. PICK d : d = FreshState(topic)
      OBVIOUS
    <3>3. topic \in Nat
      BY <2>1, <2>2, TurnsAssumption DEF TurnsAssumption
    <3>4. Sound(d, row.topic, started', finals', licence')
      BY <2>2, <2>3, <2>4, <3>2, <3>3, FreshIsSound
    <3>5. HistoryType'
      BY <2>3 DEF HistoryType, RowType
    <3>6. d \in ResearchState
      BY <3>4 DEF Sound
    <3>7. Launch("fresh", NoState, d)
      BY <2>6, <3>1, <3>2
    <3> QED
      BY <3>4, <3>5, <3>6, <3>7, LaunchKeeps
  <2> QED
    BY <1>2, <2>2, <2>5, <2>6 DEF AnswerPreflight
<1>3. CASE \E input \in Inputs : AnswerMain(input)
  <2>1. PICK input \in Inputs : AnswerMain(input)
    BY <1>3
  <2>2. PICK base : base = Visible
    OBVIOUS
  <2>3. InPlay(base) /\ base \in ResearchState
    BY <2>1, <2>2, VisibleInPlay DEF AnswerMain, QuestionSound, InPlay, Sound
  <2>4. PICK d : d = [base EXCEPT !.input = input, !.verified = FALSE]
    OBVIOUS
  <2>5. Follows(d, base)
    <3>1. TRUE \in BOOLEAN
      OBVIOUS
    <3> QED
      BY <2>3, <2>4, <3>1, AnswersFollow
  <2>6. Launch("answer", base, d) /\ UNCHANGED history
    BY <2>1, <2>2, <2>4 DEF AnswerMain
  <2> QED
    BY <2>3, <2>5, <2>6, ContinueKeeps DEF history, RowType
<1>4. CASE Resume
  <2>1. /\ pc' = "run" /\ how' = "resume" /\ work' = Visible
        /\ row' = row /\ commit' = commit /\ newer' = newer
        /\ started' = started /\ finals' = finals /\ licence' = licence
    BY <1>4 DEF Resume, history
  <2>2. InPlay(Visible) /\ Visible \in ResearchState
    BY <1>4, VisibleInPlay DEF Resume, InPlay, Sound
  <2>3. row.ask = "none" /\ row.status # "partial"
    BY <1>4 DEF Resume, QuestionSound, RowType, Row
  <2> QED
    BY <2>1, <2>2, <2>3 DEF RowType, StatesSound, QuestionSound, InPlay
<1>5. CASE \E input \in Inputs : Revise(input)
  <2>1. PICK input \in Inputs : Revise(input)
    BY <1>5
  <2>2. PICK base : base = Visible
    OBVIOUS
  <2>3. InPlay(base) /\ base \in ResearchState
    BY <2>1, <2>2, VisibleInPlay DEF Revise, InPlay, Sound
  <2>4. PICK d : d = [base EXCEPT !.input = input, !.verified = FALSE]
    OBVIOUS
  <2>5. Follows(d, base)
    <3>1. TRUE \in BOOLEAN
      OBVIOUS
    <3> QED
      BY <2>3, <2>4, <3>1, AnswersFollow
  <2>6. Launch("revise", base, d) /\ UNCHANGED history
    BY <2>1, <2>2, <2>4 DEF Revise
  <2> QED
    BY <2>3, <2>5, <2>6, ContinueKeeps DEF history, RowType
<1>6. ASSUME AwaitsDecision
      PROVE  /\ InPlay(Visible) /\ Visible # NoState
             /\ row.ask \in {"none", "quality", "focus"}
             /\ row.ask = "focus" => NeedsDecision(Visible)
  BY <1>6, VisibleInPlay DEF AwaitsDecision, QuestionSound, RowType, Row
<1>7. CASE Misunderstood
  <2>1. PICK e, ask : e = Visible /\ ask = row.ask
    OBVIOUS
  <2> QED
    BY <1>6, <1>7, <2>1, EndKeeps DEF Misunderstood
<1>8. CASE Stop \/ \E choice \in Choices : Refuse(choice)
  <2>1. PICK e : e = Visible
    OBVIOUS
  <2>2. AwaitsDecision /\ End("blocked", "none", e)
    BY <1>8, <2>1 DEF Stop, Refuse, Exhausted
  <2> QED
    BY <1>6, <2>1, <2>2, EndKeeps
<1>9. CASE \E choice \in Choices, f \in Facts, input \in Inputs : DecideQuality(choice, f, input)
  <2>1. PICK choice \in Choices, f \in Facts, input \in Inputs : DecideQuality(choice, f, input)
    BY <1>9
  <2>2. AwaitsDecision
    BY <2>1 DEF DecideQuality
  <2>3. PICK base : base = Visible
    OBVIOUS
  <2>4. PICK e \in {base, [base EXCEPT !.active = FALSE]} : CarryOut(choice, e, f, input)
    BY <2>1, <2>3 DEF DecideQuality
  <2>5. InPlay(base) /\ base \in ResearchState
    BY <1>6, <2>2, <2>3 DEF InPlay, Sound
  <2>6. base.gate = e.gate /\ Follows(e, base)
    <3>1. CASE e = base
      BY <2>5, <3>1, CountIsNat DEF Follows
    <3>2. CASE e = [base EXCEPT !.active = FALSE]
      <4>1. TRUE \in BOOLEAN
        OBVIOUS
      <4> QED
        BY <2>5, <3>2, <4>1, AnswersFollow DEF ResearchState
    <3> QED
      BY <2>4, <3>1, <3>2
  <2>7. InPlay(e)
    <3>1. started \in Nat
      BY DEF RowType
    <3> QED
      BY <2>5, <2>6, <3>1, FollowerIsSound DEF InPlay
  <2>8. row.ask = "focus" => e.gate # "released"
    BY <1>6, <2>2, <2>3, <2>6 DEF NeedsDecision
  <2> QED
    BY <1>6, <2>2, <2>4, <2>7, <2>8, CarryOutKeeps
<1> QED
  BY <1>1, <1>2, <1>3, <1>4, <1>5, <1>7, <1>8, <1>9 DEF User
-----------------------------------------------------------------------------
(* The steps: the pipeline                                                 *)

LEMMA ExecutionKeeps ==
  ASSUME ConversationInv, Execution
  PROVE  TurnSound'
<1> USE DEF ConversationInv, TurnSound
<1>1. started \in Nat
  BY DEF RowType
<1>2. CASE \E kind \in Terminal \cup {"waiting"}, hard, better, cut \in BOOLEAN :
             Return(kind, hard, better, cut)
  <2>1. PICK kind \in Terminal \cup {"waiting"}, hard \in BOOLEAN, better \in BOOLEAN,
             cut \in BOOLEAN : Return(kind, hard, better, cut)
    BY <1>2
  <2>2. InPlay(work)
    BY <2>1 DEF Return, StatesSound
  <2>3. InPlay(Completed(work, better, cut))
    BY <1>1, <2>2, CompletedIsSound DEF InPlay
  <2>4. PICK e \in {work, Completed(work, better, cut)} :
          PersistRevision(e, hard) \/ Persist(e, kind, hard)
    BY <2>1 DEF Return
  <2>5. InPlay(e)
    BY <2>2, <2>3, <2>4
  <2> QED
    BY <2>4, <2>5, PersistKeeps, PersistRevisionKeeps
<1>3. CASE Commit
  <2>1. InPlay(work) /\ work \in ResearchState
    BY <1>3 DEF Commit, StatesSound, InPlay, Sound
  <2>2. PICK e \in {work} \cup Judged(work) \cup Gathered(work) \cup Searched(work)
                 \cup Kept(work) :
          work' = e /\ commit' = e
    BY <1>3 DEF Commit
  <2>3. Follows(e, work)
    <3>1. CASE e = work
      BY <2>1, <3>1, CountIsNat DEF Follows
    <3> QED
      BY <2>1, <2>2, <3>1, JudgedFollows, GatheredFollows, SearchedFollows, KeptFollows
  <2>4. /\ newer' = TRUE /\ row' = row /\ pc = "run" /\ pc' = pc /\ how' = how
        /\ started' = started /\ finals' = finals /\ licence' = licence
    BY <1>3 DEF Commit, history
  <2>5. Sound(e, row.topic, started, finals, licence)
    BY <1>1, <2>1, <2>3, FollowerIsSound DEF InPlay
  <2>6. e \in ResearchState
    BY <2>3 DEF Follows
  <2>7. RowType'
    BY <2>2, <2>4, <2>6 DEF RowType
  <2>8. StatesSound'
    BY <2>2, <2>4, <2>5 DEF StatesSound, InPlay
  <2>9. QuestionSound'
    BY <2>4 DEF QuestionSound
  <2> QED
    BY <2>7, <2>8, <2>9
<1>4. CASE \E kind \in {"failed", "cancelled"} : Raise(kind)
  <2>1. PICK kind \in {"failed", "cancelled"} : Raise(kind)
    BY <1>4
  <2>2. /\ pc = "run" /\ pc' = "idle" /\ work' = NoState /\ how' = how /\ commit' = commit
        /\ started' = started /\ finals' = finals /\ licence' = licence
    BY <2>1 DEF Raise, Over, history
  <2>3. CASE row' = row /\ newer' = newer
    BY <2>2, <2>3 DEF RowType, StatesSound, QuestionSound, InPlay, Visible
  <2>4. CASE Save(kind, "none", row.e)
    <3>1. /\ row' \in Row /\ row'.e = row.e /\ row'.topic = row.topic
          /\ row'.ask = "none" /\ row'.status = kind /\ newer' = FALSE
      BY <2>4 DEF Save, RowType, Row
    <3>2. RowType'
      BY <2>2, <3>1 DEF RowType
    <3>3. StatesSound'
      BY <2>2, <3>1 DEF StatesSound, InPlay
    <3>4. QuestionSound'
      BY <3>1 DEF QuestionSound
    <3> QED
      BY <3>2, <3>3, <3>4
  <2> QED
    BY <2>1, <2>3, <2>4 DEF Raise
<1>5. CASE Crash
  <2>1. /\ pc = "run" /\ pc' = "idle" /\ work' = NoState /\ how' = how
        /\ row' = row /\ newer' = newer /\ commit' = commit
        /\ started' = started /\ finals' = finals /\ licence' = licence
    BY <1>5 DEF Crash, Over, history
  <2> QED
    BY <2>1 DEF RowType, StatesSound, QuestionSound, InPlay, Visible
<1> QED
  BY <1>2, <1>3, <1>4, <1>5 DEF Execution

(* The relaxations the request forbids, and the turns.                     *)
LEMMA RestKeeps ==
  ASSUME ConversationInv, Next
  PROVE  denied' \in SUBSET Relaxations /\ turns' \in 0 .. MaxTurns
<1> USE TurnsAssumption DEF ConversationInv, TurnsAssumption
<1>1. CASE \E forbidden \in {{}, Relaxations} : StartTurn(forbidden)
  BY <1>1 DEF StartTurn, UserTurn
<1>2. CASE AnswerPreflight
  BY <1>2 DEF AnswerPreflight, UserTurn
<1>3. CASE \E input \in Inputs : AnswerMain(input)
  BY <1>3 DEF AnswerMain, UserTurn
<1>4. CASE Resume
  BY <1>4 DEF Resume, UserTurn
<1>5. CASE \E input \in Inputs : Revise(input)
  BY <1>5 DEF Revise, UserTurn
<1>6. CASE Misunderstood \/ Stop \/ \E choice \in Choices : Refuse(choice)
  BY <1>6 DEF Misunderstood, Stop, Refuse
<1>7. CASE \E choice \in Choices, f \in Facts, input \in Inputs : DecideQuality(choice, f, input)
  BY <1>7 DEF DecideQuality, UserTurn
<1>8. CASE Execution
  BY <1>8 DEF Execution, Return, Commit, Raise, Crash
<1> QED
  BY <1>1, <1>2, <1>3, <1>4, <1>5, <1>6, <1>7, <1>8 DEF Next, User

LEMMA ConversationInvInit ==
  Init => ConversationInv
<1> SUFFICES ASSUME Init
             PROVE  ConversationInv
  OBVIOUS
<1> USE TurnsAssumption, RecoveryAssumption
        DEF TurnsAssumption, RecoveryAssumption, Init
<1>1. row \in Row
  BY DEF Row
<1>2. RowType
  <2>1. started \in 0 .. ActionBudget /\ finals \in 0 .. 1
    OBVIOUS
  <2>2. commit \in ResearchState \cup {NoState} /\ work \in ResearchState \cup {NoState}
    OBVIOUS
  <2>3. newer \in BOOLEAN /\ pc \in {"idle", "run"} /\ licence \in {"none", "user", "final", "revoked"}
    OBVIOUS
  <2> QED
    BY <1>1, <2>1, <2>2, <2>3 DEF RowType
<1>3. StatesSound /\ QuestionSound
  BY DEF StatesSound, QuestionSound
<1> QED
  BY <1>2, <1>3 DEF ConversationInv, TurnSound

LEMMA ConversationInvStep ==
  ConversationInv /\ [Next]_vars => ConversationInv'
<1> SUFFICES ASSUME ConversationInv, [Next]_vars
             PROVE  ConversationInv'
  OBVIOUS
<1>1. CASE User \/ Execution
  <2>1. TurnSound'
    BY <1>1, UserKeeps, ExecutionKeeps
  <2> QED
    BY <1>1, <2>1, RestKeeps DEF ConversationInv, Next
<1>2. CASE UNCHANGED vars
  BY <1>2 DEF ConversationInv, TurnSound, RowType, StatesSound, QuestionSound, InPlay,
              Visible, vars
<1> QED
  BY <1>1, <1>2 DEF Next

(* In every state what a turn may go on from is sound: the row, the newest *)
(* checkpoint and the memory of the pipeline.                              *)
THEOREM ConversationInvariant == Spec => []ConversationInv
BY ConversationInvInit, ConversationInvStep, PTL DEF Spec
-----------------------------------------------------------------------------
(* The properties                                                          *)

(* What a turn would go on with belongs to the request of the row, and a   *)
(* question that is answered by going on has something to go on with:      *)
(* neither a checkpoint of an earlier request nor a lost one is resumed    *)
(* (repositories.py get and save).                                         *)
THEOREM TurnsStayWithTheRequest == Spec => []StateOfRequest
<1>1. ASSUME ConversationInv
      PROVE  StateOfRequest
  <2>1. Visible # NoState => Visible.topic = row.topic
    BY <1>1, VisibleInPlay DEF ConversationInv, TurnSound, InPlay, Sound
  <2> QED
    BY <1>1, <2>1 DEF ConversationInv, TurnSound, QuestionSound, StateOfRequest
<1> QED
  BY <1>1, ConversationInvariant, PTL

(* The automatic recovery of a request neither exceeds its budget nor      *)
(* spends it on what failed on the same evidence and draft, over all its   *)
(* turns, crashes, exceptions and resumptions, and the draft of last       *)
(* resort is generated once (_auto_recover_actionable_result,              *)
(* _run_exhausted_best_effort_generation).                                 *)
THEOREM RecoveryIsSound == Spec => []RecoverySound
<1>1. ASSUME ConversationInv
      PROVE  RecoverySound
  <2>1. RecoveryBounded
    BY <1>1, RecoveryAssumption
       DEF ConversationInv, TurnSound, RowType, RecoveryBounded, RecoveryAssumption
  <2>2. FutileOnce
    <3>1. SUFFICES ASSUME Visible # NoState
                   PROVE  NothingFutile(Visible.history)
      BY DEF FutileOnce, NothingFutile
    <3> QED
      BY <1>1, <3>1, VisibleInPlay DEF ConversationInv, TurnSound, InPlay, Sound
  <2>3. TypeOK
    BY <1>1, RecoveryAssumption
       DEF ConversationInv, TurnSound, RowType, TypeOK, RecoveryAssumption
  <2> QED
    BY <2>1, <2>2, <2>3 DEF RecoverySound
<1> QED
  BY <1>1, ConversationInvariant, PTL

(* A draft that failed its gate is delivered only if the user asked for it *)
(* or nothing was left to try, and no recovery by the strict gate was      *)
(* started since (_execute_quality_recovery_decision).                     *)
THEOREM ReleasesAreLicensed == Spec => []ReleaseLicensed
<1>1. ASSUME ConversationInv
      PROVE  ReleaseLicensed
  BY <1>1 DEF ConversationInv, TurnSound, StatesSound, QuestionSound, InPlay, Sound,
              ReleaseLicensed
<1> QED
  BY <1>1, ConversationInvariant, PTL

-----------------------------------------------------------------------------
(* The jobs.                                                               *)

USE JobsAssumption, ProcessesAssumption, PoolAssumption, SwitchAssumption
    DEF JobsAssumption, ProcessesAssumption, PoolAssumption, SwitchAssumption

(* One process: sv, pm, qu, th, su, fo and rq are its server, permits,     *)
(* queue, threads, submission, found and requeue; st is the job table.     *)

HeldBy(th) == {j \in Jobs : th[j] \in JobStages \cup {"queued"}}
Submitted(su) == IF su = NoJob THEN 0 ELSE 1

ProcessType(sv, pm, qu, th, su, fo, rq) ==
  /\ sv \in {"off", "recovering", "requeueing", "up", "draining", "dead"}
  /\ pm \in 0 .. Places
  /\ qu \in Seq(Jobs)
  /\ th \in [Jobs -> JobStages \cup {"none", "queued", "over"}]
  /\ su \in Jobs \cup {NoJob}
  /\ fo \in [Jobs -> Statuses]
  /\ rq \in SUBSET Jobs

(* The permits out are those of the jobs held.                             *)
Balanced(sv, pm, th, su) ==
  /\ IsFiniteSet(HeldBy(th))
  /\ pm + Cardinality(HeldBy(th)) + Submitted(su) <= Places
  /\ sv \in {"off", "recovering", "requeueing", "up"} =>
       pm + Cardinality(HeldBy(th)) + Submitted(su) = Places

(* A job waits in the queue once, and only there.                          *)
QueueSound(qu, th) ==
  /\ \A i \in DOMAIN qu : th[qu[i]] = "queued"
  /\ \A i, k \in DOMAIN qu : qu[i] = qu[k] => i = k

(* Every job a process knows of is in the table, and one that is still to  *)
(* be handed over has no thread yet.                                       *)
Known(th, su, fo, rq, st) ==
  /\ \A j \in Jobs : th[j] # "none" \/ fo[j] # "none" => st[j] # "none"
  /\ \A j \in rq \cup {su} : j \in Jobs => st[j] # "none" /\ th[j] = "none"

(* What a process has, by its age.                                         *)
Aged(sv, th, su, rq) ==
  /\ sv \in {"off", "recovering"} => \A j \in Jobs : th[j] = "none"
  /\ sv = "dead" => \A j \in Jobs : th[j] \in {"none", "over"}
  /\ sv \notin {"up", "draining"} => su = NoJob
  /\ sv # "requeueing" => rq = {}

ProcessSound(sv, pm, qu, th, su, fo, rq, st) ==
  /\ ProcessType(sv, pm, qu, th, su, fo, rq)
  /\ Balanced(sv, pm, th, su)
  /\ QueueSound(qu, th)
  /\ Known(th, su, fo, rq, st)
  /\ Aged(sv, th, su, rq)

ProcessesSound ==
  \A p \in Processes :
    ProcessSound(server[p], permits[p], queue[p], thread[p], submitting[p], found[p],
                 requeue[p], status)

(* A job that is executed was claimed.                                     *)
ExecutingClaimed ==
  \A p \in Processes, j \in Jobs :
    thread[p][j] \in Executing => status[j] \notin {"none", "queued"}

Tables ==
  /\ status \in [Jobs -> Statuses]
  /\ sessionOf \in [Jobs -> Sessions \cup {NoSession}]
  /\ server = [p \in Processes |-> server[p]]
  /\ permits = [p \in Processes |-> permits[p]]
  /\ queue = [p \in Processes |-> queue[p]]
  /\ thread = [p \in Processes |-> thread[p]]
  /\ submitting = [p \in Processes |-> submitting[p]]
  /\ found = [p \in Processes |-> found[p]]
  /\ requeue = [p \in Processes |-> requeue[p]]

JobsInv ==
  /\ Tables
  /\ ProcessesSound
  /\ ExecutingClaimed
  /\ OneActiveJob
  /\ ExecutedOnce
-----------------------------------------------------------------------------
(* What a change of one thread makes of the jobs held.                     *)
LEMMA HeldMoves ==
  ASSUME NEW th, NEW j \in Jobs, th = [k \in Jobs |-> th[k]],
         th[j] \in JobStages \cup {"queued"}, NEW x \in JobStages
  PROVE  HeldBy([th EXCEPT ![j] = x]) = HeldBy(th)
BY DEF HeldBy

LEMMA HeldEnds ==
  ASSUME NEW th, NEW j \in Jobs, th = [k \in Jobs |-> th[k]], IsFiniteSet(HeldBy(th)),
         th[j] \in JobStages \cup {"queued"}
  PROVE  /\ IsFiniteSet(HeldBy([th EXCEPT ![j] = "over"]))
         /\ Cardinality(HeldBy([th EXCEPT ![j] = "over"])) = Cardinality(HeldBy(th)) - 1
<1>1. HeldBy([th EXCEPT ![j] = "over"]) = HeldBy(th) \ {j} /\ j \in HeldBy(th)
  BY DEF HeldBy, JobStages
<1>2. QED
  BY <1>1, FS_RemoveElement

LEMMA HeldGrows ==
  ASSUME NEW th, NEW j \in Jobs, th = [k \in Jobs |-> th[k]], IsFiniteSet(HeldBy(th)),
         th[j] = "none"
  PROVE  /\ IsFiniteSet(HeldBy([th EXCEPT ![j] = "queued"]))
         /\ Cardinality(HeldBy([th EXCEPT ![j] = "queued"])) = Cardinality(HeldBy(th)) + 1
<1>1. HeldBy([th EXCEPT ![j] = "queued"]) = HeldBy(th) \cup {j} /\ j \notin HeldBy(th)
  BY DEF HeldBy, JobStages
<1>2. QED
  BY <1>1, FS_AddElement

LEMMA NoneHeld ==
  ASSUME NEW th, \A j \in Jobs : th[j] \in {"none", "over"}
  PROVE  IsFiniteSet(HeldBy(th)) /\ Cardinality(HeldBy(th)) = 0
<1>1. HeldBy(th) = {}
  BY DEF HeldBy, JobStages
<1>2. QED
  BY <1>1, FS_EmptySet

LEMMA HeldCounts ==
  ASSUME NEW sv, NEW pm, NEW th, NEW su, Balanced(sv, pm, th, su)
  PROVE  Cardinality(HeldBy(th)) \in Nat /\ Submitted(su) \in {0, 1}
BY FS_CardinalityType DEF Balanced, Submitted
-----------------------------------------------------------------------------
(* What the steps make of a sound process.                                 *)

(* A thread goes on to another stage.                                      *)
LEMMA StageMoved ==
  ASSUME NEW sv, NEW pm, NEW qu, NEW th, NEW su, NEW fo, NEW rq, NEW st,
         ProcessSound(sv, pm, qu, th, su, fo, rq, st),
         NEW j \in Jobs, th[j] \in JobStages, NEW x \in JobStages
  PROVE  ProcessSound(sv, pm, qu, [th EXCEPT ![j] = x], su, fo, rq, st)
<1> DEFINE t == [th EXCEPT ![j] = x]
<1>1. /\ th \in [Jobs -> JobStages \cup {"none", "queued", "over"}]
      /\ t \in [Jobs -> JobStages \cup {"none", "queued", "over"}]
      /\ t[j] = x /\ \A k \in Jobs : k # j => t[k] = th[k]
      /\ qu \in Seq(Jobs) /\ th[j] # "none" /\ th[j] # "queued" /\ th[j] # "over"
      /\ x # "none" /\ x # "queued" /\ x # "over"
  BY DEF ProcessSound, ProcessType, JobStages
<1>2. HeldBy(t) = HeldBy(th)
  BY <1>1, HeldMoves
<1>. HIDE DEF t
<1>3. Balanced(sv, pm, t, su)
  BY <1>2 DEF ProcessSound, Balanced
<1>4. QueueSound(qu, t)
  BY <1>1 DEF ProcessSound, QueueSound
<1>5. Known(t, su, fo, rq, st) /\ Aged(sv, t, su, rq)
  BY <1>1 DEF ProcessSound, Known, Aged
<1>6. QED
  BY <1>1, <1>3, <1>4, <1>5 DEF ProcessSound, ProcessType, t

(* A thread ends and gives its permit back.                                *)
LEMMA ThreadEnded ==
  ASSUME NEW sv, NEW pm, NEW qu, NEW th, NEW su, NEW fo, NEW rq, NEW st,
         ProcessSound(sv, pm, qu, th, su, fo, rq, st),
         NEW j \in Jobs, th[j] \in JobStages
  PROVE  ProcessSound(sv, pm + 1, qu, [th EXCEPT ![j] = "over"], su, fo, rq, st)
<1> DEFINE t == [th EXCEPT ![j] = "over"]
<1>1. /\ th \in [Jobs -> JobStages \cup {"none", "queued", "over"}]
      /\ t \in [Jobs -> JobStages \cup {"none", "queued", "over"}]
      /\ t[j] = "over" /\ \A k \in Jobs : k # j => t[k] = th[k]
      /\ qu \in Seq(Jobs) /\ th[j] # "none" /\ th[j] # "queued" /\ th[j] # "over"
      /\ pm \in 0 .. Places /\ IsFiniteSet(HeldBy(th))
  BY DEF ProcessSound, ProcessType, JobStages, Balanced
<1>2. IsFiniteSet(HeldBy(t)) /\ Cardinality(HeldBy(t)) = Cardinality(HeldBy(th)) - 1
  BY <1>1, HeldEnds
<1>3. /\ Cardinality(HeldBy(th)) \in Nat /\ Cardinality(HeldBy(t)) \in Nat
      /\ Submitted(su) \in {0, 1}
  BY <1>1, <1>2, FS_CardinalityType DEF Submitted
<1>. HIDE DEF t
<1>4. Balanced(sv, pm + 1, t, su) /\ pm + 1 \in 0 .. Places
  BY <1>1, <1>2, <1>3 DEF ProcessSound, Balanced, Places
<1>5. QueueSound(qu, t)
  BY <1>1 DEF ProcessSound, QueueSound
<1>6. Known(t, su, fo, rq, st) /\ Aged(sv, t, su, rq)
  BY <1>1 DEF ProcessSound, Known, Aged
<1>7. QED
  BY <1>1, <1>4, <1>5, <1>6 DEF ProcessSound, ProcessType, t

(* A job that has no thread yet is put at the end of the queue.            *)
LEMMA QueueExtended ==
  ASSUME NEW qu \in Seq(Jobs), NEW th, NEW j \in Jobs, QueueSound(qu, th),
         th \in [Jobs -> JobStages \cup {"none", "queued", "over"}], th[j] = "none"
  PROVE  Append(qu, j) \in Seq(Jobs) /\ QueueSound(Append(qu, j), [th EXCEPT ![j] = "queued"])
<1> DEFINE q == Append(qu, j)
<1>1. q \in Seq(Jobs)
  OBVIOUS
<1>2. \A i \in DOMAIN q : (i \in DOMAIN qu /\ q[i] = qu[i]) \/ (i = Len(qu) + 1 /\ q[i] = j)
  OBVIOUS
<1>3. \A i \in DOMAIN qu : qu[i] \in Jobs /\ th[qu[i]] = "queued"
  BY DEF QueueSound
<1>. HIDE DEF q
<1>4. QueueSound(q, [th EXCEPT ![j] = "queued"])
  BY <1>2, <1>3 DEF QueueSound
<1>5. QED
  BY <1>1, <1>4 DEF q

(* A job that was created is handed over.                                  *)
LEMMA SubmissionQueued ==
  ASSUME NEW pm, NEW qu, NEW th, NEW fo, NEW rq, NEW st, NEW j \in Jobs,
         ProcessSound("up", pm, qu, th, j, fo, rq, st)
  PROVE  ProcessSound("up", pm, Append(qu, j), [th EXCEPT ![j] = "queued"], NoJob, fo, rq, st)
<1> DEFINE t == [th EXCEPT ![j] = "queued"]
           q == Append(qu, j)
<1>1. /\ th \in [Jobs -> JobStages \cup {"none", "queued", "over"}]
      /\ t \in [Jobs -> JobStages \cup {"none", "queued", "over"}]
      /\ t[j] = "queued" /\ \A k \in Jobs : k # j => t[k] = th[k]
      /\ qu \in Seq(Jobs) /\ th[j] = "none" /\ st[j] # "none" /\ QueueSound(qu, th)
      /\ pm \in 0 .. Places /\ IsFiniteSet(HeldBy(th)) /\ rq = {}
  BY DEF ProcessSound, ProcessType, Balanced, Known, Aged
<1>2. IsFiniteSet(HeldBy(t)) /\ Cardinality(HeldBy(t)) = Cardinality(HeldBy(th)) + 1
  BY <1>1, HeldGrows
<1>3. Cardinality(HeldBy(th)) \in Nat /\ Submitted(j) = 1 /\ Submitted(NoJob) = 0
  BY <1>1, FS_CardinalityType DEF Submitted
<1>4. q \in Seq(Jobs) /\ QueueSound(q, t)
  BY <1>1, QueueExtended
<1>. HIDE DEF t, q
<1>5. Balanced("up", pm, t, NoJob)
  BY <1>1, <1>2, <1>3 DEF ProcessSound, Balanced, Places
<1>6. Known(t, NoJob, fo, rq, st) /\ Aged("up", t, NoJob, rq)
  BY <1>1 DEF ProcessSound, Known, Aged
<1>7. QED
  BY <1>1, <1>4, <1>5, <1>6 DEF ProcessSound, ProcessType, t, q

(* A queued job is handed over again after a restart.                      *)
LEMMA JobRequeued ==
  ASSUME NEW pm, NEW qu, NEW th, NEW fo, NEW rq, NEW st, NEW j \in rq, pm > 0,
         ProcessSound("requeueing", pm, qu, th, NoJob, fo, rq, st)
  PROVE  ProcessSound("requeueing", pm - 1, Append(qu, j), [th EXCEPT ![j] = "queued"],
                      NoJob, fo, rq \ {j}, st)
<1> DEFINE t == [th EXCEPT ![j] = "queued"]
           q == Append(qu, j)
<1>1. /\ th \in [Jobs -> JobStages \cup {"none", "queued", "over"}]
      /\ t \in [Jobs -> JobStages \cup {"none", "queued", "over"}]
      /\ t[j] = "queued" /\ \A k \in Jobs : k # j => t[k] = th[k]
      /\ j \in Jobs /\ qu \in Seq(Jobs) /\ th[j] = "none" /\ st[j] # "none" /\ QueueSound(qu, th)
      /\ pm \in 0 .. Places /\ IsFiniteSet(HeldBy(th)) /\ rq \subseteq Jobs
  BY DEF ProcessSound, ProcessType, Balanced, Known, Aged
<1>2. IsFiniteSet(HeldBy(t)) /\ Cardinality(HeldBy(t)) = Cardinality(HeldBy(th)) + 1
  BY <1>1, HeldGrows
<1>3. Cardinality(HeldBy(th)) \in Nat /\ Submitted(NoJob) = 0
  BY <1>1, FS_CardinalityType DEF Submitted
<1>4. q \in Seq(Jobs) /\ QueueSound(q, t)
  BY <1>1, QueueExtended
<1>. HIDE DEF t, q
<1>5. Balanced("requeueing", pm - 1, t, NoJob) /\ pm - 1 \in 0 .. Places
  BY <1>1, <1>2, <1>3 DEF ProcessSound, Balanced, Places
<1>6. Known(t, NoJob, fo, rq \ {j}, st) /\ Aged("requeueing", t, NoJob, rq \ {j})
  BY <1>1 DEF ProcessSound, Known, Aged
<1>7. QED
  BY <1>1, <1>4, <1>5, <1>6 DEF ProcessSound, ProcessType, t, q

(* A worker takes the first job of the queue.                              *)
LEMMA HeadPicked ==
  ASSUME NEW sv, NEW pm, NEW qu, NEW th, NEW su, NEW fo, NEW rq, NEW st,
         ProcessSound(sv, pm, qu, th, su, fo, rq, st), qu # << >>
  PROVE  /\ Head(qu) \in Jobs /\ th[Head(qu)] = "queued"
         /\ ProcessSound(sv, pm, Tail(qu), [th EXCEPT ![Head(qu)] = "picked"], su, fo, rq, st)
<1>j. PICK j : j = Head(qu)
  OBVIOUS
<1> DEFINE t == [th EXCEPT ![j] = "picked"]
<1>1. /\ qu \in Seq(Jobs) /\ QueueSound(qu, th)
      /\ th \in [Jobs -> JobStages \cup {"none", "queued", "over"}]
  BY DEF ProcessSound, ProcessType
<1>2. /\ j \in Jobs /\ 1 \in DOMAIN qu /\ j = qu[1] /\ Tail(qu) \in Seq(Jobs)
      /\ \A i \in DOMAIN Tail(qu) : i + 1 \in DOMAIN qu /\ i \in Nat \ {0} /\ Tail(qu)[i] = qu[i + 1]
  BY <1>1, <1>j
<1>3. th[j] = "queued"
  BY <1>1, <1>2 DEF QueueSound
<1>4. /\ t \in [Jobs -> JobStages \cup {"none", "queued", "over"}]
      /\ t[j] = "picked" /\ \A k \in Jobs : k # j => t[k] = th[k]
  BY <1>1, <1>2 DEF JobStages
<1>5. HeldBy(t) = HeldBy(th)
  BY <1>1, <1>2, <1>3, HeldMoves DEF JobStages
<1>. HIDE DEF t
<1>6. QueueSound(Tail(qu), t)
  <2>1. \A i \in DOMAIN Tail(qu) : Tail(qu)[i] # j /\ Tail(qu)[i] \in Jobs
    BY <1>1, <1>2 DEF QueueSound
  <2>2. QED
    BY <1>1, <1>2, <1>4, <2>1 DEF QueueSound
<1>7. Balanced(sv, pm, t, su) /\ Known(t, su, fo, rq, st) /\ Aged(sv, t, su, rq)
  BY <1>2, <1>3, <1>4, <1>5 DEF ProcessSound, Balanced, Known, Aged
<1>8. QED
  BY <1>j, <1>2, <1>3, <1>4, <1>6, <1>7 DEF ProcessSound, ProcessType, t

(* The table only gained rows.                                             *)
LEMMA TableGrew ==
  ASSUME NEW sv, NEW pm, NEW qu, NEW th, NEW su, NEW fo, NEW rq, NEW st, NEW tt,
         ProcessSound(sv, pm, qu, th, su, fo, rq, st),
         \A j \in Jobs : st[j] # "none" => tt[j] # "none"
  PROVE  ProcessSound(sv, pm, qu, th, su, fo, rq, tt)
BY DEF ProcessSound, ProcessType, Known
-----------------------------------------------------------------------------
(* A conditional update leaves the table well-formed, changes no row that  *)
(* is not in the statuses it asks for, and no other row.                   *)
LEMMA Updated ==
  ASSUME NEW j \in Jobs, status \in [Jobs -> Statuses], NEW from, NEW to \in Statuses
  PROVE  /\ CAS(j, from, to) \in [Jobs -> Statuses]
         /\ \A k \in Jobs : \/ CAS(j, from, to)[k] = status[k]
                            \/ k = j /\ status[j] \in from /\ CAS(j, from, to)[j] = to
<1>1. CASE status[j] \in from
  <2>1. CAS(j, from, to) = [status EXCEPT ![j] = to]
    BY <1>1 DEF CAS
  <2>2. QED
    BY <1>1, <2>1
<1>2. CASE status[j] \notin from
  <2>1. CAS(j, from, to) = status
    BY <1>2 DEF CAS
  <2>2. QED
    BY <2>1
<1>3. QED
  BY <1>1, <1>2

(* What every step but a submission does to the table: no row appears or   *)
(* is queued again, and no terminal job is taken up.                       *)
TableStep ==
  /\ status' \in [Jobs -> Statuses]
  /\ \A j \in Jobs : \/ status'[j] = status[j]
                     \/ /\ status[j] # "none" /\ status'[j] \notin {"none", "queued"}
                        /\ status'[j] \in ActiveStatuses => status[j] \in ActiveStatuses

LEMMA ActiveKept ==
  ASSUME OneActiveJob, TableStep, UNCHANGED sessionOf
  PROVE  OneActiveJob'
BY DEF OneActiveJob, TableStep

(* The processes after a step of p that leaves the others as they were.    *)
ProcessStep(p) ==
  /\ \A q \in Processes : q # p =>
       /\ server'[q] = server[q] /\ permits'[q] = permits[q] /\ queue'[q] = queue[q]
       /\ thread'[q] = thread[q] /\ submitting'[q] = submitting[q]
       /\ found'[q] = found[q] /\ requeue'[q] = requeue[q]
  /\ server' = [q \in Processes |-> server'[q]]
  /\ permits' = [q \in Processes |-> permits'[q]]
  /\ queue' = [q \in Processes |-> queue'[q]]
  /\ thread' = [q \in Processes |-> thread'[q]]
  /\ submitting' = [q \in Processes |-> submitting'[q]]
  /\ found' = [q \in Processes |-> found'[q]]
  /\ requeue' = [q \in Processes |-> requeue'[q]]

(* Process p is sound after the step, by the table before it.              *)
SoundAfter(p) ==
  ProcessSound(server'[p], permits'[p], queue'[p], thread'[p], submitting'[p], found'[p],
               requeue'[p], status)

LEMMA ProcessesKept ==
  ASSUME ProcessesSound, NEW p \in Processes, ProcessStep(p), SoundAfter(p),
         \A j \in Jobs : status[j] # "none" => status'[j] # "none"
  PROVE  ProcessesSound'
<1>1. ASSUME NEW q \in Processes
      PROVE  ProcessSound(server'[q], permits'[q], queue'[q], thread'[q], submitting'[q],
                          found'[q], requeue'[q], status)
  BY <1>1 DEF ProcessesSound, ProcessStep, SoundAfter
<1>2. QED
  BY <1>1, TableGrew DEF ProcessesSound

(* A step that lets no thread begin to execute a job.                      *)
LEMMA QuietStep ==
  ASSUME JobsInv, NEW p \in Processes, ProcessStep(p), SoundAfter(p),
         TableStep, UNCHANGED sessionOf,
         \A j \in Jobs : thread'[p][j] \in Executing => thread[p][j] \in Executing
  PROVE  JobsInv'
<1>1. ProcessesSound'
  BY ProcessesKept DEF JobsInv, TableStep
<1>2. \A q \in Processes, j \in Jobs : thread'[q][j] \in Executing => thread[q][j] \in Executing
  BY DEF ProcessStep
<1>3. ExecutingClaimed' /\ ExecutedOnce'
  BY <1>2 DEF JobsInv, ExecutingClaimed, ExecutedOnce, TableStep, Statuses
<1>4. Tables'
  BY DEF JobsInv, Tables, ProcessStep, TableStep
<1>5. QED
  BY <1>1, <1>3, <1>4, ActiveKept DEF JobsInv

LEMMA Known1 ==
  ASSUME JobsInv, NEW p \in Processes
  PROVE  /\ ProcessSound(server[p], permits[p], queue[p], thread[p], submitting[p], found[p],
                         requeue[p], status)
         /\ thread[p] \in [Jobs -> JobStages \cup {"none", "queued", "over"}]
         /\ \A j \in Jobs : thread[p][j] # "none" => status[j] # "none"
BY DEF JobsInv, ProcessesSound, ProcessSound, ProcessType, Known

(* The thread of p that runs j goes on, the table may change.              *)
LEMMA ThreadMoves ==
  ASSUME JobsInv, NEW p \in Processes, NEW j \in Jobs, NEW x \in JobStages,
         thread[p][j] \in JobStages, MoveTo(p, j, x),
         x \in Executing => thread[p][j] \in Executing,
         TableStep, UNCHANGED <<sessionOf, server, permits, queue, submitting, found, requeue>>
  PROVE  JobsInv'
<1>1. thread' = [thread EXCEPT ![p] = [thread[p] EXCEPT ![j] = x]]
  BY DEF MoveTo
<1>2. thread'[p] = [thread[p] EXCEPT ![j] = x]
  BY <1>1 DEF JobsInv, Tables
<1>3. SoundAfter(p)
  BY <1>2, Known1, StageMoved DEF SoundAfter
<1>4. ProcessStep(p)
  BY <1>1 DEF JobsInv, Tables, ProcessStep
<1>5. \A k \in Jobs : thread'[p][k] \in Executing => thread[p][k] \in Executing
  BY <1>2, Known1
<1>6. QED
  BY <1>3, <1>4, <1>5, QuietStep

LEMMA ThreadEnds ==
  ASSUME JobsInv, NEW p \in Processes, NEW j \in Jobs, thread[p][j] \in JobStages,
         Finished(p, j), TableStep,
         UNCHANGED <<sessionOf, server, queue, submitting, found, requeue>>
  PROVE  JobsInv'
<1>1. /\ thread' = [thread EXCEPT ![p] = [thread[p] EXCEPT ![j] = "over"]]
      /\ permits' = [permits EXCEPT ![p] = permits[p] + 1]
  BY DEF Finished, MoveTo
<1>2. thread'[p] = [thread[p] EXCEPT ![j] = "over"] /\ permits'[p] = permits[p] + 1
  BY <1>1 DEF JobsInv, Tables
<1>3. SoundAfter(p)
  BY <1>2, Known1, ThreadEnded DEF SoundAfter
<1>4. ProcessStep(p)
  BY <1>1 DEF JobsInv, Tables, ProcessStep
<1>5. \A k \in Jobs : thread'[p][k] \in Executing => thread[p][k] \in Executing
  BY <1>2, Known1 DEF Executing
<1>6. QED
  BY <1>3, <1>4, <1>5, QuietStep

LEMMA TableSame ==
  ASSUME JobsInv, UNCHANGED status
  PROVE  TableStep
BY DEF JobsInv, Tables, TableStep

(* The update of one row from some statuses to another.                    *)
LEMMA RowUpdated ==
  ASSUME JobsInv, NEW j \in Jobs, NEW from \in SUBSET Statuses, NEW to \in Statuses,
         "none" \notin from, to \notin {"none", "queued"},
         to \in ActiveStatuses => from \subseteq ActiveStatuses,
         status' = CAS(j, from, to)
  PROVE  TableStep
<1>1. status \in [Jobs -> Statuses]
  BY DEF JobsInv, Tables
<1>2. QED
  BY <1>1, Updated DEF TableStep
-----------------------------------------------------------------------------
LEMMA InitJobsInv == JobsInit => JobsInv
<1> SUFFICES ASSUME JobsInit PROVE JobsInv
  OBVIOUS
<1>1. Tables
  BY DEF JobsInit, Tables, Statuses
<1>2. ASSUME NEW p \in Processes
      PROVE  ProcessSound(server[p], permits[p], queue[p], thread[p], submitting[p], found[p],
                          requeue[p], status)
  <2>1. server[p] = "off" /\ permits[p] = Places /\ queue[p] = << >> /\ submitting[p] = NoJob
        /\ thread[p] = [j \in Jobs |-> "none"] /\ found[p] = [j \in Jobs |-> "none"]
        /\ requeue[p] = {} /\ Places \in Nat
    BY <1>2 DEF JobsInit, Places
  <2>2. IsFiniteSet(HeldBy(thread[p])) /\ Cardinality(HeldBy(thread[p])) = 0
    BY <2>1, NoneHeld
  <2>3. QED
    BY <2>1, <2>2 DEF ProcessSound, ProcessType, Balanced, QueueSound, Known, Aged, Submitted,
       Statuses
<1>3. ExecutingClaimed /\ OneActiveJob /\ ExecutedOnce
  BY DEF JobsInit, ExecutingClaimed, OneActiveJob, ExecutedOnce, Executing, ActiveStatuses
<1>4. QED
  BY <1>1, <1>2, <1>3 DEF JobsInv, ProcessesSound
-----------------------------------------------------------------------------
LEMMA CreateJobInv ==
  ASSUME JobsInv, NEW p \in Processes, NEW j \in Jobs, NEW s \in Sessions, CreateJob(p, j, s)
  PROVE  JobsInv'
<1>1. /\ server[p] = "up" /\ submitting[p] = NoJob /\ permits[p] > 0
      /\ status[j] = "none" /\ ActiveJobs(s) = {}
      /\ permits' = [permits EXCEPT ![p] = permits[p] - 1]
      /\ status' = [status EXCEPT ![j] = "queued"] /\ sessionOf' = [sessionOf EXCEPT ![j] = s]
      /\ submitting' = [submitting EXCEPT ![p] = j]
      /\ UNCHANGED <<server, queue, thread, found, requeue>>
  BY DEF CreateJob
<1>2. permits'[p] = permits[p] - 1 /\ submitting'[p] = j
  BY <1>1 DEF JobsInv, Tables
<1>3. /\ status'[j] = "queued" /\ sessionOf'[j] = s
      /\ \A k \in Jobs : k # j => status'[k] = status[k] /\ sessionOf'[k] = sessionOf[k]
  BY <1>1 DEF JobsInv, Tables
<1>4. ProcessSound(server[p], permits[p] - 1, queue[p], thread[p], j, found[p], requeue[p], status')
  <2>1. /\ ProcessSound("up", permits[p], queue[p], thread[p], NoJob, found[p], requeue[p], status)
        /\ permits[p] \in 0 .. Places /\ thread[p][j] = "none"
    BY <1>1, Known1 DEF ProcessSound, ProcessType
  <2>2. ProcessSound("up", permits[p], queue[p], thread[p], NoJob, found[p], requeue[p], status')
    BY <1>3, <2>1, TableGrew
  <2>3. Cardinality(HeldBy(thread[p])) \in Nat
    BY <2>1, HeldCounts DEF ProcessSound
  <2>4. Balanced("up", permits[p] - 1, thread[p], j) /\ permits[p] - 1 \in 0 .. Places
    BY <1>1, <2>1, <2>3 DEF ProcessSound, Balanced, Submitted, Places
  <2>5. QED
    BY <1>1, <1>3, <2>1, <2>2, <2>4 DEF ProcessSound, ProcessType, QueueSound, Known, Aged
<1>5. ASSUME NEW q \in Processes
      PROVE  ProcessSound(server'[q], permits'[q], queue'[q], thread'[q], submitting'[q],
                          found'[q], requeue'[q], status')
  <2>1. CASE q = p
    BY <1>1, <1>2, <1>4, <2>1
  <2>2. CASE q # p
    <3>1. permits'[q] = permits[q] /\ submitting'[q] = submitting[q]
      BY <1>1, <2>2 DEF JobsInv, Tables
    <3>2. \A k \in Jobs : status[k] # "none" => status'[k] # "none"
      BY <1>3
    <3>3. ProcessSound(server[q], permits[q], queue[q], thread[q], submitting[q], found[q],
                       requeue[q], status)
      BY Known1
    <3>4. ProcessSound(server[q], permits[q], queue[q], thread[q], submitting[q], found[q],
                       requeue[q], status')
      BY <3>2, <3>3, TableGrew
    <3>5. QED
      BY <1>1, <3>1, <3>4
  <2>3. QED
    BY <2>1, <2>2
<1>6. OneActiveJob'
  <2>1. \A k \in Jobs : k # j /\ status'[k] \in ActiveStatuses => sessionOf'[k] # s
    BY <1>1, <1>3 DEF ActiveJobs
  <2>2. QED
    BY <1>3, <2>1 DEF JobsInv, OneActiveJob
<1>7. ExecutingClaimed' /\ ExecutedOnce'
  BY <1>1, <1>3 DEF JobsInv, ExecutingClaimed, ExecutedOnce
<1>8. Tables'
  BY <1>1 DEF JobsInv, Tables, Statuses, ActiveStatuses
<1>9. QED
  BY <1>5, <1>6, <1>7, <1>8 DEF JobsInv, ProcessesSound

LEMMA EnqueueJobInv ==
  ASSUME JobsInv, NEW p \in Processes, NEW j \in Jobs, EnqueueJob(p, j)
  PROVE  JobsInv'
<1>1. /\ submitting[p] = j /\ server[p] = "up"
      /\ queue' = [queue EXCEPT ![p] = Append(queue[p], j)]
      /\ thread' = [thread EXCEPT ![p] = [thread[p] EXCEPT ![j] = "queued"]]
      /\ submitting' = [submitting EXCEPT ![p] = NoJob]
      /\ UNCHANGED <<status, sessionOf, server, permits, found, requeue>>
  BY DEF EnqueueJob, MoveTo, tableVars
<1>2. /\ queue'[p] = Append(queue[p], j) /\ thread'[p] = [thread[p] EXCEPT ![j] = "queued"]
      /\ submitting'[p] = NoJob
  BY <1>1 DEF JobsInv, Tables
<1>3. SoundAfter(p)
  BY <1>1, <1>2, Known1, SubmissionQueued DEF SoundAfter
<1>4. ProcessStep(p)
  BY <1>1 DEF JobsInv, Tables, ProcessStep
<1>5. \A k \in Jobs : thread'[p][k] \in Executing => thread[p][k] \in Executing
  BY <1>2, Known1 DEF Executing
<1>6. QED
  BY <1>1, <1>3, <1>4, <1>5, QuietStep, TableSame

LEMMA EnqueueRefusedInv ==
  ASSUME JobsInv, NEW p \in Processes, NEW j \in Jobs, EnqueueRefused(p, j)
  PROVE  JobsInv'
<1>1. /\ submitting[p] = j /\ server[p] = "draining"
      /\ status' = [status EXCEPT ![j] = "failed"]
      /\ permits' = [permits EXCEPT ![p] = permits[p] + 1]
      /\ submitting' = [submitting EXCEPT ![p] = NoJob]
      /\ UNCHANGED <<sessionOf, server, queue, thread, found, requeue>>
  BY DEF EnqueueRefused
<1>2. permits'[p] = permits[p] + 1 /\ submitting'[p] = NoJob
  BY <1>1 DEF JobsInv, Tables
<1>3. SoundAfter(p)
  <2>1. /\ ProcessSound("draining", permits[p], queue[p], thread[p], j, found[p], requeue[p], status)
        /\ permits[p] \in 0 .. Places
    BY <1>1, Known1 DEF ProcessSound, ProcessType
  <2>2. Cardinality(HeldBy(thread[p])) \in Nat
    BY <2>1, HeldCounts DEF ProcessSound
  <2>3. Balanced("draining", permits[p] + 1, thread[p], NoJob) /\ permits[p] + 1 \in 0 .. Places
    BY <2>1, <2>2 DEF ProcessSound, Balanced, Submitted, Places
  <2>4. ProcessSound("draining", permits[p] + 1, queue[p], thread[p], NoJob, found[p], requeue[p],
                     status)
    BY <2>1, <2>3 DEF ProcessSound, ProcessType, Known, Aged
  <2>5. QED
    BY <1>1, <1>2, <2>4 DEF SoundAfter
<1>4. ProcessStep(p)
  BY <1>1 DEF JobsInv, Tables, ProcessStep
<1>5. TableStep
  <2>1. status[j] # "none"
    BY <1>1, Known1 DEF ProcessSound, Known
  <2>2. QED
    BY <1>1, <2>1 DEF JobsInv, Tables, TableStep, Statuses, ActiveStatuses, TerminalStatuses
<1>6. QED
  BY <1>1, <1>3, <1>4, <1>5, QuietStep

LEMMA CancelJobInv ==
  ASSUME JobsInv, NEW j \in Jobs, CancelJob(j)
  PROVE  JobsInv'
<1>1. PICK p \in Processes : server[p] = "up"
  BY DEF CancelJob
<1>2. /\ status' = CAS(j, ActiveStatuses, "cancel_requested")
      /\ UNCHANGED <<sessionOf, server, permits, queue, thread, submitting, found, requeue>>
  BY DEF CancelJob
<1>3. TableStep
  BY <1>2, RowUpdated DEF Statuses, ActiveStatuses
<1>4. ProcessStep(p) /\ SoundAfter(p)
  BY <1>2, Known1 DEF ProcessStep, SoundAfter, JobsInv, Tables
<1>5. QED
  BY <1>2, <1>3, <1>4, QuietStep

LEMMA PickJobInv ==
  ASSUME JobsInv, NEW p \in Processes, PickJob(p)
  PROVE  JobsInv'
<1>j. PICK j : j = Head(queue[p])
  OBVIOUS
<1>1. /\ queue[p] # << >>
      /\ thread' = [thread EXCEPT ![p] = [thread[p] EXCEPT ![j] = "picked"]]
      /\ queue' = [queue EXCEPT ![p] = Tail(queue[p])]
      /\ UNCHANGED <<status, sessionOf, server, permits, submitting, found, requeue>>
  BY <1>j DEF PickJob, MoveTo, tableVars
<1>2. /\ queue'[p] = Tail(queue[p]) /\ thread'[p] = [thread[p] EXCEPT ![j] = "picked"]
  BY <1>1 DEF JobsInv, Tables
<1>3. SoundAfter(p) /\ j \in Jobs
  <2>1. /\ j \in Jobs
        /\ ProcessSound(server[p], permits[p], Tail(queue[p]), [thread[p] EXCEPT ![j] = "picked"],
                        submitting[p], found[p], requeue[p], status)
    BY <1>j, <1>1, Known1, HeadPicked
  <2>2. QED
    BY <1>1, <1>2, <2>1 DEF SoundAfter
<1>4. ProcessStep(p)
  BY <1>1 DEF JobsInv, Tables, ProcessStep
<1>5. \A k \in Jobs : thread'[p][k] \in Executing => thread[p][k] \in Executing
  BY <1>2, <1>3, Known1 DEF Executing
<1>6. QED
  BY <1>1, <1>3, <1>4, <1>5, QuietStep, TableSame

LEMMA ClaimJobInv ==
  ASSUME JobsInv, NEW p \in Processes, NEW j \in Jobs, ClaimJob(p, j)
  PROVE  JobsInv'
<1>0. thread[p][j] = "claim" /\ UNCHANGED <<sessionOf, server, queue, submitting, found, requeue>>
  BY DEF ClaimJob
<1>1. CASE status[j] \notin Claimable
  BY <1>0, <1>1, ThreadEnds, TableSame DEF ClaimJob, JobStages
<1>2. CASE status[j] \in Claimable
  <2>1. /\ status[j] = "queued" /\ status' = CAS(j, {"queued"}, "running")
        /\ thread' = [thread EXCEPT ![p] = [thread[p] EXCEPT ![j] = "run"]] /\ UNCHANGED permits
    BY <1>2 DEF ClaimJob, Claimable, MoveTo
  <2>2. thread'[p] = [thread[p] EXCEPT ![j] = "run"]
    BY <2>1 DEF JobsInv, Tables
  <2>3. SoundAfter(p)
    <3>1. "run" \in JobStages /\ thread[p][j] \in JobStages
      BY <1>0 DEF JobStages
    <3>2. ProcessSound(server[p], permits[p], queue[p], [thread[p] EXCEPT ![j] = "run"],
                       submitting[p], found[p], requeue[p], status)
      BY <3>1, Known1, StageMoved
    <3>3. QED
      BY <1>0, <2>1, <2>2, <3>2 DEF SoundAfter
  <2>4. ProcessStep(p)
    BY <1>0, <2>1 DEF JobsInv, Tables, ProcessStep
  <2>5. TableStep /\ status'[j] = "running"
    <3>1. TableStep
      BY <2>1, RowUpdated DEF Statuses, ActiveStatuses
    <3>2. QED
      BY <2>1, <3>1 DEF CAS, JobsInv, Tables
  <2>6. ProcessesSound'
    BY <2>3, <2>4, <2>5, ProcessesKept DEF JobsInv, TableStep
  <2>7. \A q \in Processes, k \in Jobs :
          thread'[q][k] \in Executing => thread[q][k] \in Executing \/ (q = p /\ k = j)
    BY <2>2, <2>4, Known1 DEF ProcessStep
  <2>8. \A q \in Processes : thread[q][j] \notin Executing
    BY <2>1 DEF JobsInv, ExecutingClaimed
  <2>9. ExecutingClaimed'
    BY <2>5, <2>7 DEF JobsInv, ExecutingClaimed, TableStep
  <2>10. ExecutedOnce'
    BY <2>7, <2>8 DEF JobsInv, ExecutedOnce
  <2>11. Tables'
    BY <1>0, <2>4, <2>5 DEF JobsInv, Tables, ProcessStep, TableStep
  <2>12. QED
    BY <1>0, <2>5, <2>6, <2>9, <2>10, <2>11, ActiveKept DEF JobsInv
<1>3. QED
  BY <1>1, <1>2
-----------------------------------------------------------------------------
(* The conclusion of a job: the final status, or the cancellation.         *)
LEMMA JobConcluded ==
  ASSUME JobsInv, NEW j \in Jobs, NEW final \in TerminalStatuses, status' = Concluded(j, final)
  PROVE  TableStep
<1>1. CASE status[j] = "running"
  BY <1>1, RowUpdated DEF Concluded, Statuses, ActiveStatuses, TerminalStatuses
<1>2. CASE status[j] # "running"
  BY <1>2, RowUpdated DEF Concluded, Statuses, ActiveStatuses, TerminalStatuses
<1>3. QED
  BY <1>1, <1>2

LEMMA StartServerInv ==
  ASSUME JobsInv, NEW p \in Processes, StartServer(p)
  PROVE  JobsInv'
<1>1. /\ server[p] = "off" /\ server' = [server EXCEPT ![p] = "recovering"]
      /\ found' = [found EXCEPT ![p] = status]
      /\ UNCHANGED <<status, sessionOf, permits, queue, thread, submitting, requeue>>
  BY DEF StartServer, tableVars
<1>2. server'[p] = "recovering" /\ found'[p] = status
  BY <1>1 DEF JobsInv, Tables
<1>3. SoundAfter(p)
  <2>1. /\ ProcessSound("off", permits[p], queue[p], thread[p], submitting[p], found[p],
                        requeue[p], status)
        /\ status \in [Jobs -> Statuses]
    BY <1>1, Known1 DEF JobsInv, Tables
  <2>2. ProcessSound("recovering", permits[p], queue[p], thread[p], submitting[p], status,
                     requeue[p], status)
    BY <2>1 DEF ProcessSound, ProcessType, Balanced, Known, Aged
  <2>3. QED
    BY <1>1, <1>2, <2>2 DEF SoundAfter
<1>4. ProcessStep(p)
  BY <1>1 DEF JobsInv, Tables, ProcessStep
<1>5. QED
  BY <1>1, <1>3, <1>4, QuietStep, TableSame

LEMMA RecoverJobsInv ==
  ASSUME JobsInv, NEW p \in Processes, RecoverJobs(p)
  PROVE  JobsInv'
<1>1. /\ server[p] = "recovering" /\ server' = [server EXCEPT ![p] = "requeueing"]
      /\ status' = [j \in Jobs |-> Repaired(found[p][j], status[j])]
      /\ requeue' = [requeue EXCEPT ![p] = {j \in Jobs : found[p][j] = "queued"}]
      /\ found' = [found EXCEPT ![p] = [j \in Jobs |-> "none"]]
      /\ UNCHANGED <<sessionOf, permits, queue, thread, submitting>>
  BY DEF RecoverJobs
<1>2. /\ server'[p] = "requeueing" /\ found'[p] = [j \in Jobs |-> "none"]
      /\ requeue'[p] = {j \in Jobs : found[p][j] = "queued"}
  BY <1>1 DEF JobsInv, Tables
<1>3. /\ ProcessSound("recovering", permits[p], queue[p], thread[p], submitting[p], found[p],
                      requeue[p], status)
      /\ submitting[p] = NoJob
      /\ \A j \in Jobs : thread[p][j] = "none" /\ (found[p][j] # "none" => status[j] # "none")
  BY <1>1, Known1 DEF ProcessSound, Aged, Known
<1>4. SoundAfter(p)
  <2>1. ProcessSound("requeueing", permits[p], queue[p], thread[p], submitting[p],
                     [j \in Jobs |-> "none"], {j \in Jobs : found[p][j] = "queued"}, status)
    BY <1>3 DEF ProcessSound, ProcessType, Balanced, Known, Aged, Statuses
  <2>2. QED
    BY <1>1, <1>2, <2>1 DEF SoundAfter
<1>5. ProcessStep(p)
  BY <1>1 DEF JobsInv, Tables, ProcessStep
<1>6. TableStep
  <2>1. status \in [Jobs -> Statuses]
    BY DEF JobsInv, Tables
  <2>2. \A j \in Jobs : \/ status'[j] = status[j]
                        \/ status[j] # "none" /\ status'[j] \in {"cancelled", "failed"}
    <3>1. ASSUME NEW j \in Jobs
          PROVE  status'[j] = status[j] \/ (status[j] # "none" /\ status'[j] \in {"cancelled", "failed"})
      <4>1. status'[j] = Repaired(found[p][j], status[j])
        BY <1>1
      <4>2. CASE found[p][j] \in {"cancel_requested", "running"}
        BY <1>3, <4>1, <4>2 DEF Repaired
      <4>3. CASE found[p][j] \notin {"cancel_requested", "running"}
        BY <4>1, <4>3 DEF Repaired
      <4>4. QED
        BY <4>2, <4>3
    <3>2. QED
      BY <3>1
  <2>3. status' \in [Jobs -> Statuses]
    BY <1>1, <2>1, <2>2 DEF Statuses, TerminalStatuses
  <2>4. QED
    BY <2>2, <2>3 DEF TableStep, ActiveStatuses
<1>7. QED
  BY <1>1, <1>4, <1>5, <1>6, QuietStep

LEMMA RequeueJobInv ==
  ASSUME JobsInv, NEW p \in Processes, NEW j \in Jobs, RequeueJob(p, j)
  PROVE  JobsInv'
<1>1. /\ server[p] = "requeueing" /\ j \in requeue[p]
      /\ requeue' = [requeue EXCEPT ![p] = requeue[p] \ {j}]
      /\ UNCHANGED <<status, sessionOf, server, submitting, found>>
  BY DEF RequeueJob, tableVars
<1>2. /\ requeue'[p] = requeue[p] \ {j}
      /\ ProcessSound("requeueing", permits[p], queue[p], thread[p], NoJob, found[p], requeue[p],
                      status)
      /\ submitting[p] = NoJob
  <2>1. submitting[p] = NoJob
    BY <1>1, Known1 DEF ProcessSound, Aged
  <2>2. QED
    BY <1>1, <2>1, Known1 DEF JobsInv, Tables
<1>3. CASE /\ permits[p] > 0
           /\ permits' = [permits EXCEPT ![p] = permits[p] - 1]
           /\ queue' = [queue EXCEPT ![p] = Append(queue[p], j)]
           /\ thread' = [thread EXCEPT ![p] = [thread[p] EXCEPT ![j] = "queued"]]
  <2>1. /\ permits'[p] = permits[p] - 1 /\ queue'[p] = Append(queue[p], j)
        /\ thread'[p] = [thread[p] EXCEPT ![j] = "queued"]
    BY <1>3 DEF JobsInv, Tables
  <2>2. ProcessSound("requeueing", permits[p] - 1, Append(queue[p], j),
                     [thread[p] EXCEPT ![j] = "queued"], NoJob, found[p], requeue[p] \ {j}, status)
    BY <1>1, <1>2, <1>3, JobRequeued
  <2>3. SoundAfter(p)
    BY <1>1, <1>2, <2>1, <2>2 DEF SoundAfter
  <2>4. ProcessStep(p)
    BY <1>1, <1>3 DEF JobsInv, Tables, ProcessStep
  <2>5. \A k \in Jobs : thread'[p][k] \in Executing => thread[p][k] \in Executing
    BY <2>1, Known1 DEF Executing
  <2>6. QED
    BY <1>1, <2>3, <2>4, <2>5, QuietStep, TableSame
<1>4. CASE UNCHANGED <<permits, queue, thread>>
  <2>1. ProcessSound("requeueing", permits[p], queue[p], thread[p], NoJob, found[p],
                     requeue[p] \ {j}, status)
    BY <1>2 DEF ProcessSound, ProcessType, Known, Aged
  <2>2. SoundAfter(p)
    BY <1>1, <1>2, <1>4, <2>1 DEF SoundAfter
  <2>3. ProcessStep(p)
    BY <1>1, <1>4 DEF JobsInv, Tables, ProcessStep
  <2>4. QED
    BY <1>1, <1>4, <2>2, <2>3, QuietStep, TableSame
<1>5. QED
  BY <1>3, <1>4 DEF RequeueJob, MoveTo

LEMMA ServeInv ==
  ASSUME JobsInv, NEW p \in Processes, Serve(p)
  PROVE  JobsInv'
<1>1. /\ server[p] = "requeueing" /\ requeue[p] = {} /\ server' = [server EXCEPT ![p] = "up"]
      /\ UNCHANGED <<status, sessionOf, permits, queue, thread, submitting, found, requeue>>
  BY DEF Serve, tableVars
<1>2. server'[p] = "up"
  BY <1>1 DEF JobsInv, Tables
<1>3. SoundAfter(p)
  <2>1. ProcessSound("requeueing", permits[p], queue[p], thread[p], submitting[p], found[p], {},
                     status)
    BY <1>1, Known1
  <2>2. ProcessSound("up", permits[p], queue[p], thread[p], submitting[p], found[p], {}, status)
    BY <2>1 DEF ProcessSound, ProcessType, Balanced, Aged
  <2>3. QED
    BY <1>1, <1>2, <2>2 DEF SoundAfter
<1>4. ProcessStep(p)
  BY <1>1 DEF JobsInv, Tables, ProcessStep
<1>5. QED
  BY <1>1, <1>3, <1>4, QuietStep, TableSame

LEMMA ShutdownInv ==
  ASSUME JobsInv, NEW p \in Processes, Shutdown(p)
  PROVE  JobsInv'
<1> DEFINE t == [j \in Jobs |-> IF thread[p][j] = "queued" THEN "over" ELSE thread[p][j]]
<1>1. /\ server[p] = "up" /\ server' = [server EXCEPT ![p] = "draining"]
      /\ queue' = [queue EXCEPT ![p] = << >>] /\ thread' = [thread EXCEPT ![p] = t]
      /\ UNCHANGED <<status, sessionOf, permits, submitting, found, requeue>>
  BY DEF Shutdown, tableVars
<1>2. server'[p] = "draining" /\ queue'[p] = << >> /\ thread'[p] = t
  BY <1>1 DEF JobsInv, Tables
<1>3. SoundAfter(p)
  <2>1. ProcessSound("up", permits[p], queue[p], thread[p], submitting[p], found[p], requeue[p],
                     status)
    BY <1>1, Known1
  <2>2. HeldBy(t) \in SUBSET HeldBy(thread[p])
    BY DEF HeldBy, JobStages
  <2>3. /\ IsFiniteSet(HeldBy(t)) /\ Cardinality(HeldBy(t)) <= Cardinality(HeldBy(thread[p]))
        /\ Cardinality(HeldBy(thread[p])) \in Nat /\ Cardinality(HeldBy(t)) \in Nat
        /\ Submitted(submitting[p]) \in {0, 1}
    BY <2>1, <2>2, FS_Subset, FS_CardinalityType DEF ProcessSound, Balanced, Submitted
  <2>4. Balanced("draining", permits[p], t, submitting[p])
    BY <2>1, <2>3 DEF ProcessSound, ProcessType, Balanced, Places
  <2>5. ProcessSound("draining", permits[p], << >>, t, submitting[p], found[p], requeue[p], status)
    BY <2>1, <2>4 DEF ProcessSound, ProcessType, QueueSound, Known, Aged
  <2>6. QED
    BY <1>1, <1>2, <2>5 DEF SoundAfter
<1>4. ProcessStep(p)
  BY <1>1 DEF JobsInv, Tables, ProcessStep
<1>5. \A k \in Jobs : thread'[p][k] \in Executing => thread[p][k] \in Executing
  BY <1>2 DEF Executing
<1>6. QED
  BY <1>1, <1>3, <1>4, <1>5, QuietStep, TableSame

LEMMA DieInv ==
  ASSUME JobsInv, NEW p \in Processes, Die(p)
  PROVE  JobsInv'
<1> DEFINE t == [j \in Jobs |-> IF thread[p][j] = "none" THEN "none" ELSE "over"]
           none == [j \in Jobs |-> "none"]
<1>1. /\ server' = [server EXCEPT ![p] = "dead"] /\ queue' = [queue EXCEPT ![p] = << >>]
      /\ thread' = [thread EXCEPT ![p] = t] /\ submitting' = [submitting EXCEPT ![p] = NoJob]
      /\ requeue' = [requeue EXCEPT ![p] = {}] /\ found' = [found EXCEPT ![p] = none]
      /\ UNCHANGED <<status, sessionOf, permits>>
  BY DEF Die, tableVars
<1>2. /\ server'[p] = "dead" /\ queue'[p] = << >> /\ thread'[p] = t /\ submitting'[p] = NoJob
      /\ requeue'[p] = {} /\ found'[p] = none
  BY <1>1 DEF JobsInv, Tables
<1>3. SoundAfter(p)
  <2>1. /\ permits[p] \in 0 .. Places
        /\ \A j \in Jobs : thread[p][j] # "none" => status[j] # "none"
    BY Known1 DEF ProcessSound, ProcessType
  <2>2. IsFiniteSet(HeldBy(t)) /\ Cardinality(HeldBy(t)) = 0
    BY NoneHeld
  <2>3. Balanced("dead", permits[p], t, NoJob)
    BY <2>1, <2>2 DEF Balanced, Submitted, Places
  <2>4. ProcessSound("dead", permits[p], << >>, t, NoJob, none, {}, status)
    BY <2>1, <2>3 DEF ProcessSound, ProcessType, QueueSound, Known, Aged, Statuses
  <2>5. QED
    BY <1>1, <1>2, <2>4 DEF SoundAfter
<1>4. ProcessStep(p)
  BY <1>1 DEF JobsInv, Tables, ProcessStep
<1>5. \A k \in Jobs : thread'[p][k] \in Executing => thread[p][k] \in Executing
  BY <1>2 DEF Executing
<1>6. QED
  BY <1>1, <1>3, <1>4, <1>5, QuietStep, TableSame
-----------------------------------------------------------------------------
(* The steps of a worker thread.                                           *)
LEMMA WorkerInv ==
  ASSUME JobsInv, NEW p \in Processes, NEW j \in Jobs
  PROVE  /\ ReadJob(p, j) => JobsInv'
         /\ WithdrawJob(p, j) => JobsInv'
         /\ RunJob(p, j) => JobsInv'
         /\ CheckCancelled(p, j) => JobsInv'
         /\ \A final \in TerminalStatuses : FinishJob(p, j, final) => JobsInv'
         /\ CloseCancelled(p, j) => JobsInv'
         /\ CloseFailed(p, j) => JobsInv'
         /\ StoreError(p, j) => JobsInv'
<1>1. ASSUME ReadJob(p, j) PROVE JobsInv'
  BY <1>1, ThreadMoves, TableSame DEF ReadJob, tableVars, JobStages, Executing
<1>2. ASSUME WithdrawJob(p, j) PROVE JobsInv'
  <2>1. TableStep
    BY <1>2, RowUpdated DEF WithdrawJob, Statuses, ActiveStatuses, TerminalStatuses
  <2>2. QED
    BY <1>2, <2>1, ThreadEnds DEF WithdrawJob, JobStages
<1>3. ASSUME RunJob(p, j) PROVE JobsInv'
  BY <1>3, ThreadMoves, TableSame DEF RunJob, tableVars, JobStages, Executing
<1>4. ASSUME CheckCancelled(p, j) PROVE JobsInv'
  BY <1>4, ThreadMoves, TableSame DEF CheckCancelled, tableVars, JobStages, Executing
<1>5. ASSUME NEW final \in TerminalStatuses, FinishJob(p, j, final) PROVE JobsInv'
  <2>1. TableStep
    BY <1>5, JobConcluded DEF FinishJob
  <2>2. QED
    BY <1>5, <2>1, ThreadEnds DEF FinishJob, JobStages
<1>6. ASSUME CloseCancelled(p, j) PROVE JobsInv'
  <2>1. TableStep
    BY <1>6, RowUpdated DEF CloseCancelled, Statuses, ActiveStatuses, TerminalStatuses
  <2>2. QED
    BY <1>6, <2>1, ThreadEnds DEF CloseCancelled, JobStages
<1>7. ASSUME CloseFailed(p, j) PROVE JobsInv'
  <2>1. TableStep
    BY <1>7, RowUpdated DEF CloseFailed, Statuses, ActiveStatuses, TerminalStatuses
  <2>2. QED
    BY <1>7, <2>1, ThreadEnds DEF CloseFailed, JobStages
<1>8. ASSUME StoreError(p, j) PROVE JobsInv'
  BY <1>8, ThreadMoves, ThreadEnds, TableSame DEF StoreError, tableVars, JobStages, Executing
<1>9. QED
  BY <1>1, <1>2, <1>3, <1>4, <1>5, <1>6, <1>7, <1>8
-----------------------------------------------------------------------------
LEMMA NextJobsInv == JobsInv /\ [JobsNext]_jobVars => JobsInv'
<1> SUFFICES ASSUME JobsInv, [JobsNext]_jobVars PROVE JobsInv'
  OBVIOUS
<1>1. ASSUME NEW p \in Processes, NEW j \in Jobs, JobStep(p, j) PROVE JobsInv'
  BY <1>1, EnqueueJobInv, EnqueueRefusedInv, ClaimJobInv, RequeueJobInv, WorkerInv DEF JobStep
<1>2. ASSUME NEW p \in Processes, NEW j \in Jobs, StoreError(p, j) PROVE JobsInv'
  BY <1>2, WorkerInv
<1>3. ASSUME NEW p \in Processes, NEW j \in Jobs, NEW s \in Sessions, CreateJob(p, j, s)
      PROVE  JobsInv'
  BY <1>3, CreateJobInv
<1>4. ASSUME NEW p \in Processes, ServerStep(p) PROVE JobsInv'
  BY <1>4, PickJobInv, StartServerInv, RecoverJobsInv, ServeInv, DieInv DEF ServerStep, Exit
<1>5. ASSUME NEW p \in Processes, Restart(p) PROVE JobsInv'
  BY <1>5, ShutdownInv, DieInv DEF Restart, ServerCrash
<1>6. ASSUME NEW j \in Jobs, CancelJob(j) PROVE JobsInv'
  BY <1>6, CancelJobInv
<1>7. CASE UNCHANGED jobVars
  BY <1>7 DEF jobVars, tableVars, JobsInv, Tables, ProcessesSound, ExecutingClaimed,
     OneActiveJob, ExecutedOnce
<1>8. QED
  BY <1>1, <1>2, <1>3, <1>4, <1>5, <1>6, <1>7 DEF JobsNext

THEOREM JobsInvariant == JobsSpec => []JobsInv
<1>1. JobsInit => JobsInv
  BY InitJobsInv
<1>2. JobsInv /\ [JobsNext]_jobVars => JobsInv'
  BY NextJobsInv
<1>3. QED
  BY <1>1, <1>2, PTL DEF JobsSpec

(* Permits are conserved, a session has one unfinished job and a job is    *)
(* executed by one process, whatever was submitted, cancelled, restarted   *)
(* or handed over when.                                                    *)
THEOREM JobsAreSound == JobsSpec => []JobsSound
<1>1. JobsInv => JobsSound
  <2> SUFFICES ASSUME JobsInv PROVE JobsSound
    OBVIOUS
  <2>1. PermitsConserved
    <3>1. ASSUME NEW p \in Processes
          PROVE  Held(p) = HeldBy(thread[p])
      BY DEF Held, HeldBy
    <3>2. QED
      BY <3>1 DEF JobsInv, ProcessesSound, ProcessSound, Balanced, PermitsConserved, Submitted
  <2>2. JobsTypeOK
    BY DEF JobsInv, Tables, ProcessesSound, ProcessSound, ProcessType, JobsTypeOK
  <2>3. QED
    BY <2>1, <2>2 DEF JobsInv, JobsSound
<1>2. QED
  BY <1>1, JobsInvariant, PTL

LEMMA TerminalStays == JobsInv /\ [JobsNext]_jobVars => TerminalStep
<1> SUFFICES ASSUME JobsInv, [JobsNext]_jobVars,
                    NEW j \in Jobs, status[j] \in TerminalStatuses, status'[j] # status[j]
             PROVE  \E p \in Processes : RecoverJobs(p) \/ EnqueueRefused(p, j)
  BY DEF TerminalStep
<1>0. status \in [Jobs -> Statuses]
  BY DEF JobsInv, Tables
<1>1. ASSUME NEW k \in Jobs, NEW from \in SUBSET ActiveStatuses, NEW to \in Statuses,
             status' = CAS(k, from, to)
      PROVE  FALSE
  BY <1>0, <1>1, Updated DEF ActiveStatuses, TerminalStatuses
<1>2. ASSUME NEW p \in Processes, NEW k \in Jobs, JobStep(p, k)
      PROVE  EnqueueRefused(p, k)
  <2>1. EnqueueRefused(p, k) \/ WithdrawJob(p, k) \/ ClaimJob(p, k) \/ CloseCancelled(p, k)
        \/ CloseFailed(p, k) \/ \E final \in TerminalStatuses : FinishJob(p, k, final)
    BY <1>2 DEF JobStep, EnqueueJob, ReadJob, RunJob, CheckCancelled, RequeueJob, tableVars
  <2>2. ~WithdrawJob(p, k) /\ ~ClaimJob(p, k) /\ ~CloseCancelled(p, k) /\ ~CloseFailed(p, k)
    BY <1>1 DEF WithdrawJob, ClaimJob, CloseCancelled, CloseFailed, Claimable, ActiveStatuses,
       TerminalStatuses, Statuses
  <2>3. ASSUME NEW final \in TerminalStatuses, FinishJob(p, k, final) PROVE FALSE
    BY <1>1, <2>3 DEF FinishJob, Concluded, ActiveStatuses, TerminalStatuses, Statuses
  <2>4. QED
    BY <2>1, <2>2, <2>3
<1>3. ASSUME NEW p \in Processes, NEW k \in Jobs, EnqueueRefused(p, k)
      PROVE  EnqueueRefused(p, j)
  <2>1. k = j
    BY <1>0, <1>3 DEF EnqueueRefused
  <2>2. QED
    BY <1>3, <2>1
<1>4. ASSUME NEW p \in Processes, NEW k \in Jobs, StoreError(p, k) PROVE FALSE
  BY <1>4 DEF StoreError, tableVars
<1>5. ASSUME NEW p \in Processes, NEW k \in Jobs, NEW s \in Sessions, CreateJob(p, k, s)
      PROVE  FALSE
  BY <1>0, <1>5 DEF CreateJob, TerminalStatuses
<1>6. ASSUME NEW p \in Processes, ServerStep(p) PROVE RecoverJobs(p)
  BY <1>6 DEF ServerStep, PickJob, StartServer, Serve, Exit, Die, tableVars
<1>7. ASSUME NEW p \in Processes, Restart(p) PROVE FALSE
  BY <1>7 DEF Restart, Shutdown, ServerCrash, Die, tableVars
<1>8. ASSUME NEW k \in Jobs, CancelJob(k) PROVE FALSE
  BY <1>1, <1>8 DEF CancelJob, ActiveStatuses, Statuses
<1>9. QED
  BY <1>2, <1>3, <1>4, <1>5, <1>6, <1>7, <1>8 DEF JobsNext, jobVars, tableVars

(* An outcome once recorded is overwritten by the two unconditional        *)
(* updates only, the repair at start-up and the refused hand-over.         *)
THEOREM OutcomesAreKept == JobsSpec => TerminalKept
<1>1. JobsInv /\ [JobsNext]_jobVars => [TerminalStep]_jobVars
  BY TerminalStays
<1>2. QED
  BY <1>1, JobsInvariant, PTL DEF JobsSpec, TerminalKept
=============================================================================
