-------------------------- MODULE ExtractionProofs --------------------------
(***************************************************************************)
(* Proofs about what is made of papers, in three parts that share no       *)
(* state.                                                                  *)
(*                                                                         *)
(* VectorStore: its builds are fenced, what is read is current, and it     *)
(* implements PublishedIndex, for every number of builders, texts,         *)
(* profiles and batches (app/storage/pgvector_store.py).                   *)
(*                                                                         *)
(* PaperCards: whatever the model answers on any chunks, what a card       *)
(* states stands in its paper (app/tools/extract_paper_card.py).           *)
(*                                                                         *)
(* WritingPlan: whatever cards, routes and texts there are, the outline    *)
(* of every text keeps its routes and its papers, and a text is short of   *)
(* references only where that is reported (app/agent/writing_plan.py,      *)
(* app/agent/nodes/synthesis.py). The definitions are walked through in    *)
(* the order in which they are computed: a fold by its values, one after   *)
(* the other, and each of them keeps what the next one needs.              *)
(***************************************************************************)
EXTENDS VectorStore, PaperCards, WritingPlan, ListProofs, TLAPS

-----------------------------------------------------------------------------
(* The index of the chunks.                                                *)

(* The rows of a snapshot come from the text of its revision; a published  *)
(* snapshot holds all of them; nothing exists for a revision to come.      *)
RowsOf(k) == {r \in Row : r.hash = source.hash /\ r.profile = k[2]}
SnapshotsSound ==
  \A k \in Keys : snaps[k] # NoSnapshot =>
    /\ source # NoSource
    /\ k[1] <= source.rev
    /\ k[1] = source.rev =>
         /\ snaps[k].rows \subseteq RowsOf(k)
         /\ Active(k) => snaps[k].rows = PlanRows(source.hash, k[2])
SeenSound ==
  \A b \in Builders : job[b] # NoJob /\ job[b].seen # {} =>
    job[b].pc \in {"search", "done"}

IInv == TypeOK /\ SnapshotsSound /\ SeenSound

USE CountAssumption, BatchAssumption, RevisionAssumption, ClaimAssumption,
    NoSourceAssumption, NoSnapshotAssumption DEF Row, PlanRows, Index!Row, Index!PlanRows

LEMMA InitIInv == Init => IInv
  BY DEF Init, IInv, TypeOK, SnapshotsSound, SeenSound

(* What a builder at work has in memory. *)
LEMMA AtWork ==
  ASSUME TypeOK, NEW b \in Builders, job[b] # NoJob
  PROVE  job[b] \in Job /\ KeyOf(b) \in Keys
  BY DEF TypeOK, Job, KeyOf, Keys

(* A batch is a part of the plan of the builder's own text. *)
LEMMA BatchRows ==
  ASSUME TypeOK, NEW b \in Builders, job[b] # NoJob, SourceHeld(b)
  PROVE  Batch(b) \subseteq RowsOf(KeyOf(b)) /\ Batch(b) \subseteq Row
<1>1. job[b] \in Job
  BY AtWork
<1>2. Batch(b) \subseteq PlanRows(job[b].hash, job[b].profile)
  BY DEF Batch
<1>3. ASSUME NEW r \in PlanRows(job[b].hash, job[b].profile)
      PROVE  r \in Row /\ r.hash = job[b].hash /\ r.profile = job[b].profile
  <2>1. job[b].hash \in Hashes /\ job[b].profile \in Profiles
    BY <1>1 DEF Job
  <2>2. PICK i \in 0 .. (Count[job[b].profile] - 1) :
          r = [hash |-> job[b].hash, profile |-> job[b].profile, order |-> i]
    BY <1>3
  <2>3. i \in Nat
    BY <2>1, <2>2
  <2>4. QED
    BY <2>1, <2>2, <2>3
<1>4. QED
  BY <1>1, <1>2, <1>3 DEF SourceHeld, RowsOf, KeyOf

(* What is complete is the plan. *)
LEMMA CompleteIsPlan ==
  ASSUME TypeOK, SnapshotsSound, NEW b \in Builders, job[b] # NoJob,
         TicketHeld(b), Complete(b)
  PROVE  Mine(b).rows = PlanRows(source.hash, job[b].profile)
<1>1. job[b] \in Job /\ KeyOf(b) \in Keys
  BY AtWork
<1>2. Mine(b) # NoSnapshot /\ source.rev = job[b].rev /\ KeyOf(b)[1] = source.rev
      /\ KeyOf(b)[2] = job[b].profile
  BY DEF TicketHeld, SourceHeld, KeyOf
<1>3. Mine(b).rows \subseteq RowsOf(KeyOf(b))
  BY <1>1, <1>2 DEF SnapshotsSound, Mine
<1>4. {r.order : r \in Mine(b).rows} = 0 .. (Count[job[b].profile] - 1)
  BY DEF Complete
<1>5. ASSUME NEW r \in Mine(b).rows
      PROVE  r \in PlanRows(source.hash, job[b].profile)
  <2>1. r \in Row /\ r.hash = source.hash /\ r.profile = job[b].profile
    BY <1>2, <1>3, <1>5 DEF RowsOf
  <2>2. r = [hash |-> source.hash, profile |-> job[b].profile, order |-> r.order]
    BY <2>1
  <2>3. r.order \in 0 .. (Count[job[b].profile] - 1)
    BY <1>4, <1>5
  <2>4. QED
    BY <2>2, <2>3
<1>6. ASSUME NEW r \in PlanRows(source.hash, job[b].profile)
      PROVE  r \in Mine(b).rows
  <2>1. PICK i \in 0 .. (Count[job[b].profile] - 1) :
          r = [hash |-> source.hash, profile |-> job[b].profile, order |-> i]
    BY <1>6
  <2>2. PICK q \in Mine(b).rows : q.order = i
    BY <1>4, <2>1
  <2>3. q = [hash |-> source.hash, profile |-> job[b].profile, order |-> i]
    BY <1>2, <1>3, <2>2 DEF RowsOf
  <2>4. QED
    BY <2>1, <2>2, <2>3
<1>7. QED
  BY <1>5, <1>6

-----------------------------------------------------------------------------
(* Steps that write no table. *)
LEMMA QuietStep ==
  ASSUME IInv, UNCHANGED <<source, snaps, claims>>,
         job' \in [Builders -> Job \cup {NoJob}],
         \A b \in Builders : job'[b] # NoJob /\ job'[b].seen # {} =>
           job'[b].pc \in {"search", "done"}
  PROVE  IInv'
  BY DEF IInv, TypeOK, SnapshotsSound, SeenSound, Active, RowsOf

(* A builder moves on, or gives up, with what it has in memory. *)
LEMMA Moves ==
  ASSUME IInv, NEW b \in Builders, job[b] # NoJob,
         \/ GiveUp(b)
         \/ \E p \in Places : GoTo(b, p) /\ (p \in {"search", "done"} \/ job[b].pc \notin {"search", "done"})
  PROVE  /\ job' \in [Builders -> Job \cup {NoJob}]
         /\ \A c \in Builders : job'[c] # NoJob /\ job'[c].seen # {} =>
              job'[c].pc \in {"search", "done"}
<1>1. job[b] \in Job /\ job \in [Builders -> Job \cup {NoJob}]
  BY AtWork DEF IInv, TypeOK
<1>2. CASE GiveUp(b)
  BY <1>1, <1>2 DEF GiveUp, IInv, SeenSound
<1>3. ASSUME NEW p \in Places, GoTo(b, p),
             p \in {"search", "done"} \/ job[b].pc \notin {"search", "done"}
      PROVE  /\ job' \in [Builders -> Job \cup {NoJob}]
             /\ \A c \in Builders : job'[c] # NoJob /\ job'[c].seen # {} =>
                  job'[c].pc \in {"search", "done"}
  <2>1. [job[b] EXCEPT !.pc = p] \in Job
    BY <1>1 DEF Job
  <2>2. QED
    BY <1>1, <1>3, <2>1 DEF GoTo, IInv, SeenSound, Job
<1>4. QED
  BY <1>2, <1>3

(* A step on one snapshot of the builder's revision keeps the rows sound.  *)
LEMMA OneSnapshot ==
  ASSUME IInv, NEW k \in Keys, NEW s \in Snapshot,
         source # NoSource, k[1] <= source.rev,
         k[1] = source.rev =>
           /\ s.rows \subseteq RowsOf(k)
           /\ s.status = "active" => s.rows = PlanRows(source.hash, k[2]),
         snaps' = [snaps EXCEPT ![k] = s], UNCHANGED source
  PROVE  snaps' \in [Keys -> Snapshot \cup {NoSnapshot}] /\ SnapshotsSound'
  BY DEF IInv, TypeOK, SnapshotsSound, Active, RowsOf

-----------------------------------------------------------------------------
(* Each action of a builder preserves the invariant. *)
LEMMA RegisterIInv ==
  ASSUME IInv, NEW b \in Builders, NEW h \in Hashes, NEW p \in Profiles,
         Register(b, h, p)
  PROVE  IInv'
<1>1. source' \in [rev : 1 .. MaxRevision, hash : Hashes] /\ source' # NoSource
  BY DEF Register, IInv, TypeOK
<1>2. job' \in [Builders -> Job \cup {NoJob}] /\ SeenSound'
  <2>1. source'.rev \in 1 .. MaxRevision
    BY <1>1
  <2>2. [pc |-> "claim", hash |-> h, profile |-> p, rev |-> source'.rev,
         id |-> 0, builder |-> 0, token |-> 0, next |-> 0, seen |-> {}] \in Job
    BY <2>1 DEF Job, Places
  <2>3. QED
    BY <2>2 DEF Register, IInv, TypeOK, SeenSound
<1>3. SnapshotsSound'
  <2>1. CASE source = NoSource
    BY <2>1 DEF Register, IInv, SnapshotsSound
  <2>2. CASE source # NoSource
    BY <2>2 DEF Register, IInv, SnapshotsSound, Active, RowsOf
  <2>3. QED
    BY <2>1, <2>2
<1>4. QED
  BY <1>1, <1>2, <1>3 DEF Register, IInv, TypeOK

LEMMA ClaimIInv ==
  ASSUME IInv, NEW b \in Builders, ClaimBuild(b)
  PROVE  IInv'
<1> DEFINE k == KeyOf(b)
           new == claims + 1
           id == IF Mine(b) = NoSnapshot THEN new ELSE Mine(b).id
           token == IF Mine(b) = NoSnapshot THEN 1 ELSE Mine(b).token + 1
           s == [id |-> id, status |-> "building", builder |-> new,
                 token |-> token, live |-> TRUE, rows |-> {}]
<1>1. job[b] \in Job /\ k \in Keys /\ job[b] # NoJob
  BY AtWork DEF ClaimBuild, At, IInv
<1>2. new \in 1 .. MaxClaims /\ claims' = new
  BY DEF ClaimBuild, IInv, TypeOK
<1>3. Mine(b) \in Snapshot \cup {NoSnapshot}
  BY <1>1 DEF Mine, IInv, TypeOK
<1>4. id \in 1 .. MaxClaims /\ token \in Nat
  BY <1>2, <1>3 DEF Snapshot
<1>5. s \in Snapshot
  BY <1>2, <1>4 DEF Snapshot
<1>6. source # NoSource /\ k[1] = source.rev
  BY DEF ClaimBuild, SourceHeld, KeyOf
<1>7. snaps' = [snaps EXCEPT ![k] = s] /\ UNCHANGED source
  BY DEF ClaimBuild
<1>8. source.rev \in Nat
  BY <1>6 DEF IInv, TypeOK
<1>9. snaps' \in [Keys -> Snapshot \cup {NoSnapshot}] /\ SnapshotsSound'
  <2>1. s.rows \subseteq RowsOf(k) /\ s.status # "active"
    OBVIOUS
  <2>2. k[1] <= source.rev
    BY <1>6, <1>8
  <2>3. IInv /\ k \in Keys
    BY <1>1
  <2> HIDE DEF s, k
  <2>4. QED
    BY <1>5, <1>6, <1>7, <2>1, <2>2, <2>3, OneSnapshot
<1>10. job' \in [Builders -> Job \cup {NoJob}] /\ SeenSound'
  <2>1. CASE GiveUp(b)
    BY <1>1, <2>1, Moves DEF SeenSound
  <2>2. CASE job' = [job EXCEPT ![b] = [@ EXCEPT !.id = id, !.builder = new,
                       !.token = token, !.next = 0, !.pc = "renew"]]
    <3>1. job[b].seen = {}
      BY <1>1 DEF ClaimBuild, At, IInv, SeenSound
    <3>2. [job[b] EXCEPT !.id = id, !.builder = new, !.token = token,
             !.next = 0, !.pc = "renew"] \in Job
      <4>1. id \in 0 .. MaxClaims /\ new \in 0 .. MaxClaims /\ "renew" \in Places
        BY <1>2, <1>4 DEF Places
      <4> HIDE DEF id, new, token
      <4>2. QED
        BY <1>1, <1>4, <4>1 DEF Job
    <3>3. [job[b] EXCEPT !.id = id, !.builder = new, !.token = token,
             !.next = 0, !.pc = "renew"].seen = {}
      BY <1>1, <3>1 DEF Job
    <3>4. QED
      BY <1>1, <2>2, <3>2, <3>3 DEF IInv, TypeOK, SeenSound
  <2>3. QED
    BY <2>1, <2>2 DEF ClaimBuild
<1>11. QED
  BY <1>2, <1>7, <1>9, <1>10 DEF IInv, TypeOK

LEMMA WriteIInv ==
  ASSUME IInv, NEW b \in Builders, Write(b)
  PROVE  IInv'
<1>1. job[b] \in Job /\ KeyOf(b) \in Keys /\ job[b] # NoJob /\ job[b].pc = "write"
  BY AtWork DEF Write, At, IInv
<1>2. CASE GoTo(b, "cleanup") /\ UNCHANGED snaps
  BY <1>1, <1>2, Moves, QuietStep DEF Write, Places
<1>3. CASE TicketHeld(b) /\ snaps' = [snaps EXCEPT ![KeyOf(b)].rows = @ \cup Batch(b)]
  <2> DEFINE s == [Mine(b) EXCEPT !.rows = @ \cup Batch(b)]
  <2>1. Mine(b) \in Snapshot /\ source # NoSource /\ KeyOf(b)[1] = source.rev
        /\ Mine(b).status = "building"
    BY <1>1, <1>3 DEF TicketHeld, SourceHeld, Mine, KeyOf, IInv, TypeOK
  <2>2. Batch(b) \subseteq RowsOf(KeyOf(b)) /\ Batch(b) \subseteq Row
    BY <1>1, <1>3, BatchRows DEF TicketHeld, IInv
  <2>3. s \in Snapshot /\ s.status = "building"
    BY <2>1, <2>2 DEF Snapshot
  <2>4. s.rows \subseteq RowsOf(KeyOf(b))
    BY <1>1, <2>1, <2>2 DEF IInv, SnapshotsSound, Mine, Snapshot
  <2>5. snaps' = [snaps EXCEPT ![KeyOf(b)] = s]
    BY <1>3 DEF Mine
  <2>6. source.rev \in Nat /\ UNCHANGED source
    BY <2>1 DEF IInv, TypeOK, Write
  <2> HIDE DEF s
  <2>7. snaps' \in [Keys -> Snapshot \cup {NoSnapshot}] /\ SnapshotsSound'
    <3> DEFINE k == KeyOf(b)
    <3>1. k \in Keys /\ k[1] <= source.rev /\ snaps' = [snaps EXCEPT ![k] = s]
          /\ s.rows \subseteq RowsOf(k)
      BY <1>1, <2>1, <2>4, <2>5, <2>6
    <3>2. s.status # "active"
      BY <2>3
    <3> HIDE DEF k
    <3>3. QED
      BY <2>1, <2>3, <2>6, <3>1, <3>2, OneSnapshot
  <2>8. job' \in [Builders -> Job \cup {NoJob}] /\ SeenSound'
    <3>1. CASE GoTo(b, "cleanup")
      BY <1>1, <3>1, Moves DEF Places, SeenSound
    <3>2. ASSUME NEW p \in {"renew", "activate"},
                 job' = [job EXCEPT ![b].next = @ + BatchSize, ![b].pc = p]
          PROVE  job' \in [Builders -> Job \cup {NoJob}] /\ SeenSound'
      <4>1. job[b].seen = {}
        BY <1>1 DEF IInv, SeenSound
      <4>2. [job[b] EXCEPT !.next = @ + BatchSize, !.pc = p] \in Job
        <5>1. job[b].next + BatchSize \in Nat /\ p \in Places
          BY <1>1 DEF Job, Places
        <5> DEFINE n == job[b].next + BatchSize
        <5>2. [job[b] EXCEPT !.next = n, !.pc = p] \in Job
          <6>1. n \in Nat
            BY <5>1
          <6> HIDE DEF n
          <6>2. QED
            BY <1>1, <5>1, <6>1 DEF Job
        <5>3. QED
          BY <5>2
      <4>3. [job[b] EXCEPT !.next = @ + BatchSize, !.pc = p].seen = {}
        BY <1>1, <4>1 DEF Job
      <4>4. job' = [job EXCEPT ![b] = [job[b] EXCEPT !.next = @ + BatchSize, !.pc = p]]
        BY <1>1, <3>2 DEF IInv, TypeOK
      <4>5. QED
        BY <1>1, <4>2, <4>3, <4>4 DEF IInv, TypeOK, SeenSound
    <3>3. QED
      BY <1>1, <1>3, <3>1, <3>2 DEF Write
  <2>9. QED
    BY <2>7, <2>8 DEF IInv, TypeOK, Write
<1>4. QED
  BY <1>2, <1>3 DEF Write

LEMMA ActivateIInv ==
  ASSUME IInv, NEW b \in Builders, Activate(b)
  PROVE  IInv'
<1>1. job[b] \in Job /\ KeyOf(b) \in Keys /\ job[b] # NoJob /\ job[b].pc = "activate"
  BY AtWork DEF Activate, At, IInv
<1>2. job' \in [Builders -> Job \cup {NoJob}] /\ SeenSound'
  BY <1>1, Moves DEF Activate, Places, SeenSound
<1>3. CASE UNCHANGED snaps
  BY <1>2, <1>3, QuietStep DEF Activate, SeenSound
<1>4. CASE TicketHeld(b) /\ Complete(b) /\ snaps' = Published(b)
  <2>1. Mine(b).rows = PlanRows(source.hash, job[b].profile)
    BY <1>1, <1>4, CompleteIsPlan DEF IInv
  <2>2. snaps' \in [Keys -> Snapshot \cup {NoSnapshot}]
    <3>1. ASSUME NEW k \in Keys PROVE Published(b)[k] \in Snapshot \cup {NoSnapshot}
      <4>1. snaps[k] \in Snapshot \cup {NoSnapshot}
        BY DEF IInv, TypeOK
      <4>2. CASE snaps[k] \in Snapshot
        BY <4>2 DEF Published, Snapshot
      <4>3. CASE snaps[k] = NoSnapshot
        BY <1>4, <4>3 DEF Published, Active, TicketHeld, Mine
      <4>4. QED
        BY <4>1, <4>2, <4>3
    <3>2. QED
      BY <1>4, <3>1 DEF Published
  <2>3. SnapshotsSound'
    <3> SUFFICES ASSUME NEW k \in Keys, snaps'[k] # NoSnapshot
                 PROVE  /\ source # NoSource
                        /\ k[1] <= source.rev
                        /\ k[1] = source.rev =>
                             /\ snaps'[k].rows \subseteq RowsOf(k)
                             /\ Active(k)' => snaps'[k].rows = PlanRows(source.hash, k[2])
      BY DEF SnapshotsSound, RowsOf, Activate
    <3>1. snaps[k] \in Snapshot
      BY <1>4 DEF Published, Active, TicketHeld, Mine, IInv, TypeOK
    <3>2. snaps'[k].rows = snaps[k].rows
      BY <1>4, <3>1 DEF Published, Snapshot
    <3>3. snaps[k] # NoSnapshot
      BY <3>1
    <3>4. Active(k)' => k = KeyOf(b)
      BY <1>4, <3>1 DEF Published, Active, Snapshot
    <3>5. KeyOf(b)[2] = job[b].profile
      BY DEF KeyOf
    <3>6. k = KeyOf(b) => snaps'[k].rows = PlanRows(source.hash, k[2])
      BY <2>1, <3>2, <3>5 DEF Mine
    <3>7. QED
      BY <3>2, <3>3, <3>4, <3>6 DEF IInv, SnapshotsSound
  <2>4. QED
    BY <1>2, <2>2, <2>3 DEF IInv, TypeOK, Activate
<1>5. QED
  BY <1>3, <1>4 DEF Activate

LEMMA CleanupIInv ==
  ASSUME IInv, NEW b \in Builders, Cleanup(b)
  PROVE  IInv'
<1>1. job[b] \in Job /\ KeyOf(b) \in Keys /\ job[b] # NoJob
  BY AtWork DEF Cleanup, At, IInv
<1>2. job' \in [Builders -> Job \cup {NoJob}] /\ SeenSound'
  BY <1>1, Moves DEF Cleanup, SeenSound
<1>3. CASE UNCHANGED snaps
  BY <1>2, <1>3, QuietStep DEF Cleanup, SeenSound
<1>4. CASE TicketHeld(b) /\ snaps' = [snaps EXCEPT ![KeyOf(b)].status = "failed"]
  <2> DEFINE k == KeyOf(b)
             s == [Mine(b) EXCEPT !.status = "failed"]
  <2>1. Mine(b) \in Snapshot /\ source # NoSource /\ k[1] = source.rev /\ k \in Keys
    BY <1>1, <1>4 DEF TicketHeld, SourceHeld, Mine, KeyOf, IInv, TypeOK
  <2>2. s \in Snapshot /\ s.status # "active" /\ s.rows = Mine(b).rows
    BY <2>1 DEF Snapshot
  <2>3. s.rows \subseteq RowsOf(k)
    BY <2>1, <2>2 DEF IInv, SnapshotsSound, Mine, Snapshot
  <2>4. snaps' = [snaps EXCEPT ![k] = s] /\ UNCHANGED source
    BY <1>4 DEF Mine, Cleanup
  <2>5. k[1] <= source.rev
    BY <2>1 DEF IInv, TypeOK
  <2> HIDE DEF s, k
  <2>6. snaps' \in [Keys -> Snapshot \cup {NoSnapshot}] /\ SnapshotsSound'
    BY <2>1, <2>2, <2>3, <2>4, <2>5, OneSnapshot
  <2>7. QED
    BY <1>2, <2>6 DEF IInv, TypeOK, Cleanup
<1>5. QED
  BY <1>3, <1>4 DEF Cleanup

(* What a builder is answered is the plan of its own text. *)
LEMMA AnswerIsPlan ==
  ASSUME IInv, NEW b \in Builders, job[b] # NoJob, ActiveHeld(b)
  PROVE  /\ Mine(b).rows = PlanRows(job[b].hash, job[b].profile)
         /\ Mine(b).rows \subseteq Row
<1>1. job[b] \in Job /\ KeyOf(b) \in Keys
  BY AtWork DEF IInv
<1>2. Mine(b) \in Snapshot
  BY <1>1 DEF ActiveHeld, Mine, IInv, TypeOK
<1>3. KeyOf(b)[1] = source.rev /\ KeyOf(b)[2] = job[b].profile /\ Active(KeyOf(b))
  BY DEF ActiveHeld, SourceHeld, KeyOf, Mine, Active
<1>4. Mine(b).rows = PlanRows(job[b].hash, job[b].profile)
  BY <1>1, <1>3 DEF ActiveHeld, SourceHeld, Mine, IInv, SnapshotsSound
<1>5. Mine(b).rows \subseteq Row
  BY <1>2 DEF Snapshot
<1>6. QED
  BY <1>4, <1>5

LEMMA ReadIInv ==
  ASSUME IInv, NEW b \in Builders, Load(b) \/ Search(b)
  PROVE  IInv'
<1>1. job[b] \in Job /\ job[b] # NoJob
  BY AtWork DEF Load, Search, At, IInv
<1>2. CASE GiveUp(b)
  BY <1>1, <1>2, Moves, QuietStep DEF Load, Search
<1>3. ASSUME NEW p \in {"search", "done"}, ActiveHeld(b),
             job' = [job EXCEPT ![b].seen = Mine(b).rows, ![b].pc = p]
      PROVE  IInv'
  <2>1. Mine(b).rows \subseteq Row
    BY <1>1, <1>3, AnswerIsPlan
  <2>2. [job[b] EXCEPT !.seen = Mine(b).rows, !.pc = p] \in Job
    BY <1>1, <2>1 DEF Job, Places
  <2>3. [job[b] EXCEPT !.seen = Mine(b).rows, !.pc = p].pc = p
    BY <1>1 DEF Job
  <2>4. job' = [job EXCEPT ![b] = [job[b] EXCEPT !.seen = Mine(b).rows, !.pc = p]]
    BY <1>1, <1>3 DEF IInv, TypeOK
  <2>5. job' \in [Builders -> Job \cup {NoJob}] /\ SeenSound'
    BY <1>1, <2>2, <2>3, <2>4 DEF IInv, TypeOK, SeenSound
  <2>6. QED
    BY <2>5, QuietStep DEF Load, Search, SeenSound
<1>4. QED
  BY <1>2, <1>3 DEF Load, Search

(* Every builder's step preserves the invariant. *)
LEMMA StepIInv ==
  ASSUME IInv, NEW b \in Builders, Step(b)
  PROVE  IInv'
<1>1. CASE \E h \in Hashes, p \in Profiles : Register(b, h, p)
  BY <1>1, RegisterIInv
<1>2. CASE ClaimReuse(b)
  <2>1. job[b] \in Job /\ job[b] # NoJob /\ KeyOf(b) \in Keys
    BY <1>2, AtWork DEF ClaimReuse, At, IInv
  <2>2. CASE GiveUp(b)
    BY <1>2, <2>1, <2>2, Moves, QuietStep DEF ClaimReuse
  <2>3. CASE /\ Active(KeyOf(b))
             /\ job' = [job EXCEPT ![b].id = Mine(b).id, ![b].pc = "load"]
    <3>1. Mine(b).id \in 0 .. MaxClaims
      BY <2>1, <2>3 DEF Active, Mine, IInv, TypeOK, Snapshot
    <3>2. job[b].seen = {}
      BY <1>2, <2>1 DEF ClaimReuse, At, IInv, SeenSound
    <3> DEFINE j == [job[b] EXCEPT !.id = Mine(b).id, !.pc = "load"]
    <3>3. j \in Job /\ j.seen = {}
      BY <2>1, <3>1, <3>2 DEF Job, Places
    <3>4. job' = [job EXCEPT ![b] = j]
      BY <2>1, <2>3 DEF IInv, TypeOK
    <3> HIDE DEF j
    <3>5. job' \in [Builders -> Job \cup {NoJob}] /\ SeenSound'
      BY <3>3, <3>4 DEF IInv, TypeOK, SeenSound
    <3>6. QED
      BY <1>2, <3>5, QuietStep DEF ClaimReuse, SeenSound
  <2>4. QED
    BY <1>2, <2>2, <2>3 DEF ClaimReuse
<1>3. CASE ClaimBuild(b)
  BY <1>3, ClaimIInv
<1>4. CASE Renew(b) \/ BuildError(b)
  <2>1. job[b] # NoJob /\ job[b].pc \notin {"search", "done"}
    BY <1>4 DEF Renew, BuildError, At
  <2>2. \E p \in Places : GoTo(b, p)
    BY <1>4 DEF Renew, BuildError, Places
  <2>3. QED
    BY <1>4, <2>1, <2>2, Moves, QuietStep DEF Renew, BuildError
<1>5. CASE Write(b)
  BY <1>5, WriteIInv
<1>6. CASE Activate(b)
  BY <1>6, ActivateIInv
<1>7. CASE Cleanup(b)
  BY <1>7, CleanupIInv
<1>8. CASE Load(b) \/ Search(b)
  BY <1>8, ReadIInv
<1>9. CASE Stop(b)
  BY <1>9, Moves, QuietStep DEF Stop
<1>10. QED
  BY <1>1, <1>2, <1>3, <1>4, <1>5, <1>6, <1>7, <1>8, <1>9 DEF Step

LEMMA UpdateIInv ==
  ASSUME IInv, NEW h \in Hashes, NEW observed \in 1 .. MaxRevision, Update(h, observed)
  PROVE  IInv'
<1>1. source \in [rev : 1 .. MaxRevision, hash : Hashes]
  BY DEF Update, IInv, TypeOK
<1>2. source' \in [rev : 1 .. MaxRevision, hash : Hashes] /\ source'.rev = source.rev + 1
  BY <1>1 DEF Update
<1>3. source' # NoSource /\ source.rev \in Nat
  BY <1>1, <1>2
<1>4. SnapshotsSound'
  <2> SUFFICES ASSUME NEW k \in Keys, snaps[k] # NoSnapshot
               PROVE  source' # NoSource /\ k[1] <= source'.rev /\ k[1] # source'.rev
    BY DEF SnapshotsSound, Update
  <2>1. k[1] <= source.rev /\ k[1] \in Nat
    BY DEF IInv, SnapshotsSound, Keys
  <2>2. QED
    BY <1>2, <1>3, <2>1
<1>5. QED
  BY <1>2, <1>4 DEF IInv, TypeOK, SeenSound, Update

LEMMA ExpireIInv ==
  ASSUME IInv, NEW k \in Keys, Expire(k)
  PROVE  IInv'
<1> DEFINE s == [snaps[k] EXCEPT !.live = FALSE]
<1>1. snaps[k] \in Snapshot /\ snaps[k].status = "building"
  BY DEF Expire, BeingBuilt, IInv, TypeOK
<1>2. s \in Snapshot /\ s.status # "active" /\ s.rows = snaps[k].rows
  BY <1>1 DEF Snapshot
<1>3. /\ source # NoSource /\ k[1] <= source.rev
      /\ k[1] = source.rev => s.rows \subseteq RowsOf(k)
  BY <1>1, <1>2 DEF Expire, BeingBuilt, IInv, SnapshotsSound
<1>4. snaps' = [snaps EXCEPT ![k] = s] /\ UNCHANGED <<source, claims, job>>
  BY DEF Expire
<1> HIDE DEF s
<1>5. snaps' \in [Keys -> Snapshot \cup {NoSnapshot}] /\ SnapshotsSound'
  BY <1>2, <1>3, <1>4, OneSnapshot
<1>6. QED
  BY <1>4, <1>5 DEF IInv, TypeOK, SeenSound

LEMMA NextIInv == IInv /\ [Next]_vars => IInv'
<1> SUFFICES ASSUME IInv, [Next]_vars PROVE IInv'
  OBVIOUS
<1>1. CASE \E b \in Builders : Step(b)
  BY <1>1, StepIInv
<1>2. CASE \E h \in Hashes, observed \in 1 .. MaxRevision : Update(h, observed)
  BY <1>2, UpdateIInv
<1>3. CASE \E k \in Keys : Expire(k)
  BY <1>3, ExpireIInv
<1>4. CASE Delete
  BY <1>4 DEF Delete, IInv, TypeOK, SnapshotsSound, SeenSound
<1>5. CASE UNCHANGED vars
  BY <1>5 DEF vars, IInv, TypeOK, SnapshotsSound, SeenSound, Active, RowsOf
<1>6. QED
  BY <1>1, <1>2, <1>3, <1>4, <1>5 DEF Next

(* The invariant holds in every reachable state: the tables are well       *)
(* formed, the snapshots of the registered text hold only its rows, and a  *)
(* published one holds all of them.                                        *)
THEOREM StoreSound == Spec => [](TypeOK /\ SnapshotsSound /\ SeenSound)
<1>1. Init => IInv
  BY InitIInv
<1>2. IInv /\ [Next]_vars => IInv'
  BY NextIInv
<1>3. QED
  BY <1>1, <1>2, PTL DEF Spec, IInv

-----------------------------------------------------------------------------
(* Snapshots that differ in what is not published show the same index. *)
LEMMA SameIndex ==
  ASSUME IInv, snaps' \in [Keys -> Snapshot \cup {NoSnapshot}],
         \A k \in Keys : /\ (snaps'[k] # NoSnapshot /\ snaps'[k].status = "active") <=> Active(k)
                         /\ Active(k) => snaps'[k].rows = snaps[k].rows
  PROVE  published' = published
<1>1. ASSUME NEW x \in published' PROVE x \in published
  <2>1. PICK k \in Keys : Active(k)' /\ x = [rev |-> k[1], rows |-> snaps'[k].rows]
    BY <1>1 DEF published
  <2>2. Active(k)
    BY <2>1 DEF Active
  <2>3. snaps'[k].rows = snaps[k].rows
    BY <2>2
  <2>4. x = [rev |-> k[1], rows |-> snaps[k].rows]
    BY <2>1, <2>3
  <2>5. QED
    BY <2>2, <2>4 DEF published
<1>2. ASSUME NEW x \in published PROVE x \in published'
  <2>1. PICK k \in Keys : Active(k) /\ x = [rev |-> k[1], rows |-> snaps[k].rows]
    BY <1>2 DEF published
  <2>2. Active(k)'
    BY <2>1 DEF Active
  <2>3. snaps'[k].rows = snaps[k].rows
    BY <2>1
  <2>4. x = [rev |-> k[1], rows |-> snaps'[k].rows]
    BY <2>1, <2>3
  <2>5. QED
    BY <2>2, <2>4 DEF published
<1>3. QED
  BY <1>1, <1>2

(* The activation publishes the plan of the registered text, alone. *)
LEMMA ActivatePublishes ==
  ASSUME IInv, NEW b \in Builders, Activate(b)
  PROVE  \/ \E p \in Profiles : Index!Publish(p)
         \/ UNCHANGED <<source, published>>
<1>1. job[b] \in Job /\ KeyOf(b) \in Keys /\ job[b] # NoJob
  BY AtWork DEF Activate, At, IInv
<1>2. CASE UNCHANGED snaps
  BY <1>2 DEF Activate, published, Active
<1>3. CASE TicketHeld(b) /\ Complete(b) /\ snaps' = Published(b)
  <2>1. Mine(b).rows = PlanRows(source.hash, job[b].profile)
    BY <1>1, <1>3, CompleteIsPlan DEF IInv
  <2>2. Mine(b) \in Snapshot
    BY <1>1, <1>3 DEF TicketHeld, Mine, IInv, TypeOK
  <2>3. snaps'[KeyOf(b)] = [Mine(b) EXCEPT !.status = "active"]
    BY <1>1, <1>3 DEF Published, Mine
  <2>4. \A k \in Keys : k = KeyOf(b) => Active(k)' /\ snaps'[k].rows = Mine(b).rows
    <3>1. IInv'
      BY ActivateIInv
    <3>2. [Mine(b) EXCEPT !.status = "active"] \in Snapshot
      BY <2>2 DEF Snapshot
    <3>3. snaps'[KeyOf(b)] # NoSnapshot
      BY <2>3, <3>2
    <3>4. snaps'[KeyOf(b)].status = "active" /\ snaps'[KeyOf(b)].rows = Mine(b).rows
      BY <2>2, <2>3 DEF Snapshot
    <3>5. QED
      BY <3>3, <3>4 DEF Active
  <2>5. ASSUME NEW k \in Keys, k # KeyOf(b) PROVE ~Active(k)'
    <3>1. CASE Active(k)
      <4>1. snaps[k] \in Snapshot
        BY <3>1 DEF Active, IInv, TypeOK
      <4>2. snaps'[k].status = "superseded"
        BY <1>3, <2>5, <3>1, <4>1 DEF Published, Snapshot
      <4>3. QED
        BY <4>2 DEF Active
    <3>2. CASE ~Active(k)
      BY <1>3, <2>5, <3>2 DEF Published, Active
    <3>3. QED
      BY <3>1, <3>2
  <2>6. ASSUME NEW k \in Keys, k = KeyOf(b)
        PROVE  published' = {[rev |-> k[1], rows |-> Mine(b).rows]}
    <3>1. Active(k)' /\ snaps'[k].rows = Mine(b).rows
      BY <2>4, <2>6
    <3>2. \A j \in Keys : Active(j)' => j = k
      BY <2>5, <2>6
    <3>3. ASSUME NEW x \in published'
          PROVE  x = [rev |-> k[1], rows |-> Mine(b).rows]
      <4>1. PICK j \in Keys : Active(j)' /\ x = [rev |-> j[1], rows |-> snaps'[j].rows]
        BY <3>3 DEF published
      <4>2. QED
        BY <3>1, <3>2, <4>1
    <3>4. [rev |-> k[1], rows |-> snaps'[k].rows] \in published'
      BY <3>1 DEF published
    <3>5. QED
      BY <3>1, <3>3, <3>4
  <2>7. KeyOf(b)[1] = source.rev /\ source # NoSource /\ job[b].profile \in Profiles
    BY <1>1, <1>3 DEF TicketHeld, SourceHeld, KeyOf, Job
  <2>8. Index!Publish(job[b].profile)
    BY <1>1, <2>1, <2>6, <2>7 DEF Index!Publish, Activate
  <2>9. QED
    BY <2>7, <2>8
<1>4. QED
  BY <1>2, <1>3 DEF Activate

LEMMA StepPublishes ==
  ASSUME IInv, NEW b \in Builders, Step(b)
  PROVE  [Index!Next]_(Index!vars)
<1>0. IInv'
  BY StepIInv
<1> USE DEF Index!vars
<1>1. CASE \E h \in Hashes, p \in Profiles : Register(b, h, p)
  <2>1. PICK h \in Hashes, p \in Profiles : Register(b, h, p)
    BY <1>1
  <2>2. published' = published
    BY <2>1 DEF Register, published, Active
  <2>3. CASE source = NoSource
    BY <2>1, <2>2, <2>3 DEF Register, Index!Register, Index!Next
  <2>4. CASE source # NoSource
    BY <2>1, <2>2, <2>4 DEF Register
  <2>5. QED
    BY <2>3, <2>4
<1>2. CASE \/ ClaimReuse(b) \/ Renew(b) \/ BuildError(b)
           \/ Load(b) \/ Search(b) \/ Stop(b)
  BY <1>2 DEF ClaimReuse, Renew, BuildError, Load, Search, Stop, published, Active
<1>3. CASE ClaimBuild(b)
  <2>1. KeyOf(b) \in Keys /\ ~Active(KeyOf(b))
    BY <1>3, AtWork DEF ClaimBuild, At, IInv
  <2>2. \A j \in Keys \ {KeyOf(b)} : snaps'[j] = snaps[j]
    BY <1>3 DEF ClaimBuild, IInv, TypeOK
  <2>3. snaps'[KeyOf(b)].status = "building"
    BY <1>3, <2>1 DEF ClaimBuild, IInv, TypeOK
  <2> DEFINE k == KeyOf(b)
  <2>4. ~(snaps'[k] # NoSnapshot /\ snaps'[k].status = "active")
    BY <2>3
  <2> HIDE DEF k
  <2>5. published' = published
    <3>1. k \in Keys /\ ~Active(k) /\ (\A j \in Keys \ {k} : snaps'[j] = snaps[j])
      BY <2>1, <2>2 DEF k
    <3>2. QED
      BY <1>0, <2>4, <3>1, SameIndex DEF Active, IInv, TypeOK
  <2>6. QED
    BY <1>3, <2>5 DEF ClaimBuild
<1>4. CASE Write(b)
  <2>1. KeyOf(b) \in Keys
    BY <1>4, AtWork DEF Write, At, IInv
  <2>2. CASE UNCHANGED snaps
    BY <1>4, <2>2 DEF Write, published, Active
  <2>3. CASE TicketHeld(b) /\ snaps' = [snaps EXCEPT ![KeyOf(b)].rows = @ \cup Batch(b)]
    <3>1. \A j \in Keys : /\ (snaps'[j] # NoSnapshot /\ snaps'[j].status = "active") <=> Active(j)
                          /\ Active(j) => snaps'[j].rows = snaps[j].rows
      <4> SUFFICES ASSUME NEW j \in Keys
                   PROVE  /\ (snaps'[j] # NoSnapshot /\ snaps'[j].status = "active") <=> Active(j)
                          /\ Active(j) => snaps'[j].rows = snaps[j].rows
        OBVIOUS
      <4>1. CASE j # KeyOf(b)
        BY <2>3, <4>1 DEF Active, IInv, TypeOK
      <4>2. CASE j = KeyOf(b)
        <5>1. snaps[j].status = "building" /\ snaps[j] \in Snapshot
          BY <2>3, <4>2 DEF TicketHeld, Mine, IInv, TypeOK
        <5>2. snaps'[j].status = "building"
          BY <2>3, <4>2, <5>1 DEF IInv, TypeOK, Snapshot
        <5>3. QED
          BY <5>1, <5>2 DEF Active
      <4>3. QED
        BY <4>1, <4>2
    <3>2. published' = published
      BY <1>0, <3>1, SameIndex DEF IInv, TypeOK
    <3>3. QED
      BY <1>4, <3>2 DEF Write
  <2>4. QED
    BY <1>4, <2>2, <2>3 DEF Write
<1>5. CASE Activate(b)
  BY <1>5, ActivatePublishes DEF Index!Next
<1>6. CASE Cleanup(b)
  <2>1. CASE UNCHANGED snaps
    BY <1>6, <2>1 DEF Cleanup, published, Active
  <2>2. CASE TicketHeld(b) /\ snaps' = [snaps EXCEPT ![KeyOf(b)].status = "failed"]
    <3>1. KeyOf(b) \in Keys
      BY <1>6, AtWork DEF Cleanup, At, IInv
    <3>2. \A j \in Keys : /\ (snaps'[j] # NoSnapshot /\ snaps'[j].status = "active") <=> Active(j)
                          /\ Active(j) => snaps'[j].rows = snaps[j].rows
      <4> SUFFICES ASSUME NEW j \in Keys
                   PROVE  /\ (snaps'[j] # NoSnapshot /\ snaps'[j].status = "active") <=> Active(j)
                          /\ Active(j) => snaps'[j].rows = snaps[j].rows
        OBVIOUS
      <4>1. CASE j # KeyOf(b)
        BY <2>2, <4>1 DEF Active, IInv, TypeOK
      <4>2. CASE j = KeyOf(b)
        <5>1. snaps[j].status = "building" /\ snaps[j] \in Snapshot
          BY <2>2, <4>2 DEF TicketHeld, Mine, IInv, TypeOK
        <5>2. snaps'[j].status = "failed"
          BY <2>2, <4>2, <5>1 DEF IInv, TypeOK, Snapshot
        <5>3. QED
          BY <5>1, <5>2 DEF Active
      <4>3. QED
        BY <4>1, <4>2
    <3>3. published' = published
      BY <1>0, <3>2, SameIndex DEF IInv, TypeOK
    <3>4. QED
      BY <1>6, <3>3 DEF Cleanup
  <2>3. QED
    BY <1>6, <2>1, <2>2 DEF Cleanup
<1>7. QED
  BY <1>1, <1>2, <1>3, <1>4, <1>5, <1>6 DEF Step

LEMMA NextPublishes == IInv /\ [Next]_vars => [Index!Next]_(Index!vars)
<1> SUFFICES ASSUME IInv, [Next]_vars PROVE [Index!Next]_(Index!vars)
  OBVIOUS
<1>1. CASE \E b \in Builders : Step(b)
  BY <1>1, StepPublishes
<1>2. CASE \E h \in Hashes, observed \in 1 .. MaxRevision : Update(h, observed)
  <2>1. PICK h \in Hashes, observed \in 1 .. MaxRevision : Update(h, observed)
    BY <1>2
  <2>2. published' = published
    BY <2>1 DEF Update, published, Active
  <2>3. Index!Update(h)
    BY <2>1, <2>2 DEF Update, Index!Update
  <2>4. QED
    BY <2>3 DEF Index!Next
<1>3. CASE \E k \in Keys : Expire(k)
  <2>1. PICK k \in Keys : Expire(k)
    BY <1>3
  <2>2. IInv'
    BY <2>1, ExpireIInv
  <2>3. \A j \in Keys : /\ (snaps'[j] # NoSnapshot /\ snaps'[j].status = "active") <=> Active(j)
                        /\ Active(j) => snaps'[j].rows = snaps[j].rows
    BY <2>1 DEF Expire, BeingBuilt, Active, IInv, TypeOK, Snapshot
  <2>4. published' = published
    BY <2>2, <2>3, SameIndex DEF IInv, TypeOK
  <2>5. QED
    BY <2>1, <2>4 DEF Expire, Index!vars
<1>4. CASE Delete
  <2>1. published' = {}
    BY <1>4 DEF Delete, published, Active
  <2>2. QED
    BY <1>4, <2>1 DEF Delete, Index!Delete, Index!Next
<1>5. CASE UNCHANGED vars
  BY <1>5 DEF vars, Index!vars, published, Active
<1>6. QED
  BY <1>1, <1>2, <1>3, <1>4, <1>5 DEF Next

(* The store publishes whole indexes of the registered text, one at a      *)
(* time, whatever its builders, leases and lost answers do.                *)
THEOREM PublishesWhole == Spec => PublishedWhole
<1>1. Init => Index!Init
  <2>1. ASSUME Init PROVE published = {}
    BY <2>1 DEF Init, published, Active
  <2>2. QED
    BY <2>1 DEF Init, Index!Init
<1>2. IInv /\ [Next]_vars => [Index!Next]_(Index!vars)
  BY NextPublishes
<1>3. QED
  BY <1>1, <1>2, StoreSound, PTL DEF Spec, PublishedWhole, Index!Spec, IInv

-----------------------------------------------------------------------------
LEMMA StepFenced ==
  ASSUME IInv, NEW b \in Builders, Step(b), NEW k \in Keys, BeingBuilt(k),
         snaps'[k] # snaps[k]
  PROVE  Holds(b, k) /\ job'[b] # job[b]
<1>1. CASE ClaimBuild(b)
  BY <1>1 DEF ClaimBuild, IInv, TypeOK
<1>2. ASSUME TicketHeld(b), k = KeyOf(b), job[b] # NoJob
      PROVE  Holds(b, k)
  BY <1>2 DEF TicketHeld, Mine, Holds
<1>3. CASE Write(b)
  <2>1. job[b] \in Job /\ job[b] # NoJob /\ job[b].pc = "write" /\ KeyOf(b) \in Keys
    BY <1>3, AtWork DEF Write, At, IInv
  <2>2. TicketHeld(b) /\ k = KeyOf(b)
    BY <1>3 DEF Write, IInv, TypeOK
  <2>3. job'[b] # job[b]
    <3>1. job'[b].pc # "write"
      BY <1>3, <2>1 DEF Write, GoTo, IInv, TypeOK, Job
    <3>2. QED
      BY <2>1, <3>1
  <2>4. QED
    BY <1>2, <2>1, <2>2, <2>3
<1>4. CASE Activate(b)
  <2>1. job[b] \in Job /\ job[b] # NoJob /\ job[b].pc = "activate" /\ KeyOf(b) \in Keys
    BY <1>4, AtWork DEF Activate, At, IInv
  <2>2. TicketHeld(b) /\ snaps' = Published(b)
    BY <1>4 DEF Activate
  <2>3. k = KeyOf(b)
    BY <2>2 DEF Published, BeingBuilt, Active
  <2>4. job'[b].pc # "activate"
    BY <1>4, <2>1 DEF Activate, GoTo, IInv, TypeOK, Job
  <2>5. QED
    BY <1>2, <2>1, <2>2, <2>3, <2>4
<1>5. CASE Cleanup(b)
  <2>1. job[b] \in Job /\ job[b] # NoJob /\ KeyOf(b) \in Keys
    BY <1>5, AtWork DEF Cleanup, At, IInv
  <2>2. TicketHeld(b) /\ k = KeyOf(b)
    BY <1>5 DEF Cleanup, IInv, TypeOK
  <2>3. job'[b] = NoJob
    BY <1>5 DEF Cleanup, GiveUp, IInv, TypeOK
  <2>4. QED
    BY <1>2, <2>1, <2>2, <2>3
<1>6. CASE \/ ClaimReuse(b) \/ Renew(b) \/ BuildError(b)
           \/ Load(b) \/ Search(b) \/ Stop(b)
           \/ \E h \in Hashes, p \in Profiles : Register(b, h, p)
  BY <1>6 DEF ClaimReuse, Renew, BuildError, Load, Search, Stop, Register
<1>7. QED
  BY <1>1, <1>3, <1>4, <1>5, <1>6 DEF Step

(* While the lease of a build runs, only its builder changes it. *)
THEOREM BuildsAreFenced == Spec => Fenced
<1>1. IInv /\ [Next]_vars => [FencedStep]_vars
  <2> SUFFICES ASSUME IInv, Next, NEW k \in Keys, BeingBuilt(k), snaps'[k] # snaps[k]
               PROVE  \/ \E j \in Keys : snaps' = [snaps EXCEPT ![j].live = FALSE] /\ j = k
                      \/ source' = NoSource
                      \/ \E b \in Builders : Holds(b, k) /\ job'[b] # job[b]
    BY DEF FencedStep
  <2>1. CASE \E b \in Builders : Step(b)
    BY <2>1, StepFenced
  <2>2. CASE \E j \in Keys : Expire(j)
    BY <2>2 DEF Expire, IInv, TypeOK
  <2>3. CASE Delete \/ \E h \in Hashes, observed \in 1 .. MaxRevision : Update(h, observed)
    BY <2>3 DEF Delete, Update
  <2>4. QED
    BY <2>1, <2>2, <2>3 DEF Next
<1>2. QED
  BY <1>1, StoreSound, PTL DEF Spec, Fenced, IInv

(* No extraction is answered from the index of a text that was replaced.   *)
THEOREM ReadsAreCurrent == Spec => ReadsCurrent
<1>1. ASSUME IInv, NEW b \in Builders, Step(b), NEW c \in Builders,
             job'[c] # job[c], job'[c] # NoJob, job'[c].seen # {}
      PROVE  /\ job'[c].seen = PlanRows(job[c].hash, job[c].profile)
             /\ source # NoSource /\ source.rev = job[c].rev /\ source.hash = job[c].hash
  <2>1. IInv'
    BY <1>1, StepIInv
  <2>2. job'[c].pc \in {"search", "done"}
    BY <1>1, <2>1 DEF IInv, SeenSound
  <2>0. job \in [Builders -> Job \cup {NoJob}]
    BY <1>1 DEF IInv, TypeOK
  <2>3. ASSUME NEW p \in Places, job[b] # NoJob, ActiveHeld(b),
               job' = [job EXCEPT ![b].seen = Mine(b).rows, ![b].pc = p]
        PROVE  /\ job'[c].seen = PlanRows(job[c].hash, job[c].profile)
               /\ source # NoSource /\ source.rev = job[c].rev /\ source.hash = job[c].hash
    <3>1. c = b
      BY <1>1, <2>0, <2>3
    <3>2. job'[b].seen = Mine(b).rows
      BY <2>0, <2>3 DEF Job
    <3>3. QED
      BY <1>1, <2>3, <3>1, <3>2, AnswerIsPlan DEF ActiveHeld, SourceHeld
  <2>4. CASE \E h \in Hashes, p \in Profiles : Register(b, h, p)
    BY <1>1, <2>2, <2>4 DEF Register, IInv, TypeOK
  <2>5. ~GiveUp(b)
    BY <1>1, <2>0 DEF GiveUp
  <2>6. CASE Load(b) \/ Search(b)
    BY <2>3, <2>5, <2>6 DEF Load, Search, Places, At
  <2>9. ASSUME job' = [job EXCEPT ![b] = job'[b]]
        PROVE  job'[b].pc \in {"search", "done"}
    <3>1. c = b
      BY <1>1, <2>0, <2>9
    <3>2. QED
      BY <2>2, <3>1
  <2>10. CASE ClaimReuse(b)
    <3>1. job' = [job EXCEPT ![b].id = Mine(b).id, ![b].pc = "load"]
      BY <2>5, <2>10 DEF ClaimReuse
    <3>2. job[b] \in Job
      BY <2>0, <2>10 DEF ClaimReuse, At
    <3>3. job'[b].pc = "load" /\ job' = [job EXCEPT ![b] = job'[b]]
      BY <2>0, <3>1, <3>2 DEF Job
    <3>4. QED
      BY <2>9, <3>3
  <2>11. CASE ClaimBuild(b)
    <3>1. job[b] \in Job
      BY <2>0, <2>11 DEF ClaimBuild, At
    <3>2. job'[b].pc = "renew" /\ job' = [job EXCEPT ![b] = job'[b]]
      BY <2>0, <2>5, <2>11, <3>1 DEF ClaimBuild, Job
    <3>3. QED
      BY <2>9, <3>2
  <2>12. CASE Renew(b) \/ BuildError(b) \/ Activate(b)
    <3>1. PICK p \in Places \ {"search", "done"} : GoTo(b, p)
      <4>1. CASE Renew(b)
        BY <4>1 DEF Renew, Places
      <4>2. CASE BuildError(b) \/ Activate(b)
        <5>1. GoTo(b, "cleanup") \/ GoTo(b, "load")
          BY <4>2 DEF BuildError, Activate
        <5>2. QED
          BY <5>1 DEF Places
      <4>3. QED
        BY <2>12, <4>1, <4>2
    <3>2. job[b] \in Job
      BY <2>0, <2>12 DEF Renew, BuildError, Activate, At
    <3>3. job'[b].pc = p /\ job' = [job EXCEPT ![b] = job'[b]]
      BY <2>0, <3>1, <3>2 DEF GoTo, Job
    <3>4. QED
      BY <2>9, <3>1, <3>3
  <2>13. CASE Write(b)
    <3>1. job[b] \in Job
      BY <2>0, <2>13 DEF Write, At
    <3>2. job'[b].pc \in {"renew", "activate", "cleanup"}
      BY <2>0, <2>13, <3>1 DEF Write, GoTo, Job
    <3>3. job' = [job EXCEPT ![b] = job'[b]]
      BY <2>0, <2>13, <3>1 DEF Write, GoTo, Job
    <3>4. QED
      BY <2>9, <3>2, <3>3
  <2>7. CASE Cleanup(b) \/ Stop(b)
    BY <1>1, <2>7 DEF Cleanup, Stop, GiveUp, IInv, TypeOK
  <2>8. QED
    BY <1>1, <2>4, <2>6, <2>7, <2>10, <2>11, <2>12, <2>13 DEF Step
<1>2. IInv /\ [Next]_vars => [ReadStep]_vars
  <2>1. CASE \E b \in Builders : Step(b)
    BY <1>1, <2>1 DEF ReadStep
  <2>2. CASE \/ Delete \/ \E k \in Keys : Expire(k)
             \/ \E h \in Hashes, observed \in 1 .. MaxRevision : Update(h, observed)
    BY <2>2 DEF Delete, Expire, Update, ReadStep
  <2>3. QED
    BY <2>1, <2>2 DEF Next
<1>3. QED
  BY <1>2, StoreSound, PTL DEF Spec, ReadsCurrent, IInv

-----------------------------------------------------------------------------
(* The card.                                                               *)

TextSentences == UNION {Chunks[i].text : i \in Included}

(* What was accepted so far stands in a chunk that may be used; the reading *)
(* of a stopped extraction has a hole that nothing closes.                  *)
ReadingSound ==
  /\ quotes \in [Fields -> SUBSET TextSentences]
  /\ status \in [DOMAIN Chunks -> {"unread", "processed", "skipped", "excluded", "failed"}]
  /\ \A i \in Included : status[i] # "excluded"
  /\ stopped => \E i \in Included : status[i] \in {"failed", "skipped"}
  /\ pc = "chunks" => HasFullText

CardInv == ReadingSound /\ CardSound

(* A value that is emptied or cut is a part of what it was.                *)
LEMMA DeduplicatedLess ==
  ASSUME NEW S, NEW v \in [Fields -> SUBSET S]
  PROVE  /\ Deduplicated(v) \in [Fields -> SUBSET S]
         /\ \A f \in Fields : Deduplicated(v)[f] \subseteq v[f]
<1> DEFINE d == Deduplicated(v)
<1>1. d = [f \in Fields |-> d[f]]
  BY DEF Deduplicated
<1>2. d["research_problem"] \subseteq v["research_problem"] /\ d["method"] \subseteq v["method"]
  BY DEF Deduplicated, Fields
<1>3. d["contributions"] \subseteq v["contributions"] /\ d["limitations"] \subseteq v["limitations"]
  BY DEF Deduplicated, Fields, Without
<1>4. d["results"] = v["results"] /\ d["dataset"] = v["dataset"]
  BY DEF Deduplicated, Fields
<1>5. \A f \in Fields : d[f] \subseteq v[f]
  BY <1>2, <1>3, <1>4 DEF Fields
<1>6. \A f \in Fields : d[f] \in SUBSET S
  BY <1>5
<1> HIDE DEF d
<1>7. d \in [Fields -> SUBSET S]
  BY <1>1, <1>6
<1>8. QED
  BY <1>5, <1>7 DEF d

(* What passes the gate is a part of what came to it, without a mark where *)
(* there must be none, and a method, a result or a limitation has an       *)
(* explicit claim.                                                         *)
Passed(g, v, attached) ==
  /\ \A f \in {"method", "results"} : g.value[f] # {} =>
       /\ g.value[f] = v[f] /\ v[f] \cap Marked = {}
       /\ \E c \in g.claims[f] : c.explicit /\ c \in attached[f] /\ c.text \in CleanValues
  /\ g.value["limitations"] \subseteq v["limitations"] \cap LimitationText
  /\ g.value["limitations"] # {} => MayStateLimitations
  /\ \A f \in ContentFields : g.claims[f] \subseteq attached[f]

LEMMA GatedLess ==
  ASSUME NEW v, NEW attached, NEW origin, NEW issue, NEW coverage
  PROVE  LET g == Gated(v, attached, origin, issue, coverage)
         IN Passed(g, v, attached) /\ g.coverage = coverage /\ (g.quality = "valid" => ~issue)
<1> DEFINE g == Gated(v, attached, origin, issue, coverage)
           stated == [f \in Fields |-> IF f \in ContentFields
                        THEN {c \in attached[f] : c.text \in CleanValues} ELSE attached[f]]
           emptied == Emptied(v, stated) \cup (IF origin = "metadata"
                        THEN Fields \ {"contributions"} ELSE {})
           left == [f \in Fields |-> Left(v, emptied, f)]
<1>1. /\ g.value = left
      /\ g.claims = [f \in Fields |-> IF left[f] = {} /\ v[f] # {} THEN {} ELSE stated[f]]
      /\ g.coverage = coverage
      /\ g.quality = "valid" => ~issue
  BY DEF Gated
<1>2. \A f \in ContentFields : stated[f] = {c \in attached[f] : c.text \in CleanValues}
  BY DEF ContentFields
<1>3. \A f \in ContentFields : g.claims[f] \subseteq attached[f]
  BY <1>1, <1>2 DEF ContentFields
<1>4. \A f \in {"method", "results"} : f \notin emptied /\ v[f] # {} =>
        v[f] \in CleanValues /\ Supported(stated[f])
  BY DEF Emptied
<1>5. "limitations" \notin emptied /\ v["limitations"] # {} => MayStateLimitations
  BY DEF Emptied
<1> HIDE DEF emptied
<1>6. \A f \in {"method", "results"} : left[f] = IF f \in emptied THEN {} ELSE v[f]
  BY DEF Left, Fields
<1>7. left["limitations"] = IF "limitations" \in emptied THEN {}
                            ELSE v["limitations"] \cap LimitationText
  BY DEF Left, Fields
<1> HIDE DEF left, stated, g
<1>8. ASSUME NEW f \in {"method", "results"}, g.value[f] # {}
      PROVE  /\ g.value[f] = v[f] /\ v[f] \cap Marked = {}
             /\ \E c \in g.claims[f] : c.explicit /\ c \in attached[f] /\ c.text \in CleanValues
  <2>1. g.value[f] = v[f] /\ f \notin emptied
    BY <1>1, <1>6, <1>8
  <2>2. v[f] \in CleanValues /\ Supported(stated[f])
    BY <1>4, <1>8, <2>1
  <2>3. f \in ContentFields /\ f \in Fields
    BY DEF ContentFields, Fields
  <2>4. g.claims[f] = stated[f]
    BY <1>1, <1>8, <2>3
  <2>5. QED
    BY <1>2, <2>1, <2>2, <2>3, <2>4, CardsAssumption DEF Supported, CardsAssumption
<1>10. /\ g.value["limitations"] \subseteq v["limitations"] \cap LimitationText
       /\ g.value["limitations"] # {} => MayStateLimitations
  BY <1>1, <1>5, <1>7
<1>11. Passed(g, v, attached)
  BY <1>3, <1>8, <1>10 DEF Passed
<1>12. QED
  BY <1>1, <1>11 DEF g

(* What a card states stands in the paper.  The card of a paper that gave  *)
(* none states nothing.                                                    *)
CardGrounded(c) ==
  /\ \A f \in {"method", "results"} :
       /\ c.value[f] \subseteq Readable \ Marked
       /\ c.value[f] # {} =>
            \E d \in c.claims[f] :
              d.explicit /\ d.text \subseteq c.value[f] /\ d.text \in CleanValues
  /\ c.value.limitations # {} => paper.parsed = "full_text" /\ ~paper.cnki
  /\ c.value.limitations \subseteq Readable \cap LimitationText
  /\ \A f \in ContentFields : \A d \in c.claims[f] : d.explicit => d.text \subseteq Readable

LEMMA UnavailableGrounded ==
  /\ CardGrounded(UnavailableCard)
  /\ UnavailableCard.coverage = "none" /\ UnavailableCard.quality = "invalid"
  BY DEF CardGrounded, UnavailableCard, Empty, ContentFields, Fields

LEMMA ValidatedGrounded ==
  ASSUME NEW c, CardGrounded(c)
  PROVE  CardGrounded(Validated(c))
  BY UnavailableGrounded DEF Validated

(* What the program builds from quotes that stand in the text is grounded. *)
LEMMA GatedGrounded ==
  ASSUME NEW v, NEW attached, NEW origin, NEW issue, NEW coverage,
         MayStateLimitations => v["limitations"] \subseteq Readable,
         \A f \in {"method", "results"} : Supported(attached[f]) => v[f] \subseteq Readable,
         \A f \in {"method", "results"} : \A d \in attached[f] : d.text \subseteq v[f],
         \A f \in ContentFields : \A d \in attached[f] : d.explicit => d.text \subseteq Readable
  PROVE  CardGrounded(Gated(v, attached, origin, issue, coverage))
<1> DEFINE g == Gated(v, attached, origin, issue, coverage)
<1>1. Passed(g, v, attached)
  BY GatedLess
<1> HIDE DEF g
<1>2. ASSUME NEW f \in {"method", "results"}, g.value[f] # {}
      PROVE  /\ g.value[f] \subseteq Readable \ Marked
             /\ \E d \in g.claims[f] :
                  d.explicit /\ d.text \subseteq g.value[f] /\ d.text \in CleanValues
  <2>1. g.value[f] = v[f] /\ v[f] \cap Marked = {}
    BY <1>1, <1>2 DEF Passed
  <2>2. PICK c \in g.claims[f] : c.explicit /\ c \in attached[f] /\ c.text \in CleanValues
    BY <1>1, <1>2 DEF Passed
  <2>3. v[f] \subseteq Readable
    BY <2>2 DEF Supported
  <2>4. QED
    BY <2>1, <2>2, <2>3
<1>3. MayStateLimitations => paper.parsed = "full_text" /\ ~paper.cnki
  BY DEF MayStateLimitations, Access, HasFullText
<1>4. /\ g.value["limitations"] # {} => paper.parsed = "full_text" /\ ~paper.cnki
      /\ g.value["limitations"] \subseteq Readable \cap LimitationText
  BY <1>1, <1>3 DEF Passed
<1>5. \A f \in ContentFields : \A d \in g.claims[f] : d.explicit => d.text \subseteq Readable
  BY <1>1 DEF Passed
<1>6. CardGrounded(g)
  BY <1>2, <1>4, <1>5 DEF CardGrounded
<1>7. QED
  BY <1>6 DEF g

-----------------------------------------------------------------------------
(* A card that is done. *)
LEMMA DoneGrounded ==
  ASSUME NEW c, CardGrounded(c), Done(c), UNCHANGED paper
  PROVE  Grounded'
<1>1. CardGrounded(card')
  BY ValidatedGrounded DEF Done
<1>2. Readable' = Readable
  BY DEF Readable
<1> QED
  BY <1>1, <1>2 DEF CardGrounded, Grounded

LEMMA UnfinishedGrounded ==
  ASSUME pc' # "done"
  PROVE  CardSound'
  BY DEF CardSound, Grounded, CompleteRead

LEMMA InitCardInv == CardsInit => CardInv
<1> SUFFICES ASSUME CardsInit PROVE CardInv
  OBVIOUS
<1>1. ReadingSound
  BY DEF CardsInit, ReadingSound, Empty, Included
<1>2. CardSound
  BY DEF CardsInit, CardSound, Grounded, CompleteRead
<1>3. QED
  BY <1>1, <1>2 DEF CardInv

(* Without a text there is nothing to read in chunks, and so no coverage.  *)
LEMMA AbstractSound ==
  ASSUME CardInv, pc = "start", ~HasFullText, NEW c, CardGrounded(c), c.coverage = "none",
         Done(c), UNCHANGED <<paper, reading>>
  PROVE  CardInv'
<1>1. Grounded'
  BY DoneGrounded
<1>2. card'.coverage = "none"
  BY UnavailableGrounded DEF Done, Validated
<1>3. ~HasFullText'
  BY DEF HasFullText
<1>4. CompleteRead'
  BY <1>2, <1>3 DEF CompleteRead
<1>5. ReadingSound'
  BY DEF CardInv, ReadingSound, reading, Done
<1>6. QED
  BY <1>1, <1>4, <1>5 DEF CardInv, CardSound

(* The claim of an abstract's value is explicit when a sentence of it is   *)
(* the value.                                                              *)
LEMMA AbstractClaimsGrounded ==
  ASSUME ~HasFullText, NEW v \in Values, NEW found \in SUBSET Fields
  PROVE  /\ \A f \in {"method", "results"} :
              Supported(AbstractClaims(v, found)[f]) => v[f] \subseteq Readable
         /\ \A f \in {"method", "results"} : \A d \in AbstractClaims(v, found)[f] :
              d.text \subseteq v[f]
         /\ \A f \in ContentFields : \A d \in AbstractClaims(v, found)[f] :
              d.explicit => d.text \subseteq Readable
<1>1. Readable = paper.abstract
  BY DEF Readable, HasFullText
<1>2. \A f \in ContentFields : \A d \in AbstractClaims(v, found)[f] :
        d.explicit => d.text = v[f] /\ v[f] \subseteq Readable
  BY <1>1 DEF AbstractClaims, Literal, ContentFields
<1>3. {"method", "results"} \subseteq ContentFields
  BY DEF ContentFields, Fields
<1>4. \A f \in {"method", "results"} : \A d \in AbstractClaims(v, found)[f] : d.text = v[f]
  BY DEF AbstractClaims, Fields
<1>5. QED
  BY <1>2, <1>3, <1>4 DEF Supported

LEMMA ReadAbstractSound ==
  ASSUME CardInv, NEW answer \in AbstractAnswers, NEW found \in SUBSET Fields,
         ReadAbstract(answer, found)
  PROVE  CardInv'
<1> DEFINE v == Deduplicated(answer.fields)
           c == Gated(v, AbstractClaims(v, found), answer.declared, v # answer.fields, "none")
<1>1. v \in Values
  BY CardsAssumption, DeduplicatedLess DEF CardsAssumption, Values
<1>2. ~HasFullText /\ pc = "start" /\ Done(c) /\ UNCHANGED <<paper, reading>>
  BY DEF ReadAbstract
<1>3. ~MayStateLimitations
  BY <1>2 DEF MayStateLimitations, Access
<1> HIDE DEF v
<1>4. CardGrounded(c)
  BY <1>1, <1>2, <1>3, AbstractClaimsGrounded, GatedGrounded
<1>5. c.coverage = "none"
  BY GatedLess
<1> HIDE DEF c
<1>6. QED
  BY <1>2, <1>4, <1>5, AbstractSound

-----------------------------------------------------------------------------
(* A mark on the chunk at hand, other than of one read or not to be read.  *)
LEMMA MarkSound ==
  ASSUME ReadingSound, pc = "chunks", UNCHANGED <<paper, pc>>,
         NEW how \in {"processed", "skipped", "excluded", "failed"}, Mark(how),
         quotes' \in [Fields -> SUBSET TextSentences],
         how = "excluded" => Current \notin Included,
         how = "processed" => ~stopped,
         stopped' => stopped \/ (Current \in Included /\ how = "failed")
  PROVE  ReadingSound'
<1>1. status' = [status EXCEPT ![Current] = how]
  BY DEF Mark
<1>2. status' \in [DOMAIN Chunks -> {"unread", "processed", "skipped", "excluded", "failed"}]
  BY <1>1 DEF ReadingSound
<1>3. \A i \in Included : status'[i] = IF i = Current THEN how ELSE status[i]
  BY <1>1 DEF ReadingSound, Included
<1>4. \A i \in Included : status'[i] # "excluded"
  BY <1>3 DEF ReadingSound
<1>5. ASSUME stopped' PROVE \E i \in Included : status'[i] \in {"failed", "skipped"}
  <2>1. CASE Current \in Included /\ how = "failed"
    BY <1>3, <2>1
  <2>2. CASE stopped
    <3>1. PICK i \in Included : status[i] \in {"failed", "skipped"}
      BY <2>2 DEF ReadingSound
    <3>2. i = Current => how \in {"skipped", "failed"}
      BY <2>2
    <3>3. QED
      BY <1>3, <3>1, <3>2
  <2>3. QED
    BY <1>5, <2>1, <2>2
<1>6. HasFullText' = HasFullText
  BY DEF HasFullText
<1>7. QED
  BY <1>2, <1>4, <1>5, <1>6 DEF ReadingSound

LEMMA FinishSound ==
  ASSUME CardInv, FinishFullText
  PROVE  CardInv'
<1> DEFINE v == Deduplicated(quotes)
           issue == degraded \/ rejected \/ ~AllRead \/ v # quotes
           coverage == IF AllRead THEN "complete" ELSE "partial"
           c == Gated(v, QuoteClaims(v), "full_text", issue, coverage)
<1>1. HasFullText /\ Done(c) /\ UNCHANGED <<paper, reading>>
  BY DEF FinishFullText, CardInv, ReadingSound
<1>2. Readable = TextSentences
  BY <1>1 DEF Readable, HasFullText, TextSentences
<1>3. v \in [Fields -> SUBSET Readable]
  BY <1>2, DeduplicatedLess DEF CardInv, ReadingSound
<1> HIDE DEF v, issue, coverage
<1>4. /\ \A f \in {"method", "results"} : v[f] \subseteq Readable
      /\ v["limitations"] \subseteq Readable
      /\ \A f \in ContentFields : \A d \in QuoteClaims(v)[f] :
           d.text \subseteq v[f] /\ d.text \subseteq Readable
  BY <1>3 DEF Fields, ContentFields, QuoteClaims
<1>5. CardGrounded(c)
  <2>1. {"method", "results"} \subseteq ContentFields
    BY DEF ContentFields, Fields
  <2>2. QED
    BY <1>4, <2>1, GatedGrounded
<1>6. Grounded'
  BY <1>1, <1>5, DoneGrounded
<1>7. c.coverage = coverage /\ (c.quality = "valid" => ~issue)
  BY GatedLess
<1>8. c.coverage = "complete" \/ c.quality = "valid" => AllRead /\ c.coverage = "complete"
  BY <1>7 DEF issue, coverage
<1> HIDE DEF c
<1>9. card'.coverage = "complete" \/ card'.quality = "valid"
        => AllRead /\ card'.coverage = "complete"
  BY <1>1, <1>8, UnavailableGrounded DEF Done, Validated
<1>10. AllRead => ~stopped /\ \A i \in Included : status[i] = "processed"
  BY DEF AllRead, CardInv, ReadingSound, Included
<1>11. CompleteRead'
  BY <1>1, <1>9, <1>10 DEF CompleteRead, reading
<1>12. ReadingSound'
  BY <1>1 DEF CardInv, ReadingSound, reading, Done, HasFullText
<1>13. QED
  BY <1>6, <1>11, <1>12 DEF CardInv, CardSound

LEMMA NextCardInv == CardInv /\ [CardsNext]_cardVars => CardInv'
<1> SUFFICES ASSUME CardInv, [CardsNext]_cardVars PROVE CardInv'
  OBVIOUS
<1>1. CASE NoContent
  BY <1>1, UnavailableGrounded, AbstractSound DEF NoContent
<1>2. ASSUME NEW hits \in Hits, NEW failed \in BOOLEAN, RetrieveChunks(hits, failed)
      PROVE CardInv'
  <2>1. ReadingSound'
    BY <1>2 DEF RetrieveChunks, CardInv, ReadingSound, HasFullText
  <2>2. QED
    BY <1>2, <2>1, UnfinishedGrounded DEF RetrieveChunks, CardInv
<1>3. CASE PassChunk
  <2>1. ReadingSound'
    BY <1>3, MarkSound DEF PassChunk, CardInv, ReadingSound, Included
  <2>2. QED
    BY <1>3, <2>1, UnfinishedGrounded DEF PassChunk, CardInv
<1>4. ASSUME NEW answer \in ChunkAnswers, ReadChunk(answer) PROVE CardInv'
  <2>1. Current \in Included /\ ~stopped
    BY <1>4 DEF ReadChunk, MayAsk
  <2>2. \A f \in Fields : Accepted(answer)[f] \subseteq TextSentences
    BY <2>1 DEF Accepted, Located, TextSentences
  <2>3. quotes' \in [Fields -> SUBSET TextSentences]
    BY <1>4, <2>2 DEF ReadChunk, CardInv, ReadingSound
  <2>4. ReadingSound'
    BY <1>4, <2>1, <2>3, MarkSound DEF ReadChunk, CardInv
  <2>5. QED
    BY <1>4, <2>4, UnfinishedGrounded DEF ReadChunk, CardInv
<1>5. CASE FailChunk
  <2>1. Current \in Included
    BY <1>5 DEF FailChunk, MayAsk
  <2>2. ReadingSound'
    BY <1>5, <2>1, MarkSound DEF FailChunk, CardInv, ReadingSound
  <2>3. QED
    BY <1>5, <2>2, UnfinishedGrounded DEF FailChunk, CardInv
<1>6. CASE FinishFullText
  BY <1>6, FinishSound
<1>7. ASSUME NEW answer \in AbstractAnswers, NEW found \in SUBSET Fields,
             ReadAbstract(answer, found)
      PROVE CardInv'
  BY <1>7, ReadAbstractSound
<1>8. CASE FailAbstract
  BY <1>8, UnavailableGrounded, AbstractSound DEF FailAbstract
<1>9. CASE Interrupt
  <2>1. ReadingSound'
    BY <1>9 DEF Interrupt, CardInv, ReadingSound, reading
  <2>2. QED
    BY <1>9, <2>1, UnfinishedGrounded DEF Interrupt, CardInv
<1>10. CASE UNCHANGED cardVars
  BY <1>10 DEF cardVars, CardInv, ReadingSound, HasFullText, CardSound, Grounded, CompleteRead,
               Readable
<1>11. QED
  BY <1>1, <1>2, <1>3, <1>4, <1>5, <1>6, <1>7, <1>8, <1>9, <1>10 DEF CardsNext

(* What a card states stands in the paper, and what was not read does not  *)
(* count as read, whatever the model answers and wherever it fails         *)
(* (app/tools/extract_paper_card.py).                                      *)
THEOREM CardsAreSound == CardsSpec => []CardSound
<1>1. CardsInit => CardInv
  BY InitCardInv
<1>2. CardInv /\ [CardsNext]_cardVars => CardInv'
  BY NextCardInv
<1>3. CardInv => CardSound
  BY DEF CardInv
<1>4. QED
  BY <1>1, <1>2, <1>3, PTL DEF CardsSpec

-----------------------------------------------------------------------------
(* The plans of the texts: nothing of the index is needed for them.        *)
HIDE NoSnapshotAssumption
HIDE NoSourceAssumption
HIDE ClaimAssumption
HIDE RevisionAssumption
HIDE BatchAssumption
HIDE CountAssumption
HIDE DEF Row, PlanRows, Index!Row, Index!PlanRows

-----------------------------------------------------------------------------
(* The routes of a text                                                    *)
RouteIn(W) == [name : SUBSET W, claims : SUBSET W, labels : SUBSET SUBSET W, papers : SUBSET Cards]

LEMMA CardsFinite == IsFiniteSet(Cards)
<1>1. PaperSeq \in Seq(Range(PaperSeq)) /\ Cards \subseteq Range(PaperSeq)
  BY AllocationAssumption
<1>2. Len(PaperSeq) \in Nat /\ DOMAIN PaperSeq = 1 .. Len(PaperSeq)
  BY <1>1
<1>3. IsFiniteSet(1 .. Len(PaperSeq))
  BY <1>2, FS_Interval
<1>4. IsFiniteSet({PaperSeq[i] : i \in 1 .. Len(PaperSeq)})
  BY <1>3, FiniteImage
<1>5. Range(PaperSeq) = {PaperSeq[i] : i \in 1 .. Len(PaperSeq)}
  BY <1>2 DEF Range
<1> QED
  BY <1>1, <1>4, <1>5, FS_Subset

LEMMA SizeGrows ==
  ASSUME NEW S \in SUBSET Cards, NEW T \in SUBSET S
  PROVE  /\ IsFiniteSet(S) /\ IsFiniteSet(T) /\ Cardinality(S) \in Nat /\ Cardinality(T) \in Nat
         /\ Cardinality(T) <= Cardinality(S)
<1>1. IsFiniteSet(S)
  BY CardsFinite, FS_Subset
<1>2. IsFiniteSet(T) /\ Cardinality(T) <= Cardinality(S)
  BY <1>1, FS_Subset
<1> QED
  BY <1>1, <1>2, FS_CardinalityType

LEMMA TextFinite ==
  ASSUME NEW W, IsFiniteSet(W), NEW x \in RouteIn(W), NEW S
  PROVE  IsFiniteSet(S \cap Text(x)) /\ Cardinality(S \cap Text(x)) \in Nat
<1>1. S \cap Text(x) \in SUBSET W
  BY DEF RouteIn, Text
<1>2. IsFiniteSet(S \cap Text(x))
  BY <1>1, FS_Subset
<1> QED
  BY <1>2, FS_CardinalityType

LEMMA NearestIn ==
  ASSUME NEW W, IsFiniteSet(W), NEW routes \in Seq(RouteIn(W)), NEW extra,
         NEW among \in SUBSET DOMAIN routes, among # {}
  PROVE  Nearest(routes, extra, among) \in among
<1> DEFINE shared(i) == Cardinality(Text(extra) \cap Text(routes[i]))
           size(i) == Cardinality(routes[i].papers)
           best(i) == \A j \in among :
             \/ shared(i) > shared(j)
             \/ shared(i) = shared(j) /\ size(i) > size(j)
             \/ shared(i) = shared(j) /\ size(i) = size(j) /\ i <= j
<1>1. /\ DOMAIN routes = 1 .. Len(routes) /\ Len(routes) \in Nat
      /\ \A i \in among : routes[i] \in RouteIn(W)
  <2> HIDE DEF RouteIn
  <2> QED
    OBVIOUS
<1>2. IsFiniteSet(among)
  <2>1. IsFiniteSet(1 .. Len(routes)) /\ among \in SUBSET (1 .. Len(routes))
    BY <1>1, FS_Interval
  <2> QED
    BY <2>1, FS_Subset
<1>3. ASSUME NEW i \in among PROVE shared(i) \in Int /\ size(i) \in Int /\ -i \in Int
  <2>1. routes[i] \in RouteIn(W) /\ routes[i].papers \in SUBSET Cards
    BY <1>1 DEF RouteIn
  <2>2. shared(i) \in Nat
    BY <2>1, TextFinite
  <2>3. size(i) \in Nat
    BY <2>1, SizeGrows
  <2>4. i \in Int
    BY <1>1
  <2> QED
    BY <2>2, <2>3, <2>4
<1> HIDE DEF shared, size
<1>a. PICK a : a = [i \in among |-> shared(i)]
  OBVIOUS
<1>b. PICK b : b = [i \in among |-> size(i)]
  OBVIOUS
<1>c. PICK c : c = [i \in among |-> -i]
  OBVIOUS
<1>4. \A i \in among : a[i] \in Int /\ b[i] \in Int /\ c[i] \in Int
  BY <1>3, <1>a, <1>b, <1>c
<1>5. PICK i \in among : \A j \in among :
        \/ a[i] > a[j]
        \/ a[i] = a[j] /\ b[i] > b[j]
        \/ a[i] = a[j] /\ b[i] = b[j] /\ c[i] >= c[j]
  <2> HIDE DEF best
  <2> QED
    BY <1>2, <1>4, BestOf
<1>6. best(i)
  <2> SUFFICES ASSUME NEW j \in among
               PROVE  \/ shared(i) > shared(j)
                      \/ shared(i) = shared(j) /\ size(i) > size(j)
                      \/ shared(i) = shared(j) /\ size(i) = size(j) /\ i <= j
    OBVIOUS
  <2>1. c[i] >= c[j] => i <= j
    BY <1>1, <1>c
  <2> QED
    BY <1>5, <1>a, <1>b, <2>1
<1>7. \E x \in among : best(x)
  BY <1>6
<1>8. Nearest(routes, extra, among) = CHOOSE x \in among : best(x)
  BY DEF Nearest, shared, size
<1> HIDE DEF best
<1> QED
  BY <1>7, <1>8, Zenon

LEMMA MergedIn ==
  ASSUME NEW W, NEW x \in RouteIn(W), NEW y \in RouteIn(W)
  PROVE  Merge(x, y) \in RouteIn(W) /\ Merge(x, y).papers = x.papers \cup y.papers
  BY DEF Merge, RouteIn

LEMMA AbsorbedIn ==
  ASSUME NEW W, NEW x \in RouteIn(W), NEW title \in SUBSET W
  PROVE  Absorb(x, title) \in RouteIn(W) /\ Absorb(x, title).papers = x.papers
  BY DEF Absorb, RouteIn

(* A list of routes with one of them enlarged by more papers.              *)
Widened(routes, new, at, more) ==
  /\ DOMAIN new = DOMAIN routes
  /\ new[at].papers = routes[at].papers \cup more
  /\ \A i \in DOMAIN routes \ {at} : new[i] = routes[i]

LEMMA WidenedKeeps ==
  ASSUME NEW routes, NEW new, NEW more, NEW at \in DOMAIN routes, Widened(routes, new, at, more)
  PROVE  PapersIn(new) = PapersIn(routes) \cup more
<1>1. PapersIn(new) \subseteq PapersIn(routes) \cup more
  BY DEF PapersIn, Widened
<1>2. PapersIn(routes) \cup more \subseteq PapersIn(new)
  <2>1. ASSUME NEW i \in DOMAIN routes PROVE routes[i].papers \subseteq new[i].papers
    BY DEF Widened
  <2>2. more \subseteq new[at].papers /\ at \in DOMAIN new /\ DOMAIN new = DOMAIN routes
    BY DEF Widened
  <2> QED
    BY <2>1, <2>2 DEF PapersIn
<1> QED
  BY <1>1, <1>2

(* Enough papers to compare in each route, or in each but one.             *)
Wide(routes) == \A i \in DOMAIN routes : Cardinality(routes[i].papers) >= 2

LEMMA OverflowKeeps ==
  ASSUME NEW W, IsFiniteSet(W), NEW routes \in Seq(RouteIn(W)), NEW extra \in RouteIn(W)
  PROVE  /\ MergeOverflow(routes, extra) \in Seq(RouteIn(W))
         /\ PapersIn(MergeOverflow(routes, extra)) = PapersIn(routes) \cup extra.papers
         /\ Len(MergeOverflow(routes, extra)) = IF routes = <<>> THEN 1 ELSE Len(routes)
         /\ routes # <<>> /\ Wide(routes) => Wide(MergeOverflow(routes, extra))
<1>1. CASE routes = <<>>
  <2>1. MergeOverflow(routes, extra) = <<extra>> /\ DOMAIN routes = {}
    BY <1>1 DEF MergeOverflow
  <2>2. <<extra>> \in Seq(RouteIn(W)) /\ Len(<<extra>>) = 1 /\ DOMAIN <<extra>> = {1} /\ <<extra>>[1] = extra
    <3> HIDE DEF RouteIn
    <3> QED
      OBVIOUS
  <2> QED
    BY <1>1, <2>1, <2>2 DEF PapersIn
<1>2. CASE routes # <<>>
  <2> DEFINE at == Nearest(routes, extra, DOMAIN routes)
             x == Absorb(Merge(routes[at], extra), extra.name)
  <2>1. DOMAIN routes # {}
    BY <1>2, NotEmpty
  <2>2. at \in DOMAIN routes
    BY <2>1, NearestIn
  <2> HIDE DEF at
  <2>3. routes[at] \in RouteIn(W) /\ extra.name \in SUBSET W
    <3>1. extra.name \in SUBSET W
      BY DEF RouteIn
    <3> HIDE DEF RouteIn
    <3> QED
      BY <2>2, <3>1
  <2>4. x \in RouteIn(W) /\ x.papers = routes[at].papers \cup extra.papers
    BY <2>3, MergedIn, AbsorbedIn
  <2>5. MergeOverflow(routes, extra) = [routes EXCEPT ![at] = x]
    BY <1>2 DEF MergeOverflow, at
  <2> HIDE DEF x
  <2>n. PICK new : new = MergeOverflow(routes, extra)
    OBVIOUS
  <2>6. /\ new \in Seq(RouteIn(W)) /\ Len(new) = Len(routes)
        /\ Widened(routes, new, at, extra.papers)
        /\ PapersIn(new) = PapersIn(routes) \cup extra.papers
    <3>1. new = [routes EXCEPT ![at] = x]
      BY <2>5, <2>n
    <3>2. new \in Seq(RouteIn(W)) /\ Len(new) = Len(routes) /\ DOMAIN new = DOMAIN routes
      BY <2>2, <2>4, <3>1
    <3>3. new[at] = x /\ \A i \in DOMAIN routes \ {at} : new[i] = routes[i]
      BY <2>2, <3>1
    <3>4. Widened(routes, new, at, extra.papers)
      BY <2>4, <3>2, <3>3 DEF Widened
    <3> QED
      BY <2>2, <3>2, <3>4, WidenedKeeps
  <2>7. ASSUME Wide(routes) PROVE Wide(new)
    <3> SUFFICES ASSUME NEW i \in DOMAIN new PROVE Cardinality(new[i].papers) >= 2
      BY DEF Wide
    <3>1. i \in DOMAIN routes /\ new[i] \in RouteIn(W)
      <4> HIDE DEF RouteIn
      <4> QED
        BY <2>6 DEF Widened
    <3>2. new[i].papers \in SUBSET Cards
      BY <3>1 DEF RouteIn
    <3>3. routes[i].papers \in SUBSET new[i].papers
      BY <2>6, <3>1 DEF Widened
    <3>4. Cardinality(routes[i].papers) >= 2
      BY <2>7, <3>1 DEF Wide
    <3> QED
      BY <3>2, <3>3, <3>4, SizeGrows
  <2> QED
    BY <1>2, <2>6, <2>7, <2>n
<1> QED
  BY <1>1, <1>2

LEMMA SmallestIn ==
  ASSUME NEW W, NEW routes \in Seq(RouteIn(W)), NEW among \in SUBSET DOMAIN routes, among # {}
  PROVE  /\ \E i \in among : \A j \in among :
              LET a == Cardinality(routes[i].papers) b == Cardinality(routes[j].papers)
              IN a < b \/ (a = b /\ i <= j)
         /\ \E i \in among : \A j \in among :
              LET a == Cardinality(routes[i].papers) b == Cardinality(routes[j].papers)
              IN a < b \/ (a = b /\ i >= j)
<1> DEFINE size(i) == Cardinality(routes[i].papers)
<1>1. DOMAIN routes = 1 .. Len(routes) /\ Len(routes) \in Nat
  OBVIOUS
<1>2. IsFiniteSet(among)
  <2>1. IsFiniteSet(1 .. Len(routes)) /\ among \in SUBSET (1 .. Len(routes))
    BY <1>1, FS_Interval
  <2> QED
    BY <2>1, FS_Subset
<1>3. ASSUME NEW i \in among PROVE size(i) \in Nat /\ i \in Int
  <2>1. routes[i] \in RouteIn(W)
    OBVIOUS
  <2>2. routes[i].papers \in SUBSET Cards
    BY <2>1 DEF RouteIn
  <2> QED
    BY <1>1, <2>2, SizeGrows
<1> HIDE DEF size
<1>a. PICK a : a = [i \in among |-> -size(i)]
  OBVIOUS
<1>b. PICK b : b = [i \in among |-> i]
  OBVIOUS
<1>c. PICK c : c = [i \in among |-> -i]
  OBVIOUS
<1>4. \A i \in among : a[i] \in Int /\ b[i] \in Int /\ c[i] \in Int /\ 0 \in Int
  BY <1>3, <1>a, <1>b, <1>c
<1>5. PICK i \in among : \A j \in among :
        \/ a[i] > a[j]
        \/ a[i] = a[j] /\ c[i] > c[j]
        \/ a[i] = a[j] /\ c[i] = c[j] /\ c[i] >= c[j]
  BY <1>2, <1>4, BestOf
<1>6. PICK k \in among : \A j \in among :
        \/ a[k] > a[j]
        \/ a[k] = a[j] /\ b[k] > b[j]
        \/ a[k] = a[j] /\ b[k] = b[j] /\ b[k] >= b[j]
  BY <1>2, <1>4, BestOf
<1>7. ASSUME NEW j \in among PROVE size(i) < size(j) \/ (size(i) = size(j) /\ i <= j)
  <2>1. a[i] = -size(i) /\ a[j] = -size(j) /\ c[i] = -i /\ c[j] = -j
    BY <1>a, <1>c
  <2> QED
    BY <1>3, <1>5, <2>1
<1>8. ASSUME NEW j \in among PROVE size(k) < size(j) \/ (size(k) = size(j) /\ k >= j)
  <2>1. a[k] = -size(k) /\ a[j] = -size(j) /\ b[k] = k /\ b[j] = j
    BY <1>a, <1>b
  <2> QED
    BY <1>3, <1>6, <2>1
<1> QED
  BY <1>7, <1>8 DEF size

LEMMA LoneKeeps ==
  ASSUME NEW W, IsFiniteSet(W), NEW routes \in Seq(RouteIn(W))
  PROVE  /\ MergeLone(routes) \in Seq(RouteIn(W))
         /\ PapersIn(routes) \subseteq PapersIn(MergeLone(routes))
         /\ \/ (Len(routes) <= 1 \/ Wide(routes)) /\ MergeLone(routes) = routes
            \/ Len(MergeLone(routes)) = Len(routes) - 1
<1> DEFINE lone == {i \in DOMAIN routes : Cardinality(routes[i].papers) < 2}
<1>1. ASSUME NEW i \in DOMAIN routes PROVE routes[i] \in RouteIn(W) /\ Cardinality(routes[i].papers) \in Nat
  <2>1. routes[i] \in RouteIn(W)
    OBVIOUS
  <2>2. routes[i].papers \in SUBSET Cards
    BY <2>1 DEF RouteIn
  <2> QED
    BY <2>1, <2>2, SizeGrows
<1>2. CASE Len(routes) <= 1 \/ lone = {}
  <2>1. MergeLone(routes) = routes
    BY <1>2 DEF MergeLone
  <2>2. lone = {} => Wide(routes)
    BY <1>1 DEF Wide
  <2> QED
    BY <1>2, <2>1, <2>2
<1>3. CASE Len(routes) > 1 /\ lone # {}
  <2> DEFINE at == CHOOSE i \in lone : \A j \in lone :
                     LET a == Cardinality(routes[i].papers) b == Cardinality(routes[j].papers)
                     IN a < b \/ (a = b /\ i <= j)
             to == Nearest(routes, routes[at], DOMAIN routes \ {at})
             both == Merge(routes[to], routes[at])
             serves == \E f \in Range(Focuses) : f \cap Text(routes[at]) # {}
             x == IF serves THEN Absorb(both, routes[at].name) ELSE both
             more == [routes EXCEPT ![to] = x]
  <2>1. at \in lone
    <3>1. lone \in SUBSET DOMAIN routes /\ lone # {}
      BY <1>3
    <3> HIDE DEF lone
    <3>2. \E i \in lone : \A j \in lone :
            LET a == Cardinality(routes[i].papers) b == Cardinality(routes[j].papers)
            IN a < b \/ (a = b /\ i <= j)
      BY <3>1, SmallestIn
    <3> QED
      BY <3>2, Zenon
  <2>2. at \in DOMAIN routes
    BY <2>1
  <2>3. MergeLone(routes) = RemoveAt(more, at)
    <3>1. ~(Len(routes) <= 1 \/ lone = {})
      <4> HIDE DEF lone
      <4> QED
        BY <1>3
    <3> QED
      BY <3>1, Zenon DEF MergeLone
  <2> HIDE DEF at
  <2>4. to \in DOMAIN routes \ {at}
    <3>1. Len(routes) \in Nat /\ DOMAIN routes = 1 .. Len(routes) /\ at \in 1 .. Len(routes)
      BY <2>2
    <3>2. 1 \in DOMAIN routes \ {at} \/ 2 \in DOMAIN routes \ {at}
      BY <1>3, <3>1
    <3>3. PICK among : among = DOMAIN routes \ {at}
      OBVIOUS
    <3>4. among \in SUBSET DOMAIN routes /\ among # {}
      BY <3>2, <3>3
    <3>5. Nearest(routes, routes[at], among) \in among
      BY <3>4, NearestIn
    <3> QED
      BY <3>3, <3>5
  <2> HIDE DEF to
  <2>5. routes[to] \in RouteIn(W) /\ routes[at] \in RouteIn(W) /\ to \in DOMAIN routes
    BY <1>1, <2>2, <2>4
  <2>6. both \in RouteIn(W) /\ both.papers = routes[to].papers \cup routes[at].papers
    BY <2>5, MergedIn
  <2>7. x \in RouteIn(W) /\ x.papers = routes[to].papers \cup routes[at].papers
    <3>1. routes[at].name \in SUBSET W
      BY <2>5 DEF RouteIn
    <3> HIDE DEF both, serves
    <3>2. Absorb(both, routes[at].name) \in RouteIn(W) /\ Absorb(both, routes[at].name).papers = both.papers
      BY <2>6, <3>1, AbsorbedIn
    <3> QED
      BY <2>6, <3>2
  <2> HIDE DEF x
  <2>8. /\ more \in Seq(RouteIn(W)) /\ Len(more) = Len(routes) /\ DOMAIN more = DOMAIN routes
        /\ more[to] = x /\ \A i \in DOMAIN routes \ {to} : more[i] = routes[i]
    BY <2>5, <2>7
  <2> HIDE DEF more
  <2>n. PICK new : new = RemoveAt(more, at)
    OBVIOUS
  <2>9. /\ new \in Seq(RouteIn(W)) /\ Len(new) = Len(more) - 1
        /\ \A k \in DOMAIN more \ {at} : \E l \in DOMAIN new : new[l] = more[k]
    <3>1. at \in DOMAIN more /\ more \in Seq(RouteIn(W))
      BY <2>2, <2>8
    <3> HIDE DEF both, serves, lone
    <3>2. /\ RemoveAt(more, at) \in Seq(RouteIn(W)) /\ Len(RemoveAt(more, at)) = Len(more) - 1
          /\ \A k \in DOMAIN more \ {at} :
               \E l \in DOMAIN RemoveAt(more, at) : RemoveAt(more, at)[l] = more[k]
      BY <3>1, WithoutOne
    <3> QED
      BY <2>n, <3>2
  <2>10. ASSUME NEW k \in DOMAIN routes PROVE routes[k].papers \subseteq PapersIn(new)
    <3>1. PICK m \in DOMAIN more \ {at} : routes[k].papers \subseteq more[m].papers
      <4>1. CASE k \in {to, at}
        <5>1. to \in DOMAIN more \ {at} /\ routes[k].papers \subseteq more[to].papers
          BY <2>4, <2>7, <2>8, <4>1
        <5> QED
          BY <5>1
      <4>2. CASE k \notin {to, at}
        <5>1. k \in DOMAIN more \ {at} /\ routes[k].papers \subseteq more[k].papers
          BY <2>8, <4>2
        <5> QED
          BY <5>1
      <4> QED
        BY <4>1, <4>2
    <3>2. PICK l \in DOMAIN new : new[l] = more[m]
      BY <2>9
    <3>3. new[l].papers \subseteq PapersIn(new)
      BY DEF PapersIn
    <3> QED
      BY <3>1, <3>2, <3>3
  <2>11. PapersIn(routes) \subseteq PapersIn(new)
    BY <2>10 DEF PapersIn
  <2> QED
    BY <2>3, <2>8, <2>9, <2>11, <2>n
<1>4. Len(routes) \in Nat
  OBVIOUS
<1> QED
  BY <1>2, <1>3, <1>4

(* The routes are few enough, or wide enough, to stand next to each other. *)
Comparing(routes) == Len(routes) <= 1 \/ Wide(routes)

LEMMA ExtraKeeps ==
  ASSUME NEW W, IsFiniteSet(W), NEW routes \in Seq(RouteIn(W)), NEW max \in Nat \ {0}, Comparing(routes)
  PROVE  /\ MergeExtra(routes, max) \in Seq(RouteIn(W))
         /\ PapersIn(routes) \subseteq PapersIn(MergeExtra(routes, max))
         /\ Comparing(MergeExtra(routes, max))
         /\ \/ Len(routes) <= max /\ MergeExtra(routes, max) = routes
            \/ Len(MergeExtra(routes, max)) = Len(routes) - 1
<1>1. CASE Len(routes) <= max
  BY <1>1 DEF MergeExtra
<1>2. CASE Len(routes) > max
  <2> DEFINE at == CHOOSE i \in DOMAIN routes : \A j \in DOMAIN routes :
                     LET a == Cardinality(routes[i].papers) b == Cardinality(routes[j].papers)
                     IN a < b \/ (a = b /\ i >= j)
             rest == RemoveAt(routes, at)
  <2>1. Len(routes) \in Nat /\ DOMAIN routes = 1 .. Len(routes) /\ Len(routes) > 1 /\ 1 \in DOMAIN routes
    BY <1>2
  <2>2. at \in DOMAIN routes
    <3>1. PICK among : among = DOMAIN routes
      OBVIOUS
    <3>2. among \in SUBSET DOMAIN routes /\ among # {}
      BY <2>1, <3>1
    <3>3. \E i \in among : \A j \in among :
            LET a == Cardinality(routes[i].papers) b == Cardinality(routes[j].papers)
            IN a < b \/ (a = b /\ i >= j)
      BY <3>2, SmallestIn
    <3>4. \E i \in DOMAIN routes : \A j \in DOMAIN routes :
            LET a == Cardinality(routes[i].papers) b == Cardinality(routes[j].papers)
            IN a < b \/ (a = b /\ i >= j)
      BY <3>1, <3>3
    <3> QED
      BY <3>4, Zenon
  <2>3. MergeExtra(routes, max) = MergeOverflow(rest, routes[at])
    <3>1. ~(Len(routes) <= max)
      BY <1>2, <2>1
    <3> QED
      BY <3>1, Zenon DEF MergeExtra
  <2> HIDE DEF at
  <2>4. /\ rest \in Seq(RouteIn(W)) /\ Len(rest) = Len(routes) - 1
        /\ \A k \in DOMAIN routes \ {at} : \E l \in DOMAIN rest : rest[l] = routes[k]
        /\ \A l \in DOMAIN rest : \E k \in DOMAIN routes \ {at} : rest[l] = routes[k]
    BY <2>2, WithoutOne
  <2>5. routes[at] \in RouteIn(W)
    BY <2>2
  <2>s. PICK extra : extra = routes[at]
    OBVIOUS
  <2> HIDE DEF rest
  <2>r. PICK some : some = rest
    OBVIOUS
  <2>6. some \in Seq(RouteIn(W)) /\ extra \in RouteIn(W) /\ some # <<>>
    BY <2>1, <2>4, <2>5, <2>s, <2>r
  <2>7. /\ MergeOverflow(some, extra) \in Seq(RouteIn(W))
        /\ PapersIn(MergeOverflow(some, extra)) = PapersIn(some) \cup extra.papers
        /\ Len(MergeOverflow(some, extra)) = IF some = <<>> THEN 1 ELSE Len(some)
        /\ some # <<>> /\ Wide(some) => Wide(MergeOverflow(some, extra))
    BY <2>6, OverflowKeeps
  <2>8. Wide(some)
    <3>1. Wide(routes)
      BY <2>1 DEF Comparing
    <3> QED
      BY <2>4, <2>r, <3>1 DEF Wide
  <2>9. PapersIn(routes) \subseteq PapersIn(some) \cup extra.papers
    <3>1. ASSUME NEW k \in DOMAIN routes PROVE routes[k].papers \subseteq PapersIn(some) \cup extra.papers
      <4>1. CASE k = at
        BY <4>1, <2>s
      <4>2. CASE k # at
        <5>1. PICK l \in DOMAIN rest : rest[l] = routes[k]
          BY <2>4, <4>2
        <5>2. l \in DOMAIN some /\ some[l].papers = routes[k].papers
          BY <2>r, <5>1
        <5> QED
          BY <5>2 DEF PapersIn
      <4> QED
        BY <4>1, <4>2
    <3> QED
      BY <3>1 DEF PapersIn
  <2> QED
    BY <2>3, <2>4, <2>6, <2>7, <2>8, <2>9, <2>s, <2>r DEF Comparing
<1>3. Len(routes) \in Nat
  OBVIOUS
<1> QED
  BY <1>1, <1>2, <1>3

(* The rounds of the two loops, one list of routes after the other.        *)
PairsUp(v, routes, W) ==
  /\ v[0] = routes /\ v[Len(routes)] = Paired(routes)
  /\ \A i \in 1 .. Len(routes) : v[i] = MergeLone(v[i - 1])
  /\ \A i \in 0 .. Len(routes) : v[i] \in Seq(RouteIn(W))

LEMMA LonePairs ==
  ASSUME NEW W, IsFiniteSet(W), NEW routes \in Seq(RouteIn(W))
  PROVE  \E v : PairsUp(v, routes, W)
<1> DEFINE cs == [i \in DOMAIN routes |-> i]
           V == Seq(RouteIn(W))
           n == Len(cs)
           base == routes
           OneStep(done, c) == MergeLone(done)
           Fold(g) == g = [t \in SUBSET DOMAIN cs |->
                             IF t = {} THEN base
                             ELSE OneStep(g[t \ {Max(t)}], cs[Max(t)])]
<1>1. /\ n \in Nat /\ DOMAIN cs = 1 .. n /\ \A i \in 1 .. n : cs[i] \in Nat
  <2>1. Len(routes) \in Nat /\ DOMAIN routes = 1 .. Len(routes)
    OBVIOUS
  <2>2. [i \in DOMAIN routes |-> i] \in Seq(Nat)
    BY <2>1
  <2> QED
    BY <2>2
<1>2. base \in V
  OBVIOUS
<1>3. ASSUME NEW done \in V, NEW i \in 1 .. n PROVE OneStep(done, cs[i]) \in V
  BY LoneKeeps
<1> HIDE DEF V, n, OneStep, cs, base
<1>4. PICK R : R = [p \in (1 .. n) \X V |-> OneStep(p[2], cs[p[1]])]
  OBVIOUS
<1>5. R \in [(1 .. n) \X V -> V]
  BY <1>3, <1>4
<1>6. PICK m \in [SUBSET (1 .. n) -> V] : LeftFold(m, n, base, R)
  BY <1>1, <1>2, <1>5, LeftExists
<1>7. Fold(m)
  <2>1. ASSUME NEW t \in SUBSET (1 .. n)
        PROVE  m[t] = IF t = {} THEN base ELSE OneStep(m[t \ {Max(t)}], cs[Max(t)])
    <3>1. m[t] = IF t = {} THEN base ELSE R[<<Max(t), m[t \ {Max(t)}]>>]
      BY <1>6 DEF LeftFold
    <3>2. t # {} => Max(t) \in 1 .. n /\ m[t \ {Max(t)}] \in V
      BY <1>1, Largest
    <3> QED
      BY <1>4, <3>1, <3>2
  <2> QED
    BY <1>1, <2>1
<1>8. PICK g : g = CHOOSE h : Fold(h)
  OBVIOUS
<1>9. Fold(g)
  BY <1>7, <1>8
<1>10. Paired(routes) = g[1 .. n]
  BY <1>1, <1>8 DEF Paired, FoldLeft, MapThenFoldSet, OneStep, cs, base
<1>11. PICK v : v = [i \in 0 .. n |-> g[1 .. i]]
  OBVIOUS
<1>12. v[0] = base
  <2>1. 1 .. 0 = {} /\ 0 \in 0 .. n /\ {} \in SUBSET DOMAIN cs
    BY <1>1
  <2> QED
    BY <1>9, <1>11, <2>1
<1>13. ASSUME NEW i \in 1 .. n PROVE v[i] = OneStep(v[i - 1], cs[i])
  <2>1. 1 .. i \in SUBSET (1 .. n) /\ 1 .. i # {} /\ Max(1 .. i) = i /\ (1 .. i) \ {i} = 1 .. i - 1
    BY <1>1, MaxInterval
  <2>2. i \in 0 .. n /\ i - 1 \in 0 .. n
    BY <1>1
  <2> QED
    BY <1>1, <1>9, <1>11, <2>1, <2>2
<1>14. \A i \in 0 .. n : v[i] \in V
  <2> DEFINE G == {i \in 0 .. n : v[i] \in V}
  <2>1. 0 \in G
    BY <1>1, <1>2, <1>12
  <2>2. \A i \in 1 .. n : i - 1 \in G => i \in G
    BY <1>1, <1>3, <1>13
  <2> HIDE DEF G
  <2>3. \A i \in 0 .. n : i \in G
    BY <1>1, <2>1, <2>2, Climbs
  <2> QED
    BY <2>3 DEF G
<1>15. n \in 0 .. n /\ v[n] = Paired(routes)
  BY <1>1, <1>10, <1>11
<1>16. n = Len(routes)
  BY DEF n, cs
<1>17. /\ v[0] = base /\ v[Len(routes)] = Paired(routes)
       /\ \A i \in 1 .. Len(routes) : v[i] = OneStep(v[i - 1], cs[i])
       /\ \A i \in 0 .. Len(routes) : v[i] \in V
  BY <1>12, <1>13, <1>14, <1>15, <1>16
<1> QED
  BY <1>17 DEF OneStep, base, V, cs, PairsUp

ComparedIn(W) == {r \in Seq(RouteIn(W)) : Comparing(r)}

CutsDown(v, routes, paired, max, W) ==
  /\ v[0] = paired /\ v[Len(routes)] = Cut(routes, paired, max)
  /\ \A i \in 1 .. Len(routes) : v[i] = MergeExtra(v[i - 1], max)
  /\ \A i \in 0 .. Len(routes) : v[i] \in ComparedIn(W)

LEMMA ExtraCuts ==
  ASSUME NEW W, IsFiniteSet(W), NEW routes \in Seq(RouteIn(W)), NEW max \in Nat \ {0},
         NEW paired \in Seq(RouteIn(W)), Comparing(paired)
  PROVE  \E v : CutsDown(v, routes, paired, max, W)
<1> DEFINE cs == [i \in DOMAIN routes |-> i]
           V == ComparedIn(W)
           n == Len(cs)
           base == paired
           OneStep(done, c) == MergeExtra(done, max)
           Fold(g) == g = [t \in SUBSET DOMAIN cs |->
                             IF t = {} THEN base
                             ELSE OneStep(g[t \ {Max(t)}], cs[Max(t)])]
<1>1. /\ n \in Nat /\ DOMAIN cs = 1 .. n /\ \A i \in 1 .. n : cs[i] \in Nat
  <2>1. Len(routes) \in Nat /\ DOMAIN routes = 1 .. Len(routes)
    OBVIOUS
  <2>2. [i \in DOMAIN routes |-> i] \in Seq(Nat)
    BY <2>1
  <2> QED
    BY <2>2
<1>2. base \in V
  BY DEF ComparedIn
<1>3. ASSUME NEW done \in V, NEW i \in 1 .. n PROVE OneStep(done, cs[i]) \in V
  BY ExtraKeeps DEF ComparedIn
<1> HIDE DEF V, n, OneStep, cs, base
<1>4. PICK R : R = [p \in (1 .. n) \X V |-> OneStep(p[2], cs[p[1]])]
  OBVIOUS
<1>5. R \in [(1 .. n) \X V -> V]
  BY <1>3, <1>4
<1>6. PICK m \in [SUBSET (1 .. n) -> V] : LeftFold(m, n, base, R)
  BY <1>1, <1>2, <1>5, LeftExists
<1>7. Fold(m)
  <2>1. ASSUME NEW t \in SUBSET (1 .. n)
        PROVE  m[t] = IF t = {} THEN base ELSE OneStep(m[t \ {Max(t)}], cs[Max(t)])
    <3>1. m[t] = IF t = {} THEN base ELSE R[<<Max(t), m[t \ {Max(t)}]>>]
      BY <1>6 DEF LeftFold
    <3>2. t # {} => Max(t) \in 1 .. n /\ m[t \ {Max(t)}] \in V
      BY <1>1, Largest
    <3> QED
      BY <1>4, <3>1, <3>2
  <2> QED
    BY <1>1, <2>1
<1>8. PICK g : g = CHOOSE h : Fold(h)
  OBVIOUS
<1>9. Fold(g)
  BY <1>7, <1>8
<1>10. Cut(routes, paired, max) = g[1 .. n]
  BY <1>1, <1>8 DEF Cut, FoldLeft, MapThenFoldSet, OneStep, cs, base
<1>11. PICK v : v = [i \in 0 .. n |-> g[1 .. i]]
  OBVIOUS
<1>12. v[0] = base
  <2>1. 1 .. 0 = {} /\ 0 \in 0 .. n /\ {} \in SUBSET DOMAIN cs
    BY <1>1
  <2> QED
    BY <1>9, <1>11, <2>1
<1>13. ASSUME NEW i \in 1 .. n PROVE v[i] = OneStep(v[i - 1], cs[i])
  <2>1. 1 .. i \in SUBSET (1 .. n) /\ 1 .. i # {} /\ Max(1 .. i) = i /\ (1 .. i) \ {i} = 1 .. i - 1
    BY <1>1, MaxInterval
  <2>2. i \in 0 .. n /\ i - 1 \in 0 .. n
    BY <1>1
  <2> QED
    BY <1>1, <1>9, <1>11, <2>1, <2>2
<1>14. \A i \in 0 .. n : v[i] \in V
  <2> DEFINE G == {i \in 0 .. n : v[i] \in V}
  <2>1. 0 \in G
    BY <1>1, <1>2, <1>12
  <2>2. \A i \in 1 .. n : i - 1 \in G => i \in G
    BY <1>1, <1>3, <1>13
  <2> HIDE DEF G
  <2>3. \A i \in 0 .. n : i \in G
    BY <1>1, <2>1, <2>2, Climbs
  <2> QED
    BY <2>3 DEF G
<1>15. n \in 0 .. n /\ v[n] = Cut(routes, paired, max)
  BY <1>1, <1>10, <1>11
<1>16. n = Len(routes)
  BY DEF n, cs
<1>17. /\ v[0] = base /\ v[Len(routes)] = Cut(routes, paired, max)
       /\ \A i \in 1 .. Len(routes) : v[i] = OneStep(v[i - 1], cs[i])
       /\ \A i \in 0 .. Len(routes) : v[i] \in V
  BY <1>12, <1>13, <1>14, <1>15, <1>16
<1> QED
  BY <1>17 DEF OneStep, base, V, cs, CutsDown

LEMMA RebalancedKeeps ==
  ASSUME NEW W, IsFiniteSet(W), NEW routes \in Seq(RouteIn(W)), NEW max \in Nat \ {0}
  PROVE  /\ Rebalanced(routes, max) \in Seq(RouteIn(W))
         /\ PapersIn(routes) \subseteq PapersIn(Rebalanced(routes, max))
         /\ Len(Rebalanced(routes, max)) <= max
         /\ Comparing(Rebalanced(routes, max))
<1> DEFINE n == Len(routes)
<1>1. n \in Nat /\ DOMAIN routes = 1 .. n /\ n = Len(routes) /\ n \in 0 .. n
  OBVIOUS
<1>2. CASE n <= 1
  <2>1. Rebalanced(routes, max) = routes
    BY <1>2 DEF Rebalanced
  <2> QED
    BY <1>1, <1>2, <2>1 DEF Comparing
<1>3. CASE n > 1
  <2>1. Rebalanced(routes, max) = Cut(routes, Paired(routes), max)
    BY <1>1, <1>3 DEF Rebalanced
  <2>2. PICK v : /\ v[0] = routes /\ v[Len(routes)] = Paired(routes)
                 /\ \A i \in 1 .. Len(routes) : v[i] = MergeLone(v[i - 1])
                 /\ \A i \in 0 .. Len(routes) : v[i] \in Seq(RouteIn(W))
    <3>1. PICK v : PairsUp(v, routes, W)
      BY LonePairs
    <3> QED
      BY <3>1 DEF PairsUp
  <2> HIDE DEF n
  <2> DEFINE Good == {i \in 0 .. n : /\ PapersIn(routes) \subseteq PapersIn(v[i])
                                     /\ Comparing(v[i]) \/ Len(v[i]) <= n - i}
  <2>3. 0 \in Good
    BY <1>1, <2>2 DEF n
  <2>4. ASSUME NEW i \in 1 .. n, i - 1 \in Good PROVE i \in Good
    <3>1. i - 1 \in 0 .. n /\ i \in 0 .. n /\ i \in Int
      BY <1>1
    <3>2. v[i - 1] \in Seq(RouteIn(W)) /\ v[i] = MergeLone(v[i - 1])
      BY <1>1, <2>2, <3>1
    <3>r. PICK r \in Seq(RouteIn(W)) : r = v[i - 1]
      BY <3>2
    <3>3. /\ MergeLone(r) \in Seq(RouteIn(W))
          /\ PapersIn(r) \subseteq PapersIn(MergeLone(r))
          /\ \/ (Len(r) <= 1 \/ Wide(r)) /\ MergeLone(r) = r
             \/ Len(MergeLone(r)) = Len(r) - 1
      BY LoneKeeps
    <3>4. PapersIn(routes) \subseteq PapersIn(r) /\ (Comparing(r) \/ Len(r) <= n - (i - 1))
      BY <2>4, <3>r
    <3>5. Len(r) \in Nat /\ Len(MergeLone(r)) \in Nat
      BY <3>3
    <3>6. Comparing(MergeLone(r)) \/ Len(MergeLone(r)) <= n - i
      <4>1. CASE Len(MergeLone(r)) = Len(r) - 1
        <5>1. CASE Len(r) <= n - (i - 1)
          BY <1>1, <3>1, <3>5, <4>1, <5>1
        <5>2. CASE Len(r) <= 1
          BY <3>5, <4>1, <5>2 DEF Comparing
        <5>3. CASE Wide(r) /\ ~(Len(r) <= 1)
          <6>1. MergeLone(r) = r
            <7>1. {k \in DOMAIN r : Cardinality(r[k].papers) < 2} = {}
              <8>1. \A k \in DOMAIN r : Cardinality(r[k].papers) >= 2 /\ Cardinality(r[k].papers) \in Nat
                <9>1. ASSUME NEW k \in DOMAIN r PROVE Cardinality(r[k].papers) \in Nat
                  <10>1. r[k] \in RouteIn(W)
                    OBVIOUS
                  <10>2. r[k].papers \in SUBSET Cards
                    BY <10>1 DEF RouteIn
                  <10> QED
                    BY <10>2, SizeGrows
                <9> QED
                  BY <5>3, <9>1 DEF Wide
              <8> QED
                BY <8>1
            <7> QED
              BY <7>1, Zenon DEF MergeLone
          <6> QED
            BY <3>5, <4>1, <6>1
        <5> QED
          BY <3>4, <5>1, <5>2, <5>3 DEF Comparing
      <4>2. CASE Comparing(r) /\ MergeLone(r) = r
        BY <4>2
      <4> QED
        BY <3>3, <4>1, <4>2 DEF Comparing
    <3> QED
      BY <3>1, <3>2, <3>r, <3>3, <3>4, <3>6
  <2> HIDE DEF Good
  <2>5. n \in Good
    <3>1. \A i \in 0 .. n : i \in Good
      BY <1>1, <2>3, <2>4, Climbs
    <3> QED
      BY <1>1, <3>1
  <2>p. PICK paired : paired = Paired(routes)
    OBVIOUS
  <2>6. paired \in Seq(RouteIn(W)) /\ PapersIn(routes) \subseteq PapersIn(paired) /\ Comparing(paired)
    <3>1. v[n] = paired /\ v[n] \in Seq(RouteIn(W))
      BY <1>1, <2>2, <2>p
    <3>2. PapersIn(routes) \subseteq PapersIn(v[n]) /\ (Comparing(v[n]) \/ Len(v[n]) <= n - n)
      BY <2>5 DEF Good
    <3>3. Len(v[n]) <= n - n => Len(v[n]) <= 1
      BY <1>1, <3>1
    <3> QED
      BY <3>1, <3>2, <3>3 DEF Comparing
  <2>7. PICK w : /\ w[0] = paired /\ w[Len(routes)] = Cut(routes, paired, max)
                 /\ \A i \in 1 .. Len(routes) : w[i] = MergeExtra(w[i - 1], max)
                 /\ \A i \in 0 .. Len(routes) : w[i] \in ComparedIn(W)
    <3>1. PICK w : CutsDown(w, routes, paired, max, W)
      BY <2>6, ExtraCuts
    <3> QED
      BY <3>1 DEF CutsDown
  <2>8. Len(paired) <= n
    <3> DEFINE Short == {i \in 0 .. n : Len(v[i]) <= n}
    <3>1. 0 \in Short
      BY <1>1, <2>2 DEF n
    <3>2. ASSUME NEW i \in 1 .. n, i - 1 \in Short PROVE i \in Short
      <4>1. i - 1 \in 0 .. n /\ i \in 0 .. n
        BY <1>1
      <4>2. v[i - 1] \in Seq(RouteIn(W)) /\ v[i] = MergeLone(v[i - 1])
        BY <1>1, <2>2, <4>1
      <4>r. PICK r \in Seq(RouteIn(W)) : r = v[i - 1]
        BY <4>2
      <4>3. MergeLone(r) = r \/ Len(MergeLone(r)) = Len(r) - 1
        BY LoneKeeps
      <4>4. Len(r) \in Nat /\ Len(r) <= n
        BY <3>2, <4>r
      <4>5. Len(MergeLone(r)) <= n
        BY <1>1, <4>3, <4>4
      <4> QED
        BY <4>1, <4>2, <4>r, <4>5
    <3> HIDE DEF Short
    <3>3. \A i \in 0 .. n : i \in Short
      BY <1>1, <3>1, <3>2, Climbs
    <3> QED
      BY <1>1, <2>2, <2>p, <3>3 DEF Short
  <2> DEFINE Fewer == {i \in 0 .. n : /\ PapersIn(routes) \subseteq PapersIn(w[i])
                                      /\ Len(w[i]) <= max \/ Len(w[i]) <= n - i}
  <2>9. 0 \in Fewer
    BY <1>1, <2>6, <2>7, <2>8
  <2>10. ASSUME NEW i \in 1 .. n, i - 1 \in Fewer PROVE i \in Fewer
    <3>1. i - 1 \in 0 .. n /\ i \in 0 .. n /\ i \in Int
      BY <1>1
    <3>2. w[i - 1] \in Seq(RouteIn(W)) /\ Comparing(w[i - 1]) /\ w[i] = MergeExtra(w[i - 1], max)
      BY <1>1, <2>7, <3>1 DEF ComparedIn
    <3>r. PICK r \in Seq(RouteIn(W)) : r = w[i - 1] /\ Comparing(r)
      BY <3>2
    <3>3. /\ MergeExtra(r, max) \in Seq(RouteIn(W))
          /\ PapersIn(r) \subseteq PapersIn(MergeExtra(r, max))
          /\ \/ Len(r) <= max /\ MergeExtra(r, max) = r
             \/ Len(MergeExtra(r, max)) = Len(r) - 1
      BY <3>r, ExtraKeeps
    <3>4. PapersIn(routes) \subseteq PapersIn(r) /\ (Len(r) <= max \/ Len(r) <= n - (i - 1))
      BY <2>10, <3>r
    <3>5. Len(r) \in Nat /\ Len(MergeExtra(r, max)) \in Nat
      BY <3>3
    <3>6. Len(MergeExtra(r, max)) <= max \/ Len(MergeExtra(r, max)) <= n - i
      BY <1>1, <3>1, <3>3, <3>4, <3>5
    <3> QED
      BY <3>1, <3>2, <3>r, <3>3, <3>4, <3>6
  <2> HIDE DEF Fewer
  <2>11. n \in Fewer
    <3>1. \A i \in 0 .. n : i \in Fewer
      BY <1>1, <2>9, <2>10, Climbs
    <3> QED
      BY <1>1, <3>1
  <2>12. w[n] \in Seq(RouteIn(W)) /\ Comparing(w[n]) /\ w[n] = Rebalanced(routes, max)
    BY <1>1, <2>1, <2>7, <2>p DEF ComparedIn
  <2>13. PapersIn(routes) \subseteq PapersIn(w[n]) /\ (Len(w[n]) <= max \/ Len(w[n]) <= n - n)
    BY <2>11 DEF Fewer
  <2>14. Len(w[n]) <= n - n => Len(w[n]) <= max
    BY <1>1, <2>12
  <2> QED
    BY <2>12, <2>13, <2>14
<1> QED
  BY <1>1, <1>2, <1>3

-----------------------------------------------------------------------------
(* The routes the frame requires, and how many routes there may be.        *)
Grouped(group, W) == group.name \in SUBSET W /\ group.papers \in SUBSET Cards

LEMMA OfFour ==
  ASSUME NEW a \in Int, NEW b \in Int, NEW c \in Int, NEW d \in Int
  PROVE  Max({a, b, c, d}) \in {a, b, c, d} /\ Max({a, b, c, d}) >= a
<1>1. PICK S : S = {a, b, c, d}
  OBVIOUS
<1>2. PICK f : f = [i \in 1 .. 4 |-> IF i = 1 THEN a ELSE IF i = 2 THEN b ELSE IF i = 3 THEN c ELSE d]
  OBVIOUS
<1>3. S = {f[i] : i \in 1 .. 4}
  <2>1. f[1] = a /\ f[2] = b /\ f[3] = c /\ f[4] = d
    BY <1>2
  <2>2. 1 .. 4 = {1, 2, 3, 4}
    OBVIOUS
  <2> QED
    BY <1>1, <2>1, <2>2
<1>4. IsFiniteSet(1 .. 4)
  <2>1. \A m \in Nat : IsFiniteSet(1 .. m)
    BY FS_Interval
  <2> QED
    BY <2>1
<1>5. IsFiniteSet(S)
  BY <1>3, <1>4, FiniteImage
<1>6. S \subseteq Int /\ S # {} /\ a \in S
  BY <1>1
<1>7. Max(S) \in S /\ Max(S) >= a
  BY <1>5, <1>6, FiniteExtremes
<1> QED
  BY <1>1, <1>7

LEMMA Capped ==
  ASSUME NEW max \in Nat \ {0}, NEW b \in Int, NEW c \in Int, NEW d \in Int
  PROVE  Min({max, Max({1, b, c, d})}) \in Nat \ {0} /\ Min({max, Max({1, b, c, d})}) <= max
<1>1. PICK m : m = Max({1, b, c, d})
  OBVIOUS
<1>2. m \in Int /\ m >= 1
  BY <1>1, OfFour
<1>3. Min({max, m}) \in {max, m} /\ Min({max, m}) <= max
  BY <1>2, OfTwo
<1> QED
  BY <1>1, <1>2, <1>3

LEMMA MostRoutes ==
  ASSUME NEW max \in Nat \ {0}, NEW evidence \in Nat, NEW R, NEW required \in Seq(R)
  PROVE  MaxRoutes(max, evidence, required) \in Nat \ {0} /\ MaxRoutes(max, evidence, required) <= max
<1>1. CASE evidence = 0
  BY <1>1 DEF MaxRoutes
<1>2. CASE evidence # 0
  <2>1. PICK b \in Int, c \in Int, d \in Int :
          b = Len(required) /\ c = Len(Focuses) /\ d = evidence \div Comparable
    <3>1. Len(required) \in Int /\ Len(Focuses) \in Int
      BY OutlineAssumption
    <3>2. evidence \div Comparable \in Int
      BY OutlineAssumption
    <3> QED
      BY <3>1, <3>2
  <2>2. MaxRoutes(max, evidence, required) = Min({max, Max({1, b, c, d})})
    BY <1>2, <2>1 DEF MaxRoutes
  <2>3. Min({max, Max({1, b, c, d})}) \in Nat \ {0} /\ Min({max, Max({1, b, c, d})}) <= max
    BY Capped
  <2> QED
    BY <2>2, <2>3
<1> QED
  BY <1>1, <1>2

LEMMA RequiredIn ==
  ASSUME NEW W, NEW group, Grouped(group, W), NEW themes \in Seq(RouteIn(W))
  PROVE  RequiredRoute(group, themes) \in RouteIn(W)
<1> DEFINE shared(i) == Cardinality(themes[i].papers \cap group.papers)
           near == {i \in DOMAIN themes : shared(i) > 0}
           best == CHOOSE i \in near : \A j \in near :
                     shared(i) > shared(j) \/ (shared(i) = shared(j) /\ i <= j)
           backing == IF near = {} THEN {} ELSE themes[best].claims
<1>1. DOMAIN themes = 1 .. Len(themes) /\ Len(themes) \in Nat
  OBVIOUS
<1>2. ASSUME NEW i \in DOMAIN themes
      PROVE  themes[i] \in RouteIn(W) /\ themes[i].claims \in SUBSET W /\ shared(i) \in Nat /\ i \in Int
  <2>1. themes[i] \in RouteIn(W)
    OBVIOUS
  <2>2. themes[i].papers \in SUBSET Cards /\ themes[i].claims \in SUBSET W
    BY <2>1 DEF RouteIn
  <2>3. themes[i].papers \cap group.papers \in SUBSET Cards
    BY <2>2
  <2>4. shared(i) \in Nat
    BY <2>3, SizeGrows
  <2> QED
    BY <1>1, <2>1, <2>2, <2>4
<1>3. ASSUME near # {} PROVE best \in near
  <2>1. IsFiniteSet(near) /\ near \subseteq Int
    <3>1. IsFiniteSet(1 .. Len(themes)) /\ near \in SUBSET (1 .. Len(themes))
      BY <1>1, FS_Interval
    <3>2. 1 .. Len(themes) \subseteq Int
      BY <1>1
    <3> HIDE DEF near
    <3>3. IsFiniteSet(near)
      BY <3>1, FS_Subset
    <3> QED
      BY <3>1, <3>2, <3>3
  <2>2. \A i \in near : shared(i) \in Int
    BY <1>2
  <2> HIDE DEF near, shared
  <2>f. PICK f : f = [i \in near |-> shared(i)]
    OBVIOUS
  <2>3. \E x \in near : \A y \in near : f[x] > f[y] \/ (f[x] = f[y] /\ x <= y)
    <3>1. \A x \in near : f[x] \in Int
      BY <2>2, <2>f
    <3> QED
      BY <1>3, <2>1, <3>1, BestPlaced
  <2>4. \E i \in near : \A j \in near : shared(i) > shared(j) \/ (shared(i) = shared(j) /\ i <= j)
    BY <2>3, <2>f
  <2> QED
    BY <2>4, Zenon
<1>4. backing \in SUBSET W
  <2>1. CASE near = {}
    BY <2>1
  <2>2. CASE near # {}
    <3>1. best \in DOMAIN themes
      BY <1>3, <2>2
    <3> HIDE DEF best
    <3>2. themes[best].claims \in SUBSET W
      BY <1>2, <3>1
    <3> HIDE DEF near
    <3> QED
      BY <2>2, <3>2
  <2> QED
    BY <2>1, <2>2
<1>5. RequiredRoute(group, themes) =
        [name |-> group.name, papers |-> group.papers, labels |-> {}, claims |-> backing]
  BY DEF RequiredRoute
<1> HIDE DEF backing
<1>6. group.name \in SUBSET W /\ group.papers \in SUBSET Cards
  BY DEF Grouped
<1> QED
  BY <1>4, <1>5, <1>6 DEF RouteIn

LEMMA RequiredRoutesIn ==
  ASSUME NEW W, NEW G, \A g \in G : Grouped(g, W), NEW demands \in Seq(G),
         NEW themes \in Seq(RouteIn(W))
  PROVE  RequiredRoutes(demands, themes) \in Seq(RouteIn(W))
<1> DEFINE I == {i \in DOMAIN demands : demands[i].papers # {}}
           met == Entries(demands, I)
<1>1. met \in Seq(G)
  <2>1. I \in SUBSET DOMAIN demands
    OBVIOUS
  <2> HIDE DEF I
  <2> QED
    BY <2>1, EntriesAt
<1>2. RequiredRoutes(demands, themes) = [i \in DOMAIN met |-> RequiredRoute(met[i], themes)]
  BY DEF RequiredRoutes
<1> HIDE DEF met
<1>3. Len(met) \in Nat /\ DOMAIN met = 1 .. Len(met)
  BY <1>1
<1>4. ASSUME NEW i \in 1 .. Len(met) PROVE RequiredRoute(met[i], themes) \in RouteIn(W)
  <2>1. met[i] \in G
    BY <1>1, <1>3
  <2>2. Grouped(met[i], W)
    BY <2>1
  <2> QED
    BY <2>2, RequiredIn
<1>r. PICK r : r = RequiredRoutes(demands, themes)
  OBVIOUS
<1>5. r = [i \in 1 .. Len(met) |-> r[i]] /\ \A i \in 1 .. Len(met) : r[i] \in RouteIn(W)
  BY <1>2, <1>3, <1>4, <1>r
<1>6. r \in Seq(RouteIn(W))
  BY <1>3, <1>5, ListOf
<1> QED
  BY <1>6, <1>r

-----------------------------------------------------------------------------
(* The required routes, each taken as it is, attached to a theme or put    *)
(* off: the themes keep their papers.                                      *)
AttachedIn(W, themes) ==
  {d \in [pool : Seq(RouteIn(W)), selected : Seq(RouteIn(W)), deferred : Seq(RouteIn(W))] :
     /\ DOMAIN d.pool = DOMAIN themes
     /\ \A i \in DOMAIN themes : themes[i].papers \subseteq d.pool[i].papers}

LEMMA AttachOne ==
  ASSUME NEW W, NEW themes, NEW done \in AttachedIn(W, themes), NEW route \in RouteIn(W)
  PROVE  Attach(done, route) \in AttachedIn(W, themes)
<1> DEFINE places == DOMAIN done.pool
           shared(i) == Cardinality(done.pool[i].papers \cap route.papers)
           best == CHOOSE i \in places : \A j \in places :
                     shared(i) > shared(j) \/ (shared(i) = shared(j) /\ i >= j)
           x == Absorb(Merge(done.pool[best], route), route.name)
           Large == Cardinality(route.papers) >= Comparable
           Near == \E i \in places : shared(i) > 0
<1>1. PICK pool \in Seq(RouteIn(W)), picked \in Seq(RouteIn(W)), deferred \in Seq(RouteIn(W)) :
        done = [pool |-> pool, selected |-> picked, deferred |-> deferred]
  <2>1. done \in [pool : Seq(RouteIn(W)), selected : Seq(RouteIn(W)), deferred : Seq(RouteIn(W))]
    BY DEF AttachedIn
  <2> HIDE DEF RouteIn
  <2> QED
    BY <2>1
<1>2. DOMAIN pool = DOMAIN themes /\ \A i \in DOMAIN themes : themes[i].papers \subseteq pool[i].papers
  BY <1>1 DEF AttachedIn
<1>3. Append(picked, route) \in Seq(RouteIn(W)) /\ Append(deferred, route) \in Seq(RouteIn(W))
  OBVIOUS
<1>4. CASE Large
  <2>1. Attach(done, route) = [pool |-> pool, selected |-> Append(picked, route), deferred |-> deferred]
    BY <1>1, <1>4 DEF Attach
  <2> QED
    BY <1>2, <1>3, <2>1 DEF AttachedIn
<1>5. CASE ~Large /\ ~Near
  <2>1. Attach(done, route) = [done EXCEPT !.deferred = Append(@, route)]
    BY <1>5, Zenon DEF Attach
  <2>2. Attach(done, route) = [pool |-> pool, selected |-> picked, deferred |-> Append(deferred, route)]
    BY <1>1, <2>1
  <2> QED
    BY <1>2, <1>3, <2>2 DEF AttachedIn
<1>6. CASE ~Large /\ Near
  <2>1. Attach(done, route) = [done EXCEPT !.pool[best] = Absorb(Merge(@, route), route.name)]
    BY <1>6, Zenon DEF Attach
  <2>2. best \in places
    <3>1. places = 1 .. Len(pool) /\ Len(pool) \in Nat /\ done.pool = pool
      BY <1>1
    <3>2. \A i \in places : shared(i) \in Int
      <4> TAKE i \in places
      <4>1. pool[i] \in RouteIn(W)
        BY <3>1
      <4>2. pool[i].papers \cap route.papers \in SUBSET Cards
        BY <4>1 DEF RouteIn
      <4> QED
        BY <3>1, <4>2, SizeGrows
    <3>3. places # {}
      BY <1>6
    <3> HIDE DEF places, shared
    <3>4. IsFiniteSet(places) /\ places \subseteq Int
      BY <3>1, FS_Interval
    <3>f. PICK f : f = [i \in places |-> shared(i)]
      OBVIOUS
    <3>p. PICK S : S = places
      OBVIOUS
    <3>5. \E i \in S : \A j \in S : f[i] > f[j] \/ (f[i] = f[j] /\ i >= j)
      <4>1. \A i \in S : f[i] \in Int
        BY <3>2, <3>f, <3>p
      <4> QED
        BY <3>3, <3>4, <3>p, <4>1, BestPlaced
    <3>6. \E i \in places : \A j \in places : shared(i) > shared(j) \/ (shared(i) = shared(j) /\ i >= j)
      BY <3>5, <3>f, <3>p
    <3> QED
      BY <3>6, Zenon
  <2>3. best \in DOMAIN pool
    BY <1>1, <2>2
  <2>4. x = Absorb(Merge(pool[best], route), route.name)
    BY <1>1
  <2> HIDE DEF best
  <2>5. pool[best] \in RouteIn(W) /\ route.name \in SUBSET W
    <3>1. route.name \in SUBSET W
      BY DEF RouteIn
    <3>2. pool[best] \in RouteIn(W)
      BY <2>3
    <3> QED
      BY <3>1, <3>2
  <2>6. x \in RouteIn(W) /\ pool[best].papers \subseteq x.papers
    <3> HIDE DEF x
    <3>1. Merge(pool[best], route) \in RouteIn(W)
          /\ Merge(pool[best], route).papers = pool[best].papers \cup route.papers
      BY <2>5, MergedIn
    <3>2. x \in RouteIn(W) /\ x.papers = Merge(pool[best], route).papers
      BY <2>4, <2>5, <3>1, AbsorbedIn
    <3> QED
      BY <3>1, <3>2
  <2>7. Attach(done, route) =
          [pool |-> [pool EXCEPT ![best] = x], selected |-> picked, deferred |-> deferred]
    BY <1>1, <2>1, <2>4
  <2> HIDE DEF x
  <2>n. PICK new : new = [pool EXCEPT ![best] = x]
    OBVIOUS
  <2>8. /\ new \in Seq(RouteIn(W)) /\ DOMAIN new = DOMAIN pool
        /\ new[best] = x /\ \A i \in DOMAIN pool \ {best} : new[i] = pool[i]
    <3> HIDE DEF RouteIn
    <3> QED
      BY <2>3, <2>6, <2>n
  <2>9. \A i \in DOMAIN themes : themes[i].papers \subseteq new[i].papers
    BY <1>2, <2>6, <2>8
  <2>10. Attach(done, route) = [pool |-> new, selected |-> picked, deferred |-> deferred]
    BY <2>7, <2>n
  <2> QED
    BY <1>2, <2>8, <2>9, <2>10 DEF AttachedIn
<1> QED
  BY <1>4, <1>5, <1>6

LEMMA AttachedKeeps ==
  ASSUME NEW W, NEW themes \in Seq(RouteIn(W)), NEW required \in Seq(RouteIn(W))
  PROVE  Attached(required, themes) \in AttachedIn(W, themes)
<1> DEFINE cs == required
           V == AttachedIn(W, themes)
           n == Len(cs)
           base == [pool |-> themes, selected |-> <<>>, deferred |-> <<>>]
           OneStep(done, c) == Attach(done, c)
           Fold(g) == g = [t \in SUBSET DOMAIN cs |->
                             IF t = {} THEN base
                             ELSE OneStep(g[t \ {Max(t)}], cs[Max(t)])]
<1>1. /\ n \in Nat /\ DOMAIN cs = 1 .. n /\ \A i \in 1 .. n : cs[i] \in RouteIn(W)
  OBVIOUS
<1>2. base \in V
  BY DEF AttachedIn
<1>3. ASSUME NEW done \in V, NEW c \in RouteIn(W) PROVE OneStep(done, c) \in V
  BY AttachOne
<1> HIDE DEF V, n, OneStep, cs, base
<1>4. PICK R : R = [p \in (1 .. n) \X V |-> OneStep(p[2], cs[p[1]])]
  OBVIOUS
<1>5. R \in [(1 .. n) \X V -> V]
  BY <1>1, <1>3, <1>4
<1>6. PICK m \in [SUBSET (1 .. n) -> V] : LeftFold(m, n, base, R)
  BY <1>1, <1>2, <1>5, LeftExists
<1>7. Fold(m)
  <2>1. ASSUME NEW t \in SUBSET (1 .. n)
        PROVE  m[t] = IF t = {} THEN base ELSE OneStep(m[t \ {Max(t)}], cs[Max(t)])
    <3>1. m[t] = IF t = {} THEN base ELSE R[<<Max(t), m[t \ {Max(t)}]>>]
      BY <1>6 DEF LeftFold
    <3>2. t # {} => Max(t) \in 1 .. n /\ m[t \ {Max(t)}] \in V
      BY <1>1, Largest
    <3> QED
      BY <1>4, <3>1, <3>2
  <2> QED
    BY <1>1, <2>1
<1>8. PICK g : g = CHOOSE h : Fold(h)
  OBVIOUS
<1>9. Fold(g)
  BY <1>7, <1>8
<1>10. Attached(required, themes) = g[1 .. n]
  BY <1>1, <1>8 DEF Attached, FoldLeft, MapThenFoldSet, OneStep, cs, base
<1>11. g[{}] \in V
  <2>1. {} \in SUBSET DOMAIN cs
    OBVIOUS
  <2> QED
    BY <1>2, <1>9, <2>1
<1>12. ASSUME NEW t \in SUBSET (1 .. n), t # {}, g[t \ {Max(t)}] \in V PROVE g[t] \in V
  <2>1. Max(t) \in 1 .. n /\ cs[Max(t)] \in RouteIn(W)
    BY <1>1, <1>12, Largest
  <2>2. g[t] = OneStep(g[t \ {Max(t)}], cs[Max(t)])
    BY <1>1, <1>9, <1>12
  <2> QED
    BY <1>3, <1>12, <2>1, <2>2
<1>13. g[1 .. n] \in V
  BY <1>1, <1>11, <1>12, LeftStays
<1> QED
  BY <1>10, <1>13 DEF V


-----------------------------------------------------------------------------
(* What a list of sets gathers, one set after the other.                   *)
Gathers(H, P, n) == \A i \in 1 .. n : H[i - 1] \cup P[i] \subseteq H[i]

LEMMA GathersAll ==
  ASSUME NEW n \in Nat, NEW H, NEW P, Gathers(H, P, n)
  PROVE  H[0] \subseteq H[n] /\ \A i \in 1 .. n : P[i] \subseteq H[n]
<1> DEFINE G == {i \in 0 .. n : H[0] \subseteq H[i] /\ \A j \in 1 .. n : j <= i => P[j] \subseteq H[i]}
<1>1. 0 \in G
  OBVIOUS
<1>2. ASSUME NEW i \in 1 .. n, i - 1 \in G PROVE i \in G
  <2>1. H[i - 1] \subseteq H[i] /\ P[i] \subseteq H[i]
    BY DEF Gathers
  <2>2. ASSUME NEW j \in 1 .. n, j <= i PROVE P[j] \subseteq H[i]
    <3>1. j = i \/ j <= i - 1
      BY <2>2
    <3> QED
      BY <1>2, <2>1, <3>1
  <2> QED
    BY <1>2, <2>1, <2>2
<1> HIDE DEF G
<1>3. n \in G
  BY <1>1, <1>2, Climbs
<1> QED
  BY <1>3 DEF G

(* The places of the pool in the order they are tried.                     *)
LEMMA BySizeAll ==
  ASSUME NEW W, NEW pool \in Seq(RouteIn(W))
  PROVE  /\ BySize(pool) \in Seq(DOMAIN pool)
         /\ \A i \in DOMAIN pool : \E k \in DOMAIN BySize(pool) : BySize(pool)[k] = i
<1> DEFINE S == DOMAIN pool
           size(i) == Cardinality(pool[i].papers)
           before == {x \in S \X S : \/ size(x[1]) > size(x[2])
                                     \/ size(x[1]) = size(x[2]) /\ x[1] < x[2]}
<1>1. S = 1 .. Len(pool) /\ Len(pool) \in Nat
  OBVIOUS
<1>2. ASSUME NEW i \in S PROVE size(i) \in Int
  <2>1. pool[i] \in RouteIn(W)
    BY <1>1
  <2>2. pool[i].papers \in SUBSET Cards
    BY <2>1 DEF RouteIn
  <2> QED
    BY <2>2, SizeGrows
<1>3. BySize(pool) = Arranged(S, before)
  BY DEF BySize
<1> HIDE DEF S, size
<1>s. PICK T : T = S
  OBVIOUS
<1>f. PICK f : f = [i \in T |-> size(i)]
  OBVIOUS
<1>4. before = {x \in T \X T : \/ f[x[1]] > f[x[2]]
                               \/ f[x[1]] = f[x[2]] /\ x[1] < x[2]}
  BY <1>f, <1>s
<1> HIDE DEF before
<1>b. PICK sorted : sorted = before
  OBVIOUS
<1>5. T \subseteq Int /\ IsFiniteSet(T) /\ \A i \in T : f[i] \in Int
  BY <1>1, <1>2, <1>f, <1>s, FS_Interval
<1>6. Orders(sorted, T)
  BY <1>4, <1>5, <1>b, OrderByOne
<1>7. Arranges(Arranged(T, sorted), T, sorted)
  BY <1>5, <1>6, ArrangedOrder
<1>8. Arranges(BySize(pool), S, sorted)
  BY <1>3, <1>7, <1>b, <1>s
<1>9. PICK arranged, n : arranged = BySize(pool) /\ n = Cardinality(S)
  OBVIOUS
<1>10. /\ n \in Nat /\ arranged \in [1 .. n -> S]
       /\ \A i \in S : \E k \in 1 .. n : arranged[k] = i
  BY <1>8, <1>9 DEF Arranges
<1>11. arranged \in Seq(S) /\ DOMAIN arranged = 1 .. n
  BY <1>10
<1> QED
  BY <1>9, <1>10, <1>11 DEF S

-----------------------------------------------------------------------------
(* The themes taken one by one: the papers of each are in a route, or in   *)
(* one that was too many.                                                  *)
TakenIn(W) == {d \in [routes : Seq(RouteIn(W)), over : Seq(RouteIn(W)), papers : SUBSET Cards] :
                 d.papers \subseteq PapersIn(d.routes)}
HeldBy(d) == d.papers \cup PapersIn(d.over)

LEMMA OneMore ==
  ASSUME NEW W, NEW routes \in Seq(RouteIn(W)), NEW route \in RouteIn(W)
  PROVE  /\ Append(routes, route) \in Seq(RouteIn(W))
         /\ PapersIn(Append(routes, route)) = PapersIn(routes) \cup route.papers
<1> DEFINE new == Append(routes, route)
<1>1. /\ new \in Seq(RouteIn(W)) /\ DOMAIN new = 1 .. Len(routes) + 1 /\ Len(routes) \in Nat
      /\ DOMAIN routes = 1 .. Len(routes)
      /\ new[Len(routes) + 1] = route /\ \A i \in DOMAIN routes : new[i] = routes[i]
  <2> HIDE DEF RouteIn
  <2> QED
    OBVIOUS
<1> HIDE DEF new
<1>2. PapersIn(new) \subseteq PapersIn(routes) \cup route.papers
  <2> SUFFICES ASSUME NEW i \in DOMAIN new PROVE new[i].papers \subseteq PapersIn(routes) \cup route.papers
    BY DEF PapersIn
  <2>1. i = Len(routes) + 1 \/ i \in DOMAIN routes
    BY <1>1
  <2> QED
    BY <1>1, <2>1 DEF PapersIn
<1>3. \A i \in DOMAIN routes : i \in DOMAIN new /\ new[i] = routes[i]
  BY <1>1
<1>4. Len(routes) + 1 \in DOMAIN new
  BY <1>1
<1>5. PapersIn(routes) \cup route.papers \subseteq PapersIn(new)
  BY <1>1, <1>3, <1>4 DEF PapersIn
<1> QED
  BY <1>1, <1>2, <1>5 DEF new

LEMMA TakeOne ==
  ASSUME NEW W, NEW done \in TakenIn(W), NEW route \in RouteIn(W), NEW max \in Nat
  PROVE  /\ Take(done, route, max) \in TakenIn(W)
         /\ HeldBy(done) \cup route.papers \subseteq HeldBy(Take(done, route, max))
<1>1. PICK routes \in Seq(RouteIn(W)), over \in Seq(RouteIn(W)), papers \in SUBSET Cards :
        done = [routes |-> routes, over |-> over, papers |-> papers]
  <2>1. done \in [routes : Seq(RouteIn(W)), over : Seq(RouteIn(W)), papers : SUBSET Cards]
    BY DEF TakenIn
  <2> HIDE DEF RouteIn
  <2> QED
    BY <2>1
<1>2. papers \subseteq PapersIn(routes) /\ HeldBy(done) = papers \cup PapersIn(over)
  BY <1>1 DEF TakenIn, HeldBy
<1>3. /\ Append(routes, route) \in Seq(RouteIn(W)) /\ Append(over, route) \in Seq(RouteIn(W))
      /\ PapersIn(Append(routes, route)) = PapersIn(routes) \cup route.papers
      /\ PapersIn(Append(over, route)) = PapersIn(over) \cup route.papers
  BY OneMore
<1>4. route.papers \in SUBSET Cards
  BY DEF RouteIn
<1>5. CASE route.papers \subseteq papers
  <2>1. Take(done, route, max) = done
    BY <1>1, <1>5 DEF Take
  <2> QED
    BY <1>2, <1>5, <2>1
<1>6. CASE ~(route.papers \subseteq papers) /\ Len(routes) >= max
  <2>1. Take(done, route, max) = [routes |-> routes, over |-> Append(over, route), papers |-> papers]
    BY <1>1, <1>6 DEF Take
  <2> QED
    BY <1>2, <1>3, <2>1 DEF TakenIn, HeldBy
<1>7. CASE ~(route.papers \subseteq papers) /\ ~(Len(routes) >= max)
  <2>p. PICK all : all = papers \cup route.papers
    OBVIOUS
  <2>n. PICK new : new = Append(routes, route)
    OBVIOUS
  <2>1. Take(done, route, max) = [routes |-> new, over |-> over, papers |-> all]
    BY <1>1, <1>7, <2>p, <2>n DEF Take
  <2>2. new \in Seq(RouteIn(W)) /\ PapersIn(new) = PapersIn(routes) \cup route.papers
    BY <1>3, <2>n
  <2>3. all \in SUBSET Cards /\ all \subseteq PapersIn(new)
    BY <1>2, <1>4, <2>2, <2>p
  <2>4. Take(done, route, max) \in TakenIn(W)
    BY <2>1, <2>2, <2>3 DEF TakenIn
  <2>5. HeldBy(Take(done, route, max)) = all \cup PapersIn(over)
    BY <2>1 DEF HeldBy
  <2> QED
    BY <1>2, <2>4, <2>5, <2>p
<1> QED
  BY <1>5, <1>6, <1>7

Takes(v, attached, max, W) ==
  /\ v[0] = [routes |-> attached.selected, over |-> <<>>, papers |-> PapersIn(attached.selected)] /\ v[Len(BySize(attached.pool))] = TakeAll(attached, max)
  /\ \A i \in 1 .. Len(BySize(attached.pool)) : v[i] = Take(v[i - 1], attached.pool[BySize(attached.pool)[i]], max)
  /\ \A i \in 0 .. Len(BySize(attached.pool)) : v[i] \in TakenIn(W)

LEMMA TakesAll ==
  ASSUME NEW W, NEW attached, attached.pool \in Seq(RouteIn(W)),
         attached.selected \in Seq(RouteIn(W)), NEW max \in Nat
  PROVE  \E v : Takes(v, attached, max, W)
<1> DEFINE cs == BySize(attached.pool)
           V == TakenIn(W)
           n == Len(cs)
           base == [routes |-> attached.selected, over |-> <<>>, papers |-> PapersIn(attached.selected)]
           OneStep(done, c) == Take(done, attached.pool[c], max)
           Fold(g) == g = [t \in SUBSET DOMAIN cs |->
                             IF t = {} THEN base
                             ELSE OneStep(g[t \ {Max(t)}], cs[Max(t)])]
<1>1. /\ n \in Nat /\ DOMAIN cs = 1 .. n /\ \A i \in 1 .. n : cs[i] \in DOMAIN attached.pool
  BY BySizeAll
<1>2. base \in V
  <2>1. PapersIn(attached.selected) \in SUBSET Cards
    <3> SUFFICES ASSUME NEW i \in DOMAIN attached.selected PROVE attached.selected[i].papers \subseteq Cards
      BY DEF PapersIn
    <3>1. attached.selected[i] \in RouteIn(W)
      OBVIOUS
    <3> QED
      BY <3>1 DEF RouteIn
  <2> QED
    BY <2>1 DEF TakenIn
<1>3. ASSUME NEW done \in V, NEW i \in 1 .. n PROVE OneStep(done, cs[i]) \in V
  <2>1. cs[i] \in DOMAIN attached.pool
    BY <1>1
  <2>2. attached.pool[cs[i]] \in RouteIn(W)
    BY <2>1
  <2> HIDE DEF cs
  <2> QED
    BY <2>2, TakeOne
<1> HIDE DEF V, n, OneStep, cs, base
<1>4. PICK R : R = [p \in (1 .. n) \X V |-> OneStep(p[2], cs[p[1]])]
  OBVIOUS
<1>5. R \in [(1 .. n) \X V -> V]
  BY <1>3, <1>4
<1>6. PICK m \in [SUBSET (1 .. n) -> V] : LeftFold(m, n, base, R)
  BY <1>1, <1>2, <1>5, LeftExists
<1>7. Fold(m)
  <2>1. ASSUME NEW t \in SUBSET (1 .. n)
        PROVE  m[t] = IF t = {} THEN base ELSE OneStep(m[t \ {Max(t)}], cs[Max(t)])
    <3>1. m[t] = IF t = {} THEN base ELSE R[<<Max(t), m[t \ {Max(t)}]>>]
      BY <1>6 DEF LeftFold
    <3>2. t # {} => Max(t) \in 1 .. n /\ m[t \ {Max(t)}] \in V
      BY <1>1, Largest
    <3> QED
      BY <1>4, <3>1, <3>2
  <2> QED
    BY <1>1, <2>1
<1>8. PICK g : g = CHOOSE h : Fold(h)
  OBVIOUS
<1>9. Fold(g)
  BY <1>7, <1>8
<1>10. TakeAll(attached, max) = g[1 .. n]
  BY <1>1, <1>8 DEF TakeAll, FoldLeft, MapThenFoldSet, OneStep, cs, base
<1>11. PICK v : v = [i \in 0 .. n |-> g[1 .. i]]
  OBVIOUS
<1>12. v[0] = base
  <2>1. 1 .. 0 = {} /\ 0 \in 0 .. n /\ {} \in SUBSET DOMAIN cs
    BY <1>1
  <2> QED
    BY <1>9, <1>11, <2>1
<1>13. ASSUME NEW i \in 1 .. n PROVE v[i] = OneStep(v[i - 1], cs[i])
  <2>1. 1 .. i \in SUBSET (1 .. n) /\ 1 .. i # {} /\ Max(1 .. i) = i /\ (1 .. i) \ {i} = 1 .. i - 1
    BY <1>1, MaxInterval
  <2>2. i \in 0 .. n /\ i - 1 \in 0 .. n
    BY <1>1
  <2> QED
    BY <1>1, <1>9, <1>11, <2>1, <2>2
<1>14. \A i \in 0 .. n : v[i] \in V
  <2> DEFINE G == {i \in 0 .. n : v[i] \in V}
  <2>1. 0 \in G
    BY <1>1, <1>2, <1>12
  <2>2. \A i \in 1 .. n : i - 1 \in G => i \in G
    BY <1>1, <1>3, <1>13
  <2> HIDE DEF G
  <2>3. \A i \in 0 .. n : i \in G
    BY <1>1, <2>1, <2>2, Climbs
  <2> QED
    BY <2>3 DEF G
<1>15. n \in 0 .. n /\ v[n] = TakeAll(attached, max)
  BY <1>1, <1>10, <1>11
<1>16. n = Len(BySize(attached.pool))
  BY DEF n, cs
<1>17. /\ v[0] = base /\ v[Len(BySize(attached.pool))] = TakeAll(attached, max)
       /\ \A i \in 1 .. Len(BySize(attached.pool)) : v[i] = OneStep(v[i - 1], cs[i])
       /\ \A i \in 0 .. Len(BySize(attached.pool)) : v[i] \in V
  BY <1>12, <1>13, <1>14, <1>15, <1>16
<1> QED
  BY <1>17 DEF OneStep, base, V, cs, Takes

LEMMA TakeAllKeeps ==
  ASSUME NEW W, NEW attached, attached.pool \in Seq(RouteIn(W)),
         attached.selected \in Seq(RouteIn(W)), NEW max \in Nat
  PROVE  /\ TakeAll(attached, max) \in TakenIn(W)
         /\ PapersIn(attached.pool) \subseteq HeldBy(TakeAll(attached, max))
<1> DEFINE sorted == BySize(attached.pool)
           n == Len(sorted)
<1>1. PICK v : Takes(v, attached, max, W)
  BY TakesAll
<1>2. /\ sorted \in Seq(DOMAIN attached.pool) /\ n \in Nat /\ DOMAIN sorted = 1 .. n
      /\ \A i \in DOMAIN attached.pool : \E k \in 1 .. n : sorted[k] = i
  <2>1. PICK pool : pool = attached.pool
    OBVIOUS
  <2>2. /\ BySize(pool) \in Seq(DOMAIN pool)
        /\ \A i \in DOMAIN pool : \E k \in DOMAIN BySize(pool) : BySize(pool)[k] = i
    BY <2>1, BySizeAll
  <2>3. /\ sorted \in Seq(DOMAIN attached.pool)
        /\ \A i \in DOMAIN attached.pool : \E k \in DOMAIN sorted : sorted[k] = i
    BY <2>1, <2>2
  <2> HIDE DEF sorted
  <2>4. n \in Nat /\ DOMAIN sorted = 1 .. n
    BY <2>3
  <2> QED
    BY <2>3, <2>4
<1>3. /\ v[n] = TakeAll(attached, max) /\ v[n] \in TakenIn(W)
      /\ \A i \in 1 .. n : v[i] = Take(v[i - 1], attached.pool[sorted[i]], max)
      /\ \A i \in 0 .. n : v[i] \in TakenIn(W)
  BY <1>1, <1>2 DEF Takes
<1>h. PICK H : H = [i \in 0 .. n |-> HeldBy(v[i])]
  OBVIOUS
<1>p. PICK P : P = [i \in 1 .. n |-> attached.pool[sorted[i]].papers]
  OBVIOUS
<1>4. Gathers(H, P, n)
  <2> SUFFICES ASSUME NEW i \in 1 .. n PROVE H[i - 1] \cup P[i] \subseteq H[i]
    BY DEF Gathers
  <2>1. i - 1 \in 0 .. n /\ i \in 0 .. n
    BY <1>2
  <2>2. v[i - 1] \in TakenIn(W)
    BY <1>3, <2>1
  <2>3. attached.pool[sorted[i]] \in RouteIn(W)
    <3>1. sorted[i] \in DOMAIN attached.pool
      BY <1>2
    <3> HIDE DEF sorted
    <3> QED
      BY <3>1
  <2>4. HeldBy(v[i - 1]) \cup attached.pool[sorted[i]].papers \subseteq HeldBy(v[i])
    BY <1>3, <2>2, <2>3, TakeOne
  <2> QED
    BY <1>h, <1>p, <2>1, <2>4
<1> HIDE DEF n, sorted
<1>5. \A i \in 1 .. n : P[i] \subseteq H[n]
  BY <1>2, <1>4, GathersAll
<1>6. n \in 0 .. n
  BY <1>2
<1>7. H[n] = HeldBy(TakeAll(attached, max))
  BY <1>3, <1>6, <1>h
<1>8. ASSUME NEW i \in DOMAIN attached.pool
      PROVE  attached.pool[i].papers \subseteq HeldBy(TakeAll(attached, max))
  <2>1. PICK k \in 1 .. n : sorted[k] = i
    BY <1>2
  <2> QED
    BY <1>5, <1>7, <1>p, <2>1
<1> QED
  BY <1>3, <1>8 DEF PapersIn

LEMMA JoinedPapers ==
  ASSUME NEW W, NEW u \in Seq(RouteIn(W)), NEW w \in Seq(RouteIn(W))
  PROVE  u \o w \in Seq(RouteIn(W)) /\ PapersIn(u) \cup PapersIn(w) \subseteq PapersIn(u \o w)
<1>1. /\ u \o w \in Seq(RouteIn(W)) /\ Len(u \o w) = Len(u) + Len(w)
      /\ Len(u) \in Nat /\ Len(w) \in Nat
      /\ \A i \in 1 .. Len(u) : (u \o w)[i] = u[i]
      /\ \A i \in 1 .. Len(w) : (u \o w)[Len(u) + i] = w[i]
  <2> HIDE DEF RouteIn
  <2> QED
    OBVIOUS
<1>2. DOMAIN u = 1 .. Len(u) /\ DOMAIN w = 1 .. Len(w) /\ DOMAIN (u \o w) = 1 .. Len(u) + Len(w)
  BY <1>1
<1>3. PICK all : all = u \o w
  OBVIOUS
<1>4. ASSUME NEW i \in DOMAIN u PROVE u[i].papers \subseteq PapersIn(all)
  <2>1. i \in DOMAIN all /\ all[i] = u[i]
    BY <1>1, <1>2, <1>3
  <2> QED
    BY <2>1 DEF PapersIn
<1>5. ASSUME NEW i \in DOMAIN w PROVE w[i].papers \subseteq PapersIn(all)
  <2>1. Len(u) + i \in DOMAIN all /\ all[Len(u) + i] = w[i]
    BY <1>1, <1>2, <1>3
  <2> QED
    BY <2>1 DEF PapersIn
<1>6. PapersIn(u) \cup PapersIn(w) \subseteq PapersIn(all)
  BY <1>4, <1>5 DEF PapersIn
<1> QED
  BY <1>1, <1>3, <1>6

LEMMA LateIn ==
  ASSUME NEW max \in Nat, NEW l \in Nat, NEW d \in Nat
  PROVE  LET late == Min({Max({0, max - l}), d}) IN late \in Nat /\ late <= d
<1>1. PICK m \in Int : m = max - l
  OBVIOUS
<1>2. PICK room : room = Max({0, max - l})
  OBVIOUS
<1>3. room \in Nat
  <2>1. 0 \in Int /\ room = Max({0, m})
    BY <1>1, <1>2
  <2>2. room \in {0, m} /\ room >= 0
    BY <2>1, OfTwo
  <2> QED
    BY <1>1, <2>2
<1>4. PICK late : late = Min({room, d})
  OBVIOUS
<1>5. late \in Nat /\ late <= d
  BY <1>3, <1>4, OfTwo
<1> QED
  BY <1>2, <1>4, <1>5

LEMMA FilledKeeps ==
  ASSUME NEW W, NEW attached \in [pool : Seq(RouteIn(W)), selected : Seq(RouteIn(W)),
                                  deferred : Seq(RouteIn(W))],
         NEW max \in Nat
  PROVE  /\ Filled(attached, max).routes \in Seq(RouteIn(W))
         /\ Filled(attached, max).over \in Seq(RouteIn(W))
         /\ PapersIn(attached.pool) \subseteq
              PapersIn(Filled(attached, max).routes) \cup PapersIn(Filled(attached, max).over)
<1>1. /\ attached.pool \in Seq(RouteIn(W)) /\ attached.selected \in Seq(RouteIn(W))
      /\ attached.deferred \in Seq(RouteIn(W))
  <2> HIDE DEF RouteIn
  <2> QED
    OBVIOUS
<1>2. PICK taken : taken = TakeAll(attached, max)
  OBVIOUS
<1>3. taken \in TakenIn(W) /\ PapersIn(attached.pool) \subseteq HeldBy(taken)
  BY <1>1, <1>2, TakeAllKeeps
<1>4. PICK routes \in Seq(RouteIn(W)), over \in Seq(RouteIn(W)) :
        /\ taken.routes = routes /\ taken.over = over
        /\ HeldBy(taken) \subseteq PapersIn(routes) \cup PapersIn(over)
  BY <1>3 DEF TakenIn, HeldBy
<1> DEFINE deferred == attached.deferred
           room == Max({0, max - Len(routes)})
           late == Min({room, Len(deferred)})
           early == SubSeq(deferred, 1, late)
           rest == SubSeq(deferred, late + 1, Len(deferred))
<1>5. Filled(attached, max) = [routes |-> routes \o early, over |-> over \o rest]
  BY <1>2, <1>4 DEF Filled
<1>6. late \in Nat /\ late <= Len(deferred)
  <2>1. Len(routes) \in Nat /\ Len(deferred) \in Nat
    BY <1>1
  <2> HIDE DEF deferred
  <2>2. PICK l : l = Len(routes)
    OBVIOUS
  <2>3. PICK d : d = Len(deferred)
    OBVIOUS
  <2> QED
    BY <2>1, <2>2, <2>3, LateIn DEF late, room
<1>7. early \in Seq(RouteIn(W)) /\ rest \in Seq(RouteIn(W))
  <2> HIDE DEF late, RouteIn
  <2> QED
    BY <1>1, <1>6
<1> HIDE DEF early, rest
<1>8. /\ routes \o early \in Seq(RouteIn(W)) /\ PapersIn(routes) \subseteq PapersIn(routes \o early)
      /\ over \o rest \in Seq(RouteIn(W)) /\ PapersIn(over) \subseteq PapersIn(over \o rest)
  BY <1>7, JoinedPapers
<1> QED
  BY <1>3, <1>4, <1>5, <1>8

-----------------------------------------------------------------------------
(* The routes that were too many, merged one by one.                       *)
Overflows(v, routes, over, W) ==
  /\ v[0] = routes /\ v[Len(over)] = FoldLeft(MergeOverflow, routes, over)
  /\ \A i \in 1 .. Len(over) : v[i] = MergeOverflow(v[i - 1], over[i])
  /\ \A i \in 0 .. Len(over) : v[i] \in Seq(RouteIn(W))

LEMMA OverflowsAll ==
  ASSUME NEW W, IsFiniteSet(W), NEW routes \in Seq(RouteIn(W)), NEW over \in Seq(RouteIn(W))
  PROVE  \E v : Overflows(v, routes, over, W)
<1> DEFINE cs == over
           V == Seq(RouteIn(W))
           n == Len(cs)
           base == routes
           OneStep(done, c) == MergeOverflow(done, c)
           Fold(g) == g = [t \in SUBSET DOMAIN cs |->
                             IF t = {} THEN base
                             ELSE OneStep(g[t \ {Max(t)}], cs[Max(t)])]
<1>1. /\ n \in Nat /\ DOMAIN cs = 1 .. n /\ \A i \in 1 .. n : cs[i] \in RouteIn(W)
  OBVIOUS
<1>2. base \in V
  OBVIOUS
<1>3. ASSUME NEW done \in V, NEW i \in 1 .. n PROVE OneStep(done, cs[i]) \in V
  BY <1>1, OverflowKeeps
<1> HIDE DEF V, n, OneStep, cs, base
<1>4. PICK R : R = [p \in (1 .. n) \X V |-> OneStep(p[2], cs[p[1]])]
  OBVIOUS
<1>5. R \in [(1 .. n) \X V -> V]
  BY <1>3, <1>4
<1>6. PICK m \in [SUBSET (1 .. n) -> V] : LeftFold(m, n, base, R)
  BY <1>1, <1>2, <1>5, LeftExists
<1>7. Fold(m)
  <2>1. ASSUME NEW t \in SUBSET (1 .. n)
        PROVE  m[t] = IF t = {} THEN base ELSE OneStep(m[t \ {Max(t)}], cs[Max(t)])
    <3>1. m[t] = IF t = {} THEN base ELSE R[<<Max(t), m[t \ {Max(t)}]>>]
      BY <1>6 DEF LeftFold
    <3>2. t # {} => Max(t) \in 1 .. n /\ m[t \ {Max(t)}] \in V
      BY <1>1, Largest
    <3> QED
      BY <1>4, <3>1, <3>2
  <2> QED
    BY <1>1, <2>1
<1>8. PICK g : g = CHOOSE h : Fold(h)
  OBVIOUS
<1>9. Fold(g)
  BY <1>7, <1>8
<1>10. FoldLeft(MergeOverflow, routes, over) = g[1 .. n]
  BY <1>1, <1>8 DEF FoldLeft, MapThenFoldSet, OneStep, cs, base
<1>11. PICK v : v = [i \in 0 .. n |-> g[1 .. i]]
  OBVIOUS
<1>12. v[0] = base
  <2>1. 1 .. 0 = {} /\ 0 \in 0 .. n /\ {} \in SUBSET DOMAIN cs
    BY <1>1
  <2> QED
    BY <1>9, <1>11, <2>1
<1>13. ASSUME NEW i \in 1 .. n PROVE v[i] = OneStep(v[i - 1], cs[i])
  <2>1. 1 .. i \in SUBSET (1 .. n) /\ 1 .. i # {} /\ Max(1 .. i) = i /\ (1 .. i) \ {i} = 1 .. i - 1
    BY <1>1, MaxInterval
  <2>2. i \in 0 .. n /\ i - 1 \in 0 .. n
    BY <1>1
  <2> QED
    BY <1>1, <1>9, <1>11, <2>1, <2>2
<1>14. \A i \in 0 .. n : v[i] \in V
  <2> DEFINE G == {i \in 0 .. n : v[i] \in V}
  <2>1. 0 \in G
    BY <1>1, <1>2, <1>12
  <2>2. \A i \in 1 .. n : i - 1 \in G => i \in G
    BY <1>1, <1>3, <1>13
  <2> HIDE DEF G
  <2>3. \A i \in 0 .. n : i \in G
    BY <1>1, <2>1, <2>2, Climbs
  <2> QED
    BY <2>3 DEF G
<1>15. n \in 0 .. n /\ v[n] = FoldLeft(MergeOverflow, routes, over)
  BY <1>1, <1>10, <1>11
<1>16. n = Len(over)
  BY DEF n, cs
<1>17. /\ v[0] = base /\ v[Len(over)] = FoldLeft(MergeOverflow, routes, over)
       /\ \A i \in 1 .. Len(over) : v[i] = OneStep(v[i - 1], cs[i])
       /\ \A i \in 0 .. Len(over) : v[i] \in V
  BY <1>12, <1>13, <1>14, <1>15, <1>16
<1> QED
  BY <1>17 DEF OneStep, base, V, cs, Overflows

LEMMA OverflowsKeep ==
  ASSUME NEW W, IsFiniteSet(W), NEW routes \in Seq(RouteIn(W)), NEW over \in Seq(RouteIn(W))
  PROVE  /\ FoldLeft(MergeOverflow, routes, over) \in Seq(RouteIn(W))
         /\ PapersIn(routes) \cup PapersIn(over) \subseteq PapersIn(FoldLeft(MergeOverflow, routes, over))
<1>1. PICK v : Overflows(v, routes, over, W)
  BY OverflowsAll
<1>n. PICK n : n = Len(over)
  OBVIOUS
<1>2. n \in Nat /\ DOMAIN over = 1 .. n
  BY <1>n
<1>3. /\ v[0] = routes /\ v[n] = FoldLeft(MergeOverflow, routes, over)
      /\ \A i \in 1 .. n : v[i] = MergeOverflow(v[i - 1], over[i])
      /\ \A i \in 0 .. n : v[i] \in Seq(RouteIn(W))
  BY <1>1, <1>n DEF Overflows
<1>h. PICK H : H = [i \in 0 .. n |-> PapersIn(v[i])]
  OBVIOUS
<1>p. PICK P : P = [i \in 1 .. n |-> over[i].papers]
  OBVIOUS
<1>4. Gathers(H, P, n)
  <2> SUFFICES ASSUME NEW i \in 1 .. n PROVE H[i - 1] \cup P[i] \subseteq H[i]
    BY DEF Gathers
  <2>1. i - 1 \in 0 .. n /\ i \in 0 .. n
    BY <1>2
  <2>2. v[i - 1] \in Seq(RouteIn(W)) /\ over[i] \in RouteIn(W)
    BY <1>2, <1>3, <2>1
  <2>3. PapersIn(v[i]) = PapersIn(v[i - 1]) \cup over[i].papers
    <3>1. PICK some, one : some = v[i - 1] /\ one = over[i]
      OBVIOUS
    <3>2. some \in Seq(RouteIn(W)) /\ one \in RouteIn(W) /\ v[i] = MergeOverflow(some, one)
      BY <1>3, <2>2, <3>1
    <3>3. PapersIn(MergeOverflow(some, one)) = PapersIn(some) \cup one.papers
      BY <3>2, OverflowKeeps
    <3> QED
      BY <3>1, <3>2, <3>3
  <2> QED
    BY <1>h, <1>p, <2>1, <2>3
<1>5. H[0] \subseteq H[n] /\ \A i \in 1 .. n : P[i] \subseteq H[n]
  BY <1>2, <1>4, GathersAll
<1>6. n \in 0 .. n /\ 0 \in 0 .. n
  BY <1>2
<1>7. H[n] = PapersIn(v[n]) /\ H[0] = PapersIn(routes)
  BY <1>3, <1>6, <1>h
<1>8. PapersIn(over) \subseteq H[n]
  BY <1>2, <1>5, <1>p DEF PapersIn
<1> QED
  BY <1>3, <1>5, <1>6, <1>7, <1>8

LEMMA FromRequiredKeeps ==
  ASSUME NEW W, IsFiniteSet(W), NEW required \in Seq(RouteIn(W)), NEW themes \in Seq(RouteIn(W)),
         NEW max \in Nat
  PROVE  /\ FromRequired(required, themes, max) \in Seq(RouteIn(W))
         /\ PapersIn(themes) \subseteq PapersIn(FromRequired(required, themes, max))
<1>1. PICK attached : attached = Attached(required, themes)
  OBVIOUS
<1>2. attached \in AttachedIn(W, themes)
  BY <1>1, AttachedKeeps
<1>3. /\ attached \in [pool : Seq(RouteIn(W)), selected : Seq(RouteIn(W)), deferred : Seq(RouteIn(W))]
      /\ PapersIn(themes) \subseteq PapersIn(attached.pool)
  BY <1>2 DEF AttachedIn, PapersIn
<1>4. PICK filled : filled = Filled(attached, max)
  OBVIOUS
<1>5. /\ filled.routes \in Seq(RouteIn(W)) /\ filled.over \in Seq(RouteIn(W))
      /\ PapersIn(attached.pool) \subseteq PapersIn(filled.routes) \cup PapersIn(filled.over)
  BY <1>3, <1>4, FilledKeeps
<1>6. FromRequired(required, themes, max) = FoldLeft(MergeOverflow, filled.routes, filled.over)
  BY <1>1, <1>4 DEF FromRequired
<1>7. PICK routes, over : routes = filled.routes /\ over = filled.over
  OBVIOUS
<1>8. /\ FoldLeft(MergeOverflow, routes, over) \in Seq(RouteIn(W))
      /\ PapersIn(routes) \cup PapersIn(over) \subseteq PapersIn(FoldLeft(MergeOverflow, routes, over))
  BY <1>5, <1>7, OverflowsKeep
<1> QED
  BY <1>3, <1>5, <1>6, <1>7, <1>8

-----------------------------------------------------------------------------
(* The themes by rank, those chosen, and those that are not.               *)
LEMMA RankedAll ==
  ASSUME NEW W, IsFiniteSet(W), NEW themes \in Seq(RouteIn(W))
  PROVE  /\ Ranked(themes) \in Seq(DOMAIN themes)
         /\ \A i \in DOMAIN themes : \E k \in DOMAIN Ranked(themes) : Ranked(themes)[k] = i
<1> DEFINE S == DOMAIN themes
           focus == TopicWords \cup UNION Range(Focuses)
           shared(i) == Cardinality(focus \cap Text(themes[i]))
           size(i) == Cardinality(themes[i].papers)
           before == {x \in S \X S :
             \/ shared(x[1]) > shared(x[2])
             \/ shared(x[1]) = shared(x[2]) /\ size(x[1]) > size(x[2])
             \/ shared(x[1]) = shared(x[2]) /\ size(x[1]) = size(x[2]) /\ x[1] < x[2]}
<1>1. S = 1 .. Len(themes) /\ Len(themes) \in Nat
  OBVIOUS
<1>2. ASSUME NEW i \in S PROVE size(i) \in Int /\ shared(i) \in Int
  <2>1. themes[i] \in RouteIn(W)
    BY <1>1
  <2>2. themes[i].papers \in SUBSET Cards
    BY <2>1 DEF RouteIn
  <2>3. shared(i) \in Nat
    BY <2>1, TextFinite
  <2> QED
    BY <2>2, <2>3, SizeGrows
<1>3. Ranked(themes) = Arranged(S, before)
  BY DEF Ranked
<1> HIDE DEF S, size, shared
<1>s. PICK T : T = S
  OBVIOUS
<1>f. PICK f : f = [i \in T |-> shared(i)]
  OBVIOUS
<1>g. PICK g : g = [i \in T |-> size(i)]
  OBVIOUS
<1>4. before = {x \in T \X T :
             \/ f[x[1]] > f[x[2]]
             \/ f[x[1]] = f[x[2]] /\ g[x[1]] > g[x[2]]
             \/ f[x[1]] = f[x[2]] /\ g[x[1]] = g[x[2]] /\ x[1] < x[2]}
  BY <1>f, <1>g, <1>s
<1> HIDE DEF before
<1>b. PICK sorted : sorted = before
  OBVIOUS
<1>5. T \subseteq Int /\ IsFiniteSet(T) /\ \A i \in T : f[i] \in Int /\ g[i] \in Int
  BY <1>1, <1>2, <1>f, <1>g, <1>s, FS_Interval
<1>6. Orders(sorted, T)
  <2>1. ByTwo(sorted, T, f, g)
    BY <1>4, <1>b, Zenon DEF ByTwo
  <2>2. T \subseteq Int /\ \A i \in T : f[i] \in Int /\ g[i] \in Int
    BY <1>5
  <2> QED
    BY <2>1, <2>2, OrderByTwo
<1>7. Arranges(Arranged(T, sorted), T, sorted)
  BY <1>5, <1>6, ArrangedOrder
<1>8. Arranges(Ranked(themes), S, sorted)
  BY <1>3, <1>7, <1>b, <1>s
<1> QED
  BY <1>8 DEF Arranges, S

LEMMA UnchosenRest ==
  ASSUME NEW W, IsFiniteSet(W), NEW themes \in Seq(RouteIn(W)), NEW chosen
  PROVE  /\ Unchosen(themes, chosen) \in Seq(DOMAIN themes)
         /\ \A i \in DOMAIN themes \ Range(chosen) :
              \E k \in DOMAIN Unchosen(themes, chosen) : Unchosen(themes, chosen)[k] = i
<1>1. PICK sorted : sorted = Ranked(themes)
  OBVIOUS
<1>2. sorted \in Seq(DOMAIN themes) /\ \A i \in DOMAIN themes : \E k \in DOMAIN sorted : sorted[k] = i
  BY <1>1, RankedAll
<1>3. PICK I \in SUBSET DOMAIN sorted : I = {k \in DOMAIN sorted : sorted[k] \notin Range(chosen)}
  OBVIOUS
<1>4. Unchosen(themes, chosen) = Entries(sorted, I)
  BY <1>1, <1>3 DEF Unchosen
<1>5. PICK X : X = DOMAIN themes
  OBVIOUS
<1>6. sorted \in Seq(X)
  BY <1>2, <1>5
<1>7. Entries(sorted, I) \in Seq(X) /\ \E at : Selects(Entries(sorted, I), sorted, I, at)
  BY <1>6, EntriesAt
<1>8. PICK at : Selects(Entries(sorted, I), sorted, I, at)
  BY <1>7
<1>9. ASSUME NEW i \in DOMAIN themes \ Range(chosen)
      PROVE  \E k \in DOMAIN Entries(sorted, I) : Entries(sorted, I)[k] = i
  <2>1. PICK l \in DOMAIN sorted : sorted[l] = i
    BY <1>2
  <2>2. l \in I
    BY <1>3, <2>1
  <2> QED
    BY <1>8, <2>1, <2>2 DEF Selects
<1> QED
  BY <1>4, <1>5, <1>7, <1>9

LEMMA OneForFocus ==
  ASSUME NEW W, IsFiniteSet(W), NEW themes \in Seq(RouteIn(W)), NEW max \in Nat,
         NEW done \in Seq(DOMAIN themes), NEW focus
  PROVE  ForFocus(themes, max, done, focus) \in Seq(DOMAIN themes)
<1> DEFINE open == DOMAIN themes \ Range(done)
           shared(i) == Cardinality(focus \cap Text(themes[i]))
           best == CHOOSE i \in open : \A j \in open :
                     shared(i) > shared(j) \/ (shared(i) = shared(j) /\ i >= j)
           Kept == Len(done) >= max \/ \A i \in open : shared(i) = 0
<1>1. CASE Kept
  <2>1. ForFocus(themes, max, done, focus) = done
    BY <1>1, Zenon DEF ForFocus
  <2> QED
    BY <2>1
<1>2. CASE ~Kept
  <2>1. ForFocus(themes, max, done, focus) = Append(done, best)
    BY <1>2, Zenon DEF ForFocus
  <2>2. best \in open
    <3>1. DOMAIN themes = 1 .. Len(themes) /\ Len(themes) \in Nat
      OBVIOUS
    <3>2. \A i \in open : shared(i) \in Int
      <4> TAKE i \in open
      <4>1. themes[i] \in RouteIn(W)
        BY <3>1
      <4>2. shared(i) \in Nat
        BY <4>1, TextFinite
      <4> QED
        BY <4>2
    <3>3. open # {} /\ open \subseteq Int
      BY <1>2, <3>1
    <3>4. IsFiniteSet(open)
      <4>1. PICK T : T = DOMAIN themes
        OBVIOUS
      <4>2. IsFiniteSet(T) /\ open \in SUBSET T
        BY <3>1, <4>1, FS_Interval
      <4> HIDE DEF open
      <4> QED
        BY <4>2, FS_Subset
    <3> HIDE DEF open, shared
    <3>f. PICK f : f = [i \in open |-> shared(i)]
      OBVIOUS
    <3>p. PICK S : S = open
      OBVIOUS
    <3>5. \E i \in S : \A j \in S : f[i] > f[j] \/ (f[i] = f[j] /\ i >= j)
      <4>1. \A i \in S : f[i] \in Int
        BY <3>2, <3>f, <3>p
      <4> QED
        BY <3>3, <3>4, <3>p, <4>1, BestPlaced
    <3>6. \E i \in open : \A j \in open : shared(i) > shared(j) \/ (shared(i) = shared(j) /\ i >= j)
      BY <3>5, <3>f, <3>p
    <3> QED
      BY <3>6, Zenon
  <2> HIDE DEF best
  <2>3. best \in DOMAIN themes
    BY <2>2
  <2> QED
    BY <2>1, <2>3
<1> QED
  BY <1>1, <1>2

LEMMA ForFocusesIn ==
  ASSUME NEW W, IsFiniteSet(W), NEW themes \in Seq(RouteIn(W)), NEW max \in Nat
  PROVE  ForFocuses(themes, max) \in Seq(DOMAIN themes)
<1> DEFINE cs == Focuses
           V == Seq(DOMAIN themes)
           n == Len(cs)
           base == <<>>
           OneStep(done, c) == ForFocus(themes, max, done, c)
           Fold(g) == g = [t \in SUBSET DOMAIN cs |->
                             IF t = {} THEN base
                             ELSE OneStep(g[t \ {Max(t)}], cs[Max(t)])]
<1>1. /\ n \in Nat /\ DOMAIN cs = 1 .. n /\ \A i \in 1 .. n : cs[i] \in Range(Focuses)
  BY OutlineAssumption
<1>2. base \in V
  OBVIOUS
<1>3. ASSUME NEW done \in V, NEW c \in Range(Focuses) PROVE OneStep(done, c) \in V
  BY OneForFocus
<1> HIDE DEF V, n, OneStep, cs, base
<1>4. PICK R : R = [p \in (1 .. n) \X V |-> OneStep(p[2], cs[p[1]])]
  OBVIOUS
<1>5. R \in [(1 .. n) \X V -> V]
  BY <1>1, <1>3, <1>4
<1>6. PICK m \in [SUBSET (1 .. n) -> V] : LeftFold(m, n, base, R)
  BY <1>1, <1>2, <1>5, LeftExists
<1>7. Fold(m)
  <2>1. ASSUME NEW t \in SUBSET (1 .. n)
        PROVE  m[t] = IF t = {} THEN base ELSE OneStep(m[t \ {Max(t)}], cs[Max(t)])
    <3>1. m[t] = IF t = {} THEN base ELSE R[<<Max(t), m[t \ {Max(t)}]>>]
      BY <1>6 DEF LeftFold
    <3>2. t # {} => Max(t) \in 1 .. n /\ m[t \ {Max(t)}] \in V
      BY <1>1, Largest
    <3> QED
      BY <1>4, <3>1, <3>2
  <2> QED
    BY <1>1, <2>1
<1>8. PICK g : g = CHOOSE h : Fold(h)
  OBVIOUS
<1>9. Fold(g)
  BY <1>7, <1>8
<1>10. ForFocuses(themes, max) = g[1 .. n]
  BY <1>1, <1>8 DEF ForFocuses, FoldLeft, MapThenFoldSet, OneStep, cs, base
<1>11. g[{}] \in V
  <2>1. {} \in SUBSET DOMAIN cs
    OBVIOUS
  <2> QED
    BY <1>2, <1>9, <2>1
<1>12. ASSUME NEW t \in SUBSET (1 .. n), t # {}, g[t \ {Max(t)}] \in V PROVE g[t] \in V
  <2>1. Max(t) \in 1 .. n /\ cs[Max(t)] \in Range(Focuses)
    BY <1>1, <1>12, Largest
  <2>2. g[t] = OneStep(g[t \ {Max(t)}], cs[Max(t)])
    BY <1>1, <1>9, <1>12
  <2> QED
    BY <1>3, <1>12, <2>1, <2>2
<1>13. g[1 .. n] \in V
  BY <1>1, <1>11, <1>12, LeftStays
<1> QED
  BY <1>10, <1>13 DEF V

LEMMA RestLength ==
  ASSUME NEW max \in Nat, NEW l \in Nat, NEW r \in Nat
  PROVE  LET n == Min({r, max - l}) IN n \in Int /\ n \in {r, max - l} /\ n <= r
<1>1. PICK m \in Int : m = max - l
  OBVIOUS
<1>2. Min({r, m}) \in {r, m} /\ Min({r, m}) <= r
  BY <1>1, OfTwo
<1> QED
  BY <1>1, <1>2

LEMMA FirstFew ==
  ASSUME NEW X, NEW s \in Seq(X), NEW n \in Int, n <= Len(s)
  PROVE  SubSeq(s, 1, n) \in Seq(X) /\ Len(SubSeq(s, 1, n)) = IF n >= 1 THEN n ELSE 0
<1>1. CASE n >= 1
  <2>1. n \in 1 .. Len(s)
    BY <1>1
  <2> QED
    BY <1>1, <2>1
<1>2. CASE ~(n >= 1)
  <2>1. SubSeq(s, 1, n) = <<>>
    BY <1>2
  <2> QED
    BY <1>2, <2>1
<1> QED
  BY <1>1, <1>2

LEMMA SelectedIn ==
  ASSUME NEW W, IsFiniteSet(W), NEW themes \in Seq(RouteIn(W)), themes # <<>>, NEW max \in Nat \ {0}
  PROVE  Selected(themes, max) \in Seq(DOMAIN themes) /\ Selected(themes, max) # <<>>
<1>x. PICK X : X = DOMAIN themes
  OBVIOUS
<1>1. PICK first : first = ForFocuses(themes, max)
  OBVIOUS
<1>2. first \in Seq(X)
  BY <1>1, <1>x, ForFocusesIn
<1>3. PICK rest : rest = Unchosen(themes, first)
  OBVIOUS
<1>4. rest \in Seq(X) /\ \A i \in X \ Range(first) : \E k \in DOMAIN rest : rest[k] = i
  BY <1>3, <1>x, UnchosenRest
<1>5. PICK n : n = Min({Len(rest), max - Len(first)})
  OBVIOUS
<1>6. Selected(themes, max) = first \o SubSeq(rest, 1, n)
  BY <1>1, <1>3, <1>5 DEF Selected
<1>7. PICK l \in Nat, r \in Nat : l = Len(first) /\ r = Len(rest)
  BY <1>2, <1>4
<1>8. n \in Int /\ n \in {r, max - l} /\ n <= r
  BY <1>5, <1>7, RestLength
<1>9. SubSeq(rest, 1, n) \in Seq(X) /\ Len(SubSeq(rest, 1, n)) = IF n >= 1 THEN n ELSE 0
  BY <1>4, <1>7, <1>8, FirstFew
<1>10. Len(first) = 0 => n >= 1
  <2> SUFFICES ASSUME Len(first) = 0 PROVE n >= 1
    OBVIOUS
  <2>1. Range(first) = {}
    BY <1>2 DEF Range
  <2>2. PICK i \in X : TRUE
    <3>1. 1 \in X
      BY <1>x
    <3> QED
      BY <3>1
  <2>3. Len(rest) >= 1
    <3>1. PICK k \in DOMAIN rest : rest[k] = i
      BY <1>4, <2>1, <2>2
    <3> QED
      BY <1>4, <3>1
  <2> QED
    BY <1>7, <1>8, <2>3
<1>11. Selected(themes, max) \in Seq(X) /\ Len(Selected(themes, max)) > 0
  <2>1. PICK some : some = SubSeq(rest, 1, n)
    OBVIOUS
  <2>2. first \o some \in Seq(X) /\ Len(first \o some) = Len(first) + Len(some)
    BY <1>2, <1>9, <2>1, Joined
  <2> QED
    BY <1>6, <1>7, <1>8, <1>9, <1>10, <2>1, <2>2
<1> QED
  BY <1>11, <1>x

-----------------------------------------------------------------------------
(* The themes that are not chosen, joined one by one to those that are.    *)
JoinedIn(W, m) == {d \in [routes : Seq(RouteIn(W)), words : Seq(SUBSET W)] :
                     Len(d.routes) = m /\ Len(d.words) = m}

Enlarged(routes, at, theme) == [routes EXCEPT ![at] = Merge(@, theme)]

Adds(new, routes, theme) == PapersIn(routes) \cup theme.papers \subseteq PapersIn(new)

LEMMA EnlargedIn ==
  ASSUME NEW W, NEW routes \in Seq(RouteIn(W)), NEW at \in DOMAIN routes, NEW theme \in RouteIn(W)
  PROVE  /\ Enlarged(routes, at, theme) \in Seq(RouteIn(W))
         /\ Len(Enlarged(routes, at, theme)) = Len(routes)
         /\ Adds(Enlarged(routes, at, theme), routes, theme)
<1>n. PICK new : new = Enlarged(routes, at, theme)
  OBVIOUS
<1>1. PICK x : x = Merge(routes[at], theme)
  OBVIOUS
<1>2. x \in RouteIn(W) /\ x.papers = routes[at].papers \cup theme.papers
  <2>1. routes[at] \in RouteIn(W)
    OBVIOUS
  <2> QED
    BY <1>1, <2>1, MergedIn
<1>3. new = [routes EXCEPT ![at] = x]
  BY <1>1, <1>n DEF Enlarged
<1>4. /\ new \in Seq(RouteIn(W)) /\ Len(new) = Len(routes) /\ DOMAIN new = DOMAIN routes
      /\ new[at] = x /\ \A i \in DOMAIN routes \ {at} : new[i] = routes[i]
  <2> HIDE DEF RouteIn
  <2> QED
    BY <1>2, <1>3
<1>5. Widened(routes, new, at, theme.papers)
  BY <1>2, <1>4 DEF Widened
<1>6. PICK more : more = theme.papers
  OBVIOUS
<1>7. PapersIn(new) = PapersIn(routes) \cup more
  <2>1. Widened(routes, new, at, more)
    BY <1>5, <1>6
  <2> QED
    BY <2>1, WidenedKeeps
<1> QED
  BY <1>4, <1>6, <1>7, <1>n DEF Adds

LEMMA OneAtLeast ==
  ASSUME NEW c \in Nat
  PROVE  Max({1, c}) \in Nat \ {0}
<1>1. Max({1, c}) \in {1, c} /\ Max({1, c}) >= 1
  BY OfTwo
<1> QED
  BY <1>1

(* The text that shares most words with the theme for their number.        *)
NearestWords(theme, words, m) ==
  LET shared(k) == Cardinality(Text(theme) \cap words[k])
      all(k) == Max({1, Cardinality(Text(theme) \cup words[k])})
  IN \E k \in 1 .. m : \A l \in 1 .. m :
       LET a == shared(k) * all(l) b == shared(l) * all(k)
       IN a > b \/ (a = b /\ k <= l)

LEMMA JoinTo ==
  ASSUME NEW W, IsFiniteSet(W), NEW m \in Nat \ {0}, NEW words \in Seq(SUBSET W), Len(words) = m,
         NEW theme \in RouteIn(W)
  PROVE  NearestWords(theme, words, m)
<1> DEFINE shared(k) == Cardinality(Text(theme) \cap words[k])
           all(k) == Max({1, Cardinality(Text(theme) \cup words[k])})
<1>1. ASSUME NEW k \in 1 .. m PROVE shared(k) \in Nat /\ all(k) \in Nat \ {0}
  <2>1. words[k] \in SUBSET W
    OBVIOUS
  <2>2. Text(theme) \in SUBSET W
    BY DEF RouteIn, Text
  <2>3. PICK S \in SUBSET W, T \in SUBSET W : S = Text(theme) \cap words[k] /\ T = Text(theme) \cup words[k]
    BY <2>1, <2>2
  <2>4. IsFiniteSet(S) /\ IsFiniteSet(T)
    BY FS_Subset
  <2>5. PICK c : c = Cardinality(T)
    OBVIOUS
  <2>6. Cardinality(S) \in Nat /\ c \in Nat
    BY <2>4, <2>5, FS_CardinalityType
  <2>7. Max({1, c}) \in Nat \ {0}
    BY <2>6, OneAtLeast
  <2> QED
    BY <2>3, <2>5, <2>6, <2>7
<1> HIDE DEF shared, all
<1>2. PICK a : a = [k \in 1 .. m |-> shared(k)]
  OBVIOUS
<1>3. PICK b : b = [k \in 1 .. m |-> all(k)]
  OBVIOUS
<1>4. \A i \in 1 .. m : a[i] \in Nat /\ b[i] \in Nat \ {0}
  BY <1>1, <1>2, <1>3
<1>5. PICK k \in 1 .. m : \A l \in 1 .. m :
           a[k] * b[l] > a[l] * b[k] \/ (a[k] * b[l] = a[l] * b[k] /\ k <= l)
  BY <1>4, FractionBest
<1>6. \A l \in 1 .. m : \/ shared(k) * all(l) > shared(l) * all(k)
                        \/ shared(k) * all(l) = shared(l) * all(k) /\ k <= l
  <2> TAKE l \in 1 .. m
  <2>1. a[k] = shared(k) /\ b[k] = all(k) /\ a[l] = shared(l) /\ b[l] = all(l)
    BY <1>2, <1>3
  <2>2. a[k] * b[l] > a[l] * b[k] \/ (a[k] * b[l] = a[l] * b[k] /\ k <= l)
    BY <1>5
  <2> QED
    BY <2>1, <2>2, Zenon
<1>7. \E i \in 1 .. m : \A l \in 1 .. m :
              LET x == shared(i) * all(l) y == shared(l) * all(i)
              IN x > y \/ (x = y /\ i <= l)
  BY <1>6, Zenon
<1> QED
  BY <1>7, Zenon DEF shared, all, NearestWords

JoinAt(routes, words, at, theme) ==
  [routes |-> Enlarged(routes, at, theme), words |-> [words EXCEPT ![at] = @ \cup Text(theme)]]

LEMMA JoinAtIn ==
  ASSUME NEW W, NEW routes \in Seq(RouteIn(W)), NEW words \in Seq(SUBSET W), Len(words) = Len(routes),
         NEW at \in DOMAIN routes, NEW theme \in RouteIn(W)
  PROVE  /\ JoinAt(routes, words, at, theme) \in JoinedIn(W, Len(routes))
         /\ Adds(JoinAt(routes, words, at, theme).routes, routes, theme)
<1>1. PICK new : new = Enlarged(routes, at, theme)
  OBVIOUS
<1>2. PICK said : said = [words EXCEPT ![at] = @ \cup Text(theme)]
  OBVIOUS
<1>3. at \in DOMAIN words
  OBVIOUS
<1>4. new \in Seq(RouteIn(W))
  BY <1>1, EnlargedIn
<1>5. Len(new) = Len(routes)
  BY <1>1, EnlargedIn
<1>6. Adds(new, routes, theme)
  BY <1>1, EnlargedIn
<1>7. said \in Seq(SUBSET W) /\ Len(said) = Len(routes)
  <2>1. Text(theme) \in SUBSET W
    BY DEF RouteIn, Text
  <2>2. words[at] \cup Text(theme) \in SUBSET W
    BY <1>3, <2>1
  <2>3. said \in Seq(SUBSET W) /\ Len(said) = Len(words)
    BY <1>2, <1>3, <2>2
  <2> QED
    BY <2>3
<1>8. JoinAt(routes, words, at, theme) = [routes |-> new, words |-> said]
  BY <1>1, <1>2 DEF JoinAt
<1> QED
  BY <1>4, <1>5, <1>6, <1>7, <1>8 DEF JoinedIn

LEMMA JoinOne ==
  ASSUME NEW W, IsFiniteSet(W), NEW m \in Nat \ {0}, NEW done \in JoinedIn(W, m), NEW theme \in RouteIn(W)
  PROVE  /\ Join(done, theme) \in JoinedIn(W, m)
         /\ Adds(Join(done, theme).routes, done.routes, theme)
<1>1. PICK routes \in Seq(RouteIn(W)), words \in Seq(SUBSET W) :
        done = [routes |-> routes, words |-> words] /\ Len(routes) = m /\ Len(words) = m
  <2>1. /\ done \in [routes : Seq(RouteIn(W)), words : Seq(SUBSET W)]
        /\ Len(done.routes) = m /\ Len(done.words) = m
    BY DEF JoinedIn
  <2> HIDE DEF RouteIn
  <2> QED
    BY <2>1
<1> DEFINE shared(k) == Cardinality(Text(theme) \cap done.words[k])
           all(k) == Max({1, Cardinality(Text(theme) \cup done.words[k])})
           size(k) == Cardinality(done.routes[k].papers)
           slots == DOMAIN done.routes
           near == CHOOSE k \in slots : \A l \in slots :
                     LET a == shared(k) * all(l) b == shared(l) * all(k)
                     IN a > b \/ (a = b /\ k <= l)
           small == CHOOSE k \in slots : \A l \in slots :
                      size(k) < size(l) \/ (size(k) = size(l) /\ k <= l)
           to == IF shared(near) > 0 THEN near ELSE small
<1>2. slots = 1 .. m /\ DOMAIN routes = 1 .. m /\ DOMAIN words = 1 .. m
  BY <1>1
<1>3. near \in slots
  <2>1. \E k \in slots : \A l \in slots :
              LET a == shared(k) * all(l) b == shared(l) * all(k)
              IN a > b \/ (a = b /\ k <= l)
    <3>1. done.words = words
      BY <1>1
    <3>2. NearestWords(theme, words, m)
      BY <1>1, JoinTo, Zenon
    <3> HIDE DEF slots
    <3> QED
      BY <1>2, <3>1, <3>2, Zenon DEF NearestWords
  <2> HIDE DEF slots, shared, all
  <2> QED
    BY <2>1, Zenon
<1>4. small \in slots
  <2>1. \E k \in slots : \A l \in slots : size(k) < size(l) \/ (size(k) = size(l) /\ k <= l)
    <3>1. DOMAIN routes # {} /\ DOMAIN routes \in SUBSET DOMAIN routes
      <4>1. 1 \in 1 .. m
        OBVIOUS
      <4> QED
        BY <1>2, <4>1
    <3>2. \E i \in DOMAIN routes : \A j \in DOMAIN routes :
            LET a == Cardinality(routes[i].papers) b == Cardinality(routes[j].papers)
            IN a < b \/ (a = b /\ i <= j)
      BY <3>1, SmallestIn
    <3>3. done.routes = routes
      BY <1>1
    <3> QED
      BY <3>2, <3>3, Zenon
  <2> HIDE DEF slots, size
  <2> QED
    BY <2>1, Zenon
<1>5. to \in 1 .. m
  <2> HIDE DEF near, small, slots
  <2> QED
    BY <1>2, <1>3, <1>4
<1>6. Join(done, theme) = [routes |-> [done.routes EXCEPT ![to] = Merge(@, theme)],
                           words |-> [done.words EXCEPT ![to] = @ \cup Text(theme)]]
  BY Zenon DEF Join
<1> HIDE DEF to
<1>7. PICK at \in 1 .. m : at = to
  BY <1>5
<1>8. Join(done, theme) = JoinAt(routes, words, at, theme)
  BY <1>1, <1>6, <1>7 DEF JoinAt, Enlarged
<1>9. /\ JoinAt(routes, words, at, theme) \in JoinedIn(W, m)
      /\ Adds(JoinAt(routes, words, at, theme).routes, routes, theme)
  BY <1>1, <1>2, JoinAtIn
<1> QED
  BY <1>1, <1>8, <1>9 DEF Adds

LEMMA SeedsIn ==
  ASSUME NEW W, NEW themes \in Seq(RouteIn(W)), NEW chosen \in Seq(DOMAIN themes)
  PROVE  /\ Seeds(themes, chosen) \in JoinedIn(W, Len(chosen))
         /\ \A i \in DOMAIN themes : i \in Range(chosen) =>
              themes[i].papers \subseteq PapersIn(Seeds(themes, chosen).routes)
<1>1. PICK n \in Nat : n = Len(chosen) /\ DOMAIN chosen = 1 .. n
  OBVIOUS
<1>2. PICK routes : routes = [k \in DOMAIN chosen |-> themes[chosen[k]]]
  OBVIOUS
<1>3. PICK words : words = [k \in DOMAIN routes |-> Text(routes[k])]
  OBVIOUS
<1>4. Seeds(themes, chosen) = [routes |-> routes, words |-> words]
  BY <1>2, <1>3 DEF Seeds
<1>5. DOMAIN routes = 1 .. n /\ DOMAIN words = 1 .. n
  BY <1>1, <1>2, <1>3
<1>6. ASSUME NEW k \in 1 .. n PROVE routes[k] \in RouteIn(W) /\ words[k] \in SUBSET W
  <2>1. chosen[k] \in DOMAIN themes
    BY <1>1
  <2>2. themes[chosen[k]] \in RouteIn(W)
    BY <2>1
  <2>3. routes[k] \in RouteIn(W)
    BY <1>1, <1>2, <2>2
  <2>4. words[k] = Text(routes[k])
    BY <1>3, <1>5
  <2> QED
    BY <2>3, <2>4 DEF RouteIn, Text
<1>7. routes \in Seq(RouteIn(W)) /\ Len(routes) = n
  <2>1. routes = [k \in 1 .. n |-> routes[k]]
    BY <1>1, <1>2
  <2>2. PICK R : R = RouteIn(W)
    OBVIOUS
  <2>3. \A k \in 1 .. n : routes[k] \in R
    BY <1>6, <2>2
  <2> QED
    BY <2>1, <2>2, <2>3, ListOf
<1>8. words \in Seq(SUBSET W) /\ Len(words) = n
  <2>1. words = [k \in 1 .. n |-> words[k]]
    BY <1>3, <1>5
  <2> QED
    BY <1>6, <2>1, ListOf
<1>9. ASSUME NEW i \in DOMAIN themes, i \in Range(chosen)
      PROVE  themes[i].papers \subseteq PapersIn(routes)
  <2>1. PICK k \in DOMAIN chosen : chosen[k] = i
    BY <1>9 DEF Range
  <2>2. k \in DOMAIN routes /\ routes[k] = themes[i]
    BY <1>2, <2>1
  <2> QED
    BY <2>2 DEF PapersIn
<1> QED
  BY <1>1, <1>4, <1>7, <1>8, <1>9 DEF JoinedIn

Joins(v, themes, chosen, W) ==
  /\ v[0] = Seeds(themes, chosen) /\ v[Len(Unchosen(themes, chosen))] = JoinAll(themes, chosen)
  /\ \A i \in 1 .. Len(Unchosen(themes, chosen)) : v[i] = Join(v[i - 1], themes[Unchosen(themes, chosen)[i]])
  /\ \A i \in 0 .. Len(Unchosen(themes, chosen)) : v[i] \in JoinedIn(W, Len(chosen))

LEMMA JoinsAll ==
  ASSUME NEW W, IsFiniteSet(W), NEW themes \in Seq(RouteIn(W)),
         NEW chosen \in Seq(DOMAIN themes), Len(chosen) \in Nat \ {0}
  PROVE  \E v : Joins(v, themes, chosen, W)
<1> DEFINE cs == Unchosen(themes, chosen)
           V == JoinedIn(W, Len(chosen))
           n == Len(cs)
           base == Seeds(themes, chosen)
           OneStep(done, c) == Join(done, themes[c])
           Fold(g) == g = [t \in SUBSET DOMAIN cs |->
                             IF t = {} THEN base
                             ELSE OneStep(g[t \ {Max(t)}], cs[Max(t)])]
<1>1. /\ n \in Nat /\ DOMAIN cs = 1 .. n /\ \A i \in 1 .. n : cs[i] \in DOMAIN themes
  BY UnchosenRest
<1>2. base \in V
  BY SeedsIn
<1>3. ASSUME NEW done \in V, NEW i \in 1 .. n PROVE OneStep(done, cs[i]) \in V
  <2>1. cs[i] \in DOMAIN themes
    BY <1>1
  <2>2. themes[cs[i]] \in RouteIn(W)
    BY <2>1
  <2> HIDE DEF cs
  <2> QED
    BY <2>2, JoinOne
<1> HIDE DEF V, n, OneStep, cs, base
<1>4. PICK R : R = [p \in (1 .. n) \X V |-> OneStep(p[2], cs[p[1]])]
  OBVIOUS
<1>5. R \in [(1 .. n) \X V -> V]
  BY <1>3, <1>4
<1>6. PICK m \in [SUBSET (1 .. n) -> V] : LeftFold(m, n, base, R)
  BY <1>1, <1>2, <1>5, LeftExists
<1>7. Fold(m)
  <2>1. ASSUME NEW t \in SUBSET (1 .. n)
        PROVE  m[t] = IF t = {} THEN base ELSE OneStep(m[t \ {Max(t)}], cs[Max(t)])
    <3>1. m[t] = IF t = {} THEN base ELSE R[<<Max(t), m[t \ {Max(t)}]>>]
      BY <1>6 DEF LeftFold
    <3>2. t # {} => Max(t) \in 1 .. n /\ m[t \ {Max(t)}] \in V
      BY <1>1, Largest
    <3> QED
      BY <1>4, <3>1, <3>2
  <2> QED
    BY <1>1, <2>1
<1>8. PICK g : g = CHOOSE h : Fold(h)
  OBVIOUS
<1>9. Fold(g)
  BY <1>7, <1>8
<1>10. JoinAll(themes, chosen) = g[1 .. n]
  BY <1>1, <1>8 DEF JoinAll, FoldLeft, MapThenFoldSet, OneStep, cs, base
<1>11. PICK v : v = [i \in 0 .. n |-> g[1 .. i]]
  OBVIOUS
<1>12. v[0] = base
  <2>1. 1 .. 0 = {} /\ 0 \in 0 .. n /\ {} \in SUBSET DOMAIN cs
    BY <1>1
  <2> QED
    BY <1>9, <1>11, <2>1
<1>13. ASSUME NEW i \in 1 .. n PROVE v[i] = OneStep(v[i - 1], cs[i])
  <2>1. 1 .. i \in SUBSET (1 .. n) /\ 1 .. i # {} /\ Max(1 .. i) = i /\ (1 .. i) \ {i} = 1 .. i - 1
    BY <1>1, MaxInterval
  <2>2. i \in 0 .. n /\ i - 1 \in 0 .. n
    BY <1>1
  <2> QED
    BY <1>1, <1>9, <1>11, <2>1, <2>2
<1>14. \A i \in 0 .. n : v[i] \in V
  <2> DEFINE G == {i \in 0 .. n : v[i] \in V}
  <2>1. 0 \in G
    BY <1>1, <1>2, <1>12
  <2>2. \A i \in 1 .. n : i - 1 \in G => i \in G
    BY <1>1, <1>3, <1>13
  <2> HIDE DEF G
  <2>3. \A i \in 0 .. n : i \in G
    BY <1>1, <2>1, <2>2, Climbs
  <2> QED
    BY <2>3 DEF G
<1>15. n \in 0 .. n /\ v[n] = JoinAll(themes, chosen)
  BY <1>1, <1>10, <1>11
<1>16. n = Len(Unchosen(themes, chosen))
  BY DEF n, cs
<1>17. /\ v[0] = base /\ v[Len(Unchosen(themes, chosen))] = JoinAll(themes, chosen)
       /\ \A i \in 1 .. Len(Unchosen(themes, chosen)) : v[i] = OneStep(v[i - 1], cs[i])
       /\ \A i \in 0 .. Len(Unchosen(themes, chosen)) : v[i] \in V
  BY <1>12, <1>13, <1>14, <1>15, <1>16
<1> QED
  BY <1>17 DEF OneStep, base, V, cs, Joins

LEMMA FromThemesKeeps ==
  ASSUME NEW W, IsFiniteSet(W), NEW themes \in Seq(RouteIn(W)), themes # <<>>, NEW max \in Nat \ {0}
  PROVE  /\ FromThemes(themes, max) \in Seq(RouteIn(W))
         /\ PapersIn(themes) \subseteq PapersIn(FromThemes(themes, max))
<1>1. PICK chosen : chosen = Selected(themes, max)
  OBVIOUS
<1>2. chosen \in Seq(DOMAIN themes) /\ chosen # <<>>
  BY <1>1, SelectedIn
<1>3. Len(chosen) \in Nat \ {0}
  BY <1>2, NotEmpty
<1>4. PICK v : Joins(v, themes, chosen, W)
  BY <1>2, <1>3, JoinsAll
<1>5. PICK sorted : sorted = Unchosen(themes, chosen)
  OBVIOUS
<1>6. /\ sorted \in Seq(DOMAIN themes)
      /\ \A i \in DOMAIN themes \ Range(chosen) : \E k \in DOMAIN sorted : sorted[k] = i
  BY <1>5, UnchosenRest
<1>7. PICK n \in Nat : n = Len(sorted) /\ DOMAIN sorted = 1 .. n
  BY <1>6
<1>8. /\ v[0] = Seeds(themes, chosen) /\ v[n] = JoinAll(themes, chosen)
      /\ \A i \in 1 .. n : v[i] = Join(v[i - 1], themes[sorted[i]])
      /\ \A i \in 0 .. n : v[i] \in JoinedIn(W, Len(chosen))
  BY <1>4, <1>5, <1>7 DEF Joins
<1>h. PICK H : H = [i \in 0 .. n |-> PapersIn(v[i].routes)]
  OBVIOUS
<1>p. PICK P : P = [i \in 1 .. n |-> themes[sorted[i]].papers]
  OBVIOUS
<1>9. Gathers(H, P, n)
  <2> SUFFICES ASSUME NEW i \in 1 .. n PROVE H[i - 1] \cup P[i] \subseteq H[i]
    BY DEF Gathers
  <2>1. i - 1 \in 0 .. n /\ i \in 0 .. n
    OBVIOUS
  <2>2. PICK done, theme : done = v[i - 1] /\ theme = themes[sorted[i]]
    OBVIOUS
  <2>3. done \in JoinedIn(W, Len(chosen)) /\ v[i] = Join(done, theme)
    BY <1>8, <2>1, <2>2
  <2>4. theme \in RouteIn(W)
    <3>1. sorted[i] \in DOMAIN themes
      BY <1>6, <1>7
    <3> QED
      BY <2>2, <3>1
  <2>5. Adds(Join(done, theme).routes, done.routes, theme)
    BY <1>3, <2>3, <2>4, JoinOne
  <2> QED
    BY <1>h, <1>p, <2>1, <2>2, <2>3, <2>5 DEF Adds
<1>10. H[0] \subseteq H[n] /\ \A i \in 1 .. n : P[i] \subseteq H[n]
  BY <1>9, GathersAll
<1>11. 0 \in 0 .. n /\ n \in 0 .. n
  OBVIOUS
<1>12. H[n] = PapersIn(FromThemes(themes, max)) /\ H[0] = PapersIn(Seeds(themes, chosen).routes)
  BY <1>1, <1>8, <1>11, <1>h DEF FromThemes
<1>13. ASSUME NEW i \in DOMAIN themes PROVE themes[i].papers \subseteq H[n]
  <2>1. CASE i \in Range(chosen)
    BY <1>2, <1>10, <1>12, <2>1, SeedsIn
  <2>2. CASE i \notin Range(chosen)
    <3>1. PICK k \in 1 .. n : sorted[k] = i
      BY <1>6, <1>7, <2>2
    <3> QED
      BY <1>10, <1>p, <3>1
  <2> QED
    BY <2>1, <2>2
<1>14. FromThemes(themes, max) \in Seq(RouteIn(W))
  BY <1>1, <1>8, <1>11 DEF FromThemes, JoinedIn
<1> QED
  BY <1>12, <1>13, <1>14 DEF PapersIn

-----------------------------------------------------------------------------
(* The routes of a text keep the papers of the themes, are few enough and  *)
(* can be compared.                                                        *)
SoundRoutes(routes, themes, max) ==
  PapersIn(themes) \subseteq PapersIn(routes) /\ Len(routes) <= max /\ Comparing(routes)

LEMMA RoutesKeep ==
  ASSUME NEW W, IsFiniteSet(W), NEW themes \in Seq(RouteIn(W)),
         NEW G, \A g \in G : Grouped(g, W), NEW demands \in Seq(G),
         NEW max \in Nat \ {0}, NEW evidence \in Nat
  PROVE  /\ Routes(themes, demands, max, evidence) \in Seq(RouteIn(W))
         /\ SoundRoutes(Routes(themes, demands, max, evidence), themes, max)
<1>1. PICK required : required = RequiredRoutes(demands, themes)
  OBVIOUS
<1>2. required \in Seq(RouteIn(W))
  BY <1>1, RequiredRoutesIn
<1>3. PICK most : most = MaxRoutes(max, evidence, required)
  OBVIOUS
<1>4. most \in Nat \ {0} /\ most <= max
  <2>1. PICK R : R = RouteIn(W)
    OBVIOUS
  <2>2. required \in Seq(R)
    BY <1>2, <2>1
  <2> QED
    BY <1>3, <2>2, MostRoutes
<1>5. PICK joined : joined = IF required # <<>> /\ ~Monolithic(required, themes)
                             THEN FromRequired(required, themes, most)
                             ELSE IF themes = <<>> THEN <<>> ELSE FromThemes(themes, most)
  OBVIOUS
<1>6. joined \in Seq(RouteIn(W)) /\ PapersIn(themes) \subseteq PapersIn(joined)
  <2>1. CASE required # <<>> /\ ~Monolithic(required, themes)
    BY <1>2, <1>4, <1>5, <2>1, FromRequiredKeeps
  <2>2. CASE ~(required # <<>> /\ ~Monolithic(required, themes)) /\ themes = <<>>
    BY <1>5, <2>2 DEF PapersIn
  <2>3. CASE ~(required # <<>> /\ ~Monolithic(required, themes)) /\ themes # <<>>
    BY <1>4, <1>5, <2>3, FromThemesKeeps
  <2> QED
    BY <2>1, <2>2, <2>3
<1>7. Routes(themes, demands, max, evidence) = Rebalanced(joined, most)
  BY <1>1, <1>3, <1>5 DEF Routes
<1>8. PICK routes : routes = Rebalanced(joined, most)
  OBVIOUS
<1>9. /\ routes \in Seq(RouteIn(W)) /\ PapersIn(joined) \subseteq PapersIn(routes)
      /\ Len(routes) <= most /\ Comparing(routes)
  BY <1>4, <1>6, <1>8, RebalancedKeeps
<1>10. Len(routes) <= max
  <2>1. Len(routes) \in Nat
    BY <1>9
  <2> QED
    BY <1>4, <1>9, <2>1
<1> QED
  BY <1>6, <1>7, <1>8, <1>9, <1>10 DEF SoundRoutes

(* Among the sections of a text those of its routes are the ones with the  *)
(* papers of its routes.                                                   *)
Themed(s, routes, l) ==
  /\ \A k \in DOMAIN s : s[k].id = "theme" => \E i \in DOMAIN routes : k = l + i
  /\ \A i \in DOMAIN routes : /\ l + i \in DOMAIN s /\ s[l + i].id = "theme"
                              /\ s[l + i].papers = routes[i].papers

SamePapers(e, routes) ==
  /\ Len(e) = Len(routes) /\ Len(e) \in Nat /\ DOMAIN e = 1 .. Len(e)
  /\ \A k \in DOMAIN e : \E i \in DOMAIN routes : e[k].papers = routes[i].papers
  /\ \A i \in DOMAIN routes : \E k \in DOMAIN e : e[k].papers = routes[i].papers

LEMMA ThemedRoutes ==
  ASSUME NEW X, NEW s \in Seq(X), NEW R, NEW routes \in Seq(R), NEW l \in Nat, Themed(s, routes, l),
         NEW e, e = RoutesOf([sections |-> s])
  PROVE  SamePapers(e, routes)
<1>1. PICK n \in Nat : n = Len(routes) /\ DOMAIN routes = 1 .. n
  OBVIOUS
<1>2. PICK I : I = {k \in DOMAIN s : s[k].id = "theme"}
  OBVIOUS
<1>3. I = l + 1 .. l + n
  <2>1. ASSUME NEW k \in I PROVE k \in l + 1 .. l + n
    <3>1. PICK i \in DOMAIN routes : k = l + i
      BY <1>2 DEF Themed
    <3> QED
      BY <1>1, <3>1
  <2>2. ASSUME NEW k \in l + 1 .. l + n PROVE k \in I
    <3>1. PICK i \in 1 .. n : i = k - l
      BY <1>1
    <3>2. l + i \in I
      BY <1>1, <1>2 DEF Themed
    <3>3. k = l + i
      BY <3>1
    <3> QED
      BY <3>2, <3>3
  <2> QED
    BY <2>1, <2>2
<1>4. Cardinality(I) = n
  <2>1. l + 1 \in Int /\ l + n \in Int
    OBVIOUS
  <2>2. Cardinality(l + 1 .. l + n) = IF l + 1 > l + n THEN 0 ELSE l + n - (l + 1) + 1
    BY <2>1, FS_Interval
  <2> QED
    BY <1>3, <2>2
<1>5. I \in SUBSET DOMAIN s
  BY <1>2
<1>6. e = Entries(s, I)
  BY <1>2 DEF RoutesOf
<1>7. /\ e \in Seq(X) /\ Len(e) = n
      /\ \E at : Selects(e, s, I, at)
  BY <1>4, <1>5, <1>6, EntriesAt
<1>8. PICK at : Selects(e, s, I, at)
  BY <1>7
<1>9. ASSUME NEW k \in DOMAIN e PROVE \E i \in DOMAIN routes : e[k].papers = routes[i].papers
  <2>1. at[k] \in I /\ e[k] = s[at[k]]
    BY <1>8 DEF Selects
  <2>2. PICK i \in DOMAIN routes : at[k] = l + i
    BY <1>2, <2>1 DEF Themed
  <2>3. s[l + i].papers = routes[i].papers
    BY DEF Themed
  <2>4. e[k].papers = routes[i].papers
    BY <2>1, <2>2, <2>3
  <2> QED
    BY <2>4
<1>10. ASSUME NEW i \in DOMAIN routes PROVE \E k \in DOMAIN e : e[k].papers = routes[i].papers
  <2>1. l + i \in I /\ s[l + i].papers = routes[i].papers
    BY <1>2 DEF Themed
  <2>2. PICK k \in DOMAIN e : at[k] = l + i
    BY <1>8, <2>1 DEF Selects
  <2>3. e[k] = s[l + i]
    BY <1>8, <2>2 DEF Selects
  <2> QED
    BY <2>1, <2>3
<1>11. Len(e) \in Nat /\ DOMAIN e = 1 .. Len(e)
  BY <1>7
<1> QED
  BY <1>1, <1>7, <1>9, <1>10, <1>11 DEF SamePapers

(* The sections of a text.                                                 *)
SectionIds == {"background_body", "status_overview", "related_work_overview", "gap_and_positioning",
               "review_title", "introduction", "comparison_and_gaps", "conclusion", "theme"}
SectionIn(W) == [id : SectionIds, papers : SUBSET Cards, words : SUBSET W, floor : Nat]
Plain(s) == \A k \in DOMAIN s : s[k].id # "theme"

LEMMA ThemeSectionsIn ==
  ASSUME NEW W, NEW routes \in Seq(RouteIn(W)), NEW floor \in Nat
  PROVE  /\ ThemeSections(routes, floor) \in Seq(SectionIn(W))
         /\ Themed(ThemeSections(routes, floor), routes, 0)
         /\ Len(ThemeSections(routes, floor)) = Len(routes)
<1>1. PICK n \in Nat : n = Len(routes) /\ DOMAIN routes = 1 .. n
  OBVIOUS
<1>2. PICK t : t = ThemeSections(routes, floor)
  OBVIOUS
<1>3. t = [i \in 1 .. n |-> t[i]] /\ DOMAIN t = 1 .. n
  BY <1>1, <1>2 DEF ThemeSections
<1>4. ASSUME NEW i \in 1 .. n
      PROVE  t[i] \in SectionIn(W) /\ t[i].id = "theme" /\ t[i].papers = routes[i].papers
  <2>1. PICK x : x = routes[i]
    OBVIOUS
  <2>2. x \in RouteIn(W)
    BY <1>1, <2>1
  <2>3. t[i] = ThemeSection(x, floor)
    BY <1>1, <1>2, <2>1 DEF ThemeSections
  <2>4. x.papers \in SUBSET Cards /\ x.name \cup UNION x.labels \in SUBSET W
    BY <2>2 DEF RouteIn
  <2>5. PICK p \in SUBSET Cards, w \in SUBSET W : p = x.papers /\ w = x.name \cup UNION x.labels
    BY <2>4
  <2>6. t[i] = [id |-> "theme", papers |-> p, words |-> w, floor |-> floor]
    BY <2>3, <2>5 DEF ThemeSection
  <2>7. t[i] \in SectionIn(W) /\ t[i].id = "theme" /\ t[i].papers = p
    BY <2>6 DEF SectionIn, SectionIds
  <2> QED
    BY <2>1, <2>5, <2>7
<1>5. t \in Seq(SectionIn(W)) /\ Len(t) = n
  <2>1. PICK S : S = SectionIn(W)
    OBVIOUS
  <2>2. \A i \in 1 .. n : t[i] \in S
    BY <1>4, <2>1
  <2> QED
    BY <1>3, <2>1, <2>2, ListOf
<1>6. Themed(t, routes, 0)
  <2>1. \A i \in 1 .. n : 0 + i = i
    OBVIOUS
  <2> QED
    BY <1>1, <1>3, <1>4, <2>1 DEF Themed
<1> QED
  BY <1>1, <1>2, <1>5, <1>6

LEMMA PlainBefore ==
  ASSUME NEW X, NEW u \in Seq(X), Plain(u), NEW s \in Seq(X), NEW routes, Themed(s, routes, 0),
         DOMAIN routes = 1 .. Len(s)
  PROVE  u \o s \in Seq(X) /\ Themed(u \o s, routes, Len(u))
<1>1. PICK m \in Nat, n \in Nat :
        m = Len(u) /\ DOMAIN u = 1 .. m /\ n = Len(s) /\ DOMAIN s = 1 .. n
  OBVIOUS
<1>2. PICK all : all = u \o s
  OBVIOUS
<1>3. /\ all \in Seq(X) /\ Len(all) = m + n /\ DOMAIN all = 1 .. m + n
      /\ \A i \in 1 .. m : all[i] = u[i]
      /\ \A i \in 1 .. n : all[m + i] = s[i]
  BY <1>1, <1>2
<1>4. ASSUME NEW k \in DOMAIN all, all[k].id = "theme" PROVE \E i \in DOMAIN routes : k = m + i
  <2>1. k \notin 1 .. m
    BY <1>1, <1>3, <1>4 DEF Plain
  <2>2. k - m \in 1 .. n /\ k = m + (k - m)
    BY <1>3, <2>1
  <2> QED
    BY <1>1, <2>2
<1>5. ASSUME NEW i \in DOMAIN routes
      PROVE  m + i \in DOMAIN all /\ all[m + i].id = "theme" /\ all[m + i].papers = routes[i].papers
  <2>1. i \in 1 .. n /\ 0 + i = i
    BY <1>1
  <2>2. s[i].id = "theme" /\ s[i].papers = routes[i].papers
    BY <2>1 DEF Themed
  <2>3. m + i \in DOMAIN all /\ all[m + i] = s[i]
    BY <1>3, <2>1
  <2> QED
    BY <2>2, <2>3
<1>6. Themed(all, routes, m)
  BY <1>4, <1>5 DEF Themed
<1> QED
  BY <1>1, <1>2, <1>3, <1>6

LEMMA PlainAfter ==
  ASSUME NEW X, NEW u \in Seq(X), Plain(u), NEW s \in Seq(X), NEW routes, NEW l, Themed(s, routes, l)
  PROVE  s \o u \in Seq(X) /\ Themed(s \o u, routes, l)
<1>1. PICK m \in Nat, n \in Nat :
        m = Len(u) /\ DOMAIN u = 1 .. m /\ n = Len(s) /\ DOMAIN s = 1 .. n
  OBVIOUS
<1>2. PICK all : all = s \o u
  OBVIOUS
<1>3. /\ all \in Seq(X) /\ DOMAIN all = 1 .. n + m
      /\ \A i \in 1 .. n : all[i] = s[i]
      /\ \A i \in 1 .. m : all[n + i] = u[i]
  BY <1>1, <1>2
<1>4. ASSUME NEW k \in DOMAIN all, all[k].id = "theme" PROVE \E i \in DOMAIN routes : k = l + i
  <2>1. CASE k \in 1 .. n
    BY <1>1, <1>3, <1>4, <2>1 DEF Themed
  <2>2. CASE k \notin 1 .. n
    <3>1. k - n \in 1 .. m /\ k = n + (k - n)
      BY <1>3, <2>2
    <3>2. all[k] = u[k - n]
      BY <1>3, <3>1
    <3> QED
      BY <1>1, <1>4, <3>1, <3>2 DEF Plain
  <2> QED
    BY <2>1, <2>2
<1>5. ASSUME NEW i \in DOMAIN routes
      PROVE  l + i \in DOMAIN all /\ all[l + i].id = "theme" /\ all[l + i].papers = routes[i].papers
  <2>1. l + i \in 1 .. n /\ s[l + i].id = "theme" /\ s[l + i].papers = routes[i].papers
    BY <1>1 DEF Themed
  <2>2. l + i \in DOMAIN all /\ all[l + i] = s[l + i]
    BY <1>3, <2>1
  <2> QED
    BY <2>1, <2>2
<1>6. Themed(all, routes, l)
  BY <1>4, <1>5 DEF Themed
<1> QED
  BY <1>2, <1>3, <1>6

LEMMA PlainOne ==
  ASSUME NEW W, NEW id \in SectionIds, id # "theme", NEW papers \in SUBSET Cards
  PROVE  <<Section(id, papers)>> \in Seq(SectionIn(W)) /\ Plain(<<Section(id, papers)>>)
<1>1. PICK x : x = Section(id, papers)
  OBVIOUS
<1>2. x \in SectionIn(W) /\ x.id = id
  <2>1. {} \in SUBSET W /\ 0 \in Nat
    OBVIOUS
  <2> QED
    BY <1>1, <2>1 DEF Section, SectionIn
<1>3. <<x>> \in Seq(SectionIn(W))
  <2> HIDE DEF SectionIn
  <2> QED
    BY <1>2
<1>4. DOMAIN <<x>> = {1} /\ <<x>>[1] = x
  OBVIOUS
<1> QED
  BY <1>1, <1>2, <1>3, <1>4 DEF Plain

LEMMA PlainTwo ==
  ASSUME NEW X, NEW x, NEW y, <<x>> \in Seq(X), Plain(<<x>>), <<y>> \in Seq(X), Plain(<<y>>)
  PROVE  <<x, y>> \in Seq(X) /\ Plain(<<x, y>>)
<1>1. x \in X /\ y \in X
  <2>1. <<x>>[1] \in X /\ <<y>>[1] \in X
    <3>1. Len(<<x>>) = 1 /\ Len(<<y>>) = 1
      OBVIOUS
    <3> QED
      BY <3>1
  <2> QED
    BY <2>1
<1>2. x.id # "theme" /\ y.id # "theme"
  <2>1. 1 \in DOMAIN <<x>> /\ 1 \in DOMAIN <<y>> /\ <<x>>[1] = x /\ <<y>>[1] = y
    OBVIOUS
  <2> QED
    BY <2>1 DEF Plain
<1>3. DOMAIN <<x, y>> = {1, 2} /\ <<x, y>>[1] = x /\ <<x, y>>[2] = y
  OBVIOUS
<1> QED
  BY <1>1, <1>2, <1>3 DEF Plain

LEMMA PapersOfRoutes ==
  ASSUME NEW W, NEW routes \in Seq(RouteIn(W))
  PROVE  PapersIn(routes) \in SUBSET Cards
<1> SUFFICES ASSUME NEW i \in DOMAIN routes PROVE routes[i].papers \subseteq Cards
  BY DEF PapersIn
<1>1. routes[i] \in RouteIn(W)
  OBVIOUS
<1> QED
  BY <1>1 DEF RouteIn

(* The sections of a list between others: of the routes, sound for themes. *)
OutlineOf(s, themes, max, W) ==
  /\ s \in Seq(SectionIn(W))
  /\ \E routes \in Seq(RouteIn(W)), l \in Nat :
       Themed(s, routes, l) /\ SoundRoutes(routes, themes, max)

LEMMA StatusOutline ==
  ASSUME NEW W, IsFiniteSet(W), NEW themes \in Seq(RouteIn(W)),
         NEW G, \A g \in G : Grouped(g, W), NEW demands \in Seq(G), NEW usable \in SUBSET Cards,
         NEW max \in Nat \ {0}, NEW floor \in Nat
  PROVE  OutlineOf(StatusSections(themes, demands, usable, max, floor), themes, max, W)
<1>1. Cardinality(usable) \in Nat
  BY SizeGrows
<1>2. PICK routes : routes = Routes(themes, demands, max, Cardinality(usable))
  OBVIOUS
<1>3. routes \in Seq(RouteIn(W)) /\ SoundRoutes(routes, themes, max)
  BY <1>1, <1>2, RoutesKeep
<1>4. PICK over : over = usable \cup IF demands = <<>> THEN {} ELSE PapersIn(routes)
  OBVIOUS
<1>5. over \in SUBSET Cards
  BY <1>3, <1>4, PapersOfRoutes
<1>6. PICK u : u = <<Section("status_overview", over)>>
  OBVIOUS
<1>7. u \in Seq(SectionIn(W)) /\ Plain(u) /\ Len(u) \in Nat
  <2>1. "status_overview" \in SectionIds /\ "status_overview" # "theme"
    BY DEF SectionIds
  <2>2. u \in Seq(SectionIn(W)) /\ Plain(u)
    BY <1>5, <1>6, <2>1, PlainOne
  <2>3. Len(u) = 1
    BY <1>6
  <2> QED
    BY <2>2, <2>3
<1>8. PICK t : t = ThemeSections(routes, floor)
  OBVIOUS
<1>9. t \in Seq(SectionIn(W)) /\ Themed(t, routes, 0) /\ DOMAIN routes = 1 .. Len(t)
  BY <1>3, <1>8, ThemeSectionsIn
<1>10. StatusSections(themes, demands, usable, max, floor) = u \o t
  BY <1>2, <1>4, <1>6, <1>8 DEF StatusSections
<1>11. u \o t \in Seq(SectionIn(W)) /\ Themed(u \o t, routes, Len(u))
  <2>1. PICK X : X = SectionIn(W)
    OBVIOUS
  <2> QED
    BY <1>7, <1>9, <2>1, PlainBefore
<1> QED
  BY <1>3, <1>7, <1>10, <1>11 DEF OutlineOf

LEMMA ReviewOutline ==
  ASSUME NEW W, IsFiniteSet(W), NEW themes \in Seq(RouteIn(W)),
         NEW G, \A g \in G : Grouped(g, W), NEW demands \in Seq(G), NEW usable \in SUBSET Cards
  PROVE  OutlineOf(ReviewSections(themes, demands, usable), themes, 3, W)
<1>1. 3 \in Nat \ {0} /\ 0 \in Nat
  OBVIOUS
<1>2. PICK routes : routes = Routes(themes, demands, 3, 0)
  OBVIOUS
<1>3. routes \in Seq(RouteIn(W)) /\ SoundRoutes(routes, themes, 3)
  BY <1>1, <1>2, RoutesKeep
<1>4. PICK t : t = ThemeSections(routes, 0)
  OBVIOUS
<1>5. t \in Seq(SectionIn(W)) /\ Themed(t, routes, 0) /\ DOMAIN routes = 1 .. Len(t)
  BY <1>1, <1>3, <1>4, ThemeSectionsIn
<1>6. PICK u, w : /\ u = <<Section("review_title", usable), Section("introduction", usable)>>
                  /\ w = <<Section("comparison_and_gaps", usable), Section("conclusion", usable)>>
  OBVIOUS
<1>7. u \in Seq(SectionIn(W)) /\ Plain(u) /\ w \in Seq(SectionIn(W)) /\ Plain(w)
  <2>1. /\ "review_title" \in SectionIds /\ "review_title" # "theme"
        /\ "introduction" \in SectionIds /\ "introduction" # "theme"
        /\ "comparison_and_gaps" \in SectionIds /\ "comparison_and_gaps" # "theme"
        /\ "conclusion" \in SectionIds /\ "conclusion" # "theme"
    BY DEF SectionIds
  <2>2. <<Section("review_title", usable)>> \in Seq(SectionIn(W)) /\ Plain(<<Section("review_title", usable)>>)
    BY <2>1, PlainOne
  <2>3. <<Section("introduction", usable)>> \in Seq(SectionIn(W)) /\ Plain(<<Section("introduction", usable)>>)
    BY <2>1, PlainOne
  <2>4. /\ <<Section("comparison_and_gaps", usable)>> \in Seq(SectionIn(W))
        /\ Plain(<<Section("comparison_and_gaps", usable)>>)
    BY <2>1, PlainOne
  <2>5. <<Section("conclusion", usable)>> \in Seq(SectionIn(W)) /\ Plain(<<Section("conclusion", usable)>>)
    BY <2>1, PlainOne
  <2> QED
    BY <1>6, <2>2, <2>3, <2>4, <2>5, PlainTwo
<1>8. Len(u) \in Nat
  BY <1>6
<1>9. ReviewSections(themes, demands, usable) = (u \o t) \o w
  BY <1>2, <1>4, <1>6 DEF ReviewSections
<1>10. PICK X : X = SectionIn(W)
  OBVIOUS
<1>11. u \o t \in Seq(X) /\ Themed(u \o t, routes, Len(u))
  BY <1>5, <1>7, <1>10, PlainBefore
<1>12. PICK s : s = u \o t
  OBVIOUS
<1>13. s \o w \in Seq(X) /\ Themed(s \o w, routes, Len(u))
  BY <1>7, <1>10, <1>11, <1>12, PlainAfter
<1> QED
  BY <1>3, <1>8, <1>9, <1>10, <1>12, <1>13 DEF OutlineOf

-----------------------------------------------------------------------------
(* The themes, the sections and the texts of a plan.                       *)
LEMMA SameSections ==
  ASSUME UNCHANGED <<themeOf, groups>>, NEW type
  PROVE  Themes(type)' = Themes(type) /\ SectionsOf(type)' = SectionsOf(type)
<1>1. Themes(type)' = Themes(type)
  BY DEF Themes
<1>2. SectionsOf(type)' = SectionsOf(type)
  BY <1>1 DEF SectionsOf
<1> QED
  BY <1>1, <1>2

LEMMA RangeFinite ==
  ASSUME NEW X, NEW s \in Seq(X)
  PROVE  IsFiniteSet(Range(s)) /\ Range(s) \subseteq X
<1>1. PICK n \in Nat : DOMAIN s = 1 .. n
  OBVIOUS
<1>2. IsFiniteSet(1 .. n)
  BY FS_Interval
<1>3. IsFiniteSet({s[i] : i \in 1 .. n})
  BY <1>2, FiniteImage
<1>4. Range(s) = {s[i] : i \in 1 .. n}
  BY <1>1 DEF Range
<1>5. \A i \in 1 .. n : s[i] \in X
  BY <1>1
<1> QED
  BY <1>3, <1>4, <1>5

LEMMA UnionFinite ==
  ASSUME NEW S, IsFiniteSet(S), NEW f, \A x \in S : IsFiniteSet(f[x])
  PROVE  IsFiniteSet(UNION {f[x] : x \in S})
<1>1. PICK T : T = {f[x] : x \in S}
  OBVIOUS
<1>2. IsFiniteSet(T)
  BY <1>1, FiniteImage
<1>3. \A t \in T : IsFiniteSet(t)
  BY <1>1
<1>4. IsFiniteSet(UNION T)
  BY <1>2, <1>3, FS_UNION
<1> QED
  BY <1>1, <1>4

Words(demands) ==
  (UNION {t.name : t \in Range(Taxonomy)}) \cup (UNION {WordsOf[p] : p \in Cards})
    \cup (UNION {g.name : g \in Range(demands)})

LEMMA WordsFinite ==
  ASSUME NEW demands \in Frames
  PROVE  IsFiniteSet(Words(demands))
<1>1. /\ Taxonomy \in Seq(Range(Taxonomy)) /\ \A t \in Range(Taxonomy) : IsFiniteSet(t.name)
      /\ demands \in Seq(Range(demands)) /\ \A g \in Range(demands) : IsFiniteSet(g.name)
      /\ \A p \in Cards : IsFiniteSet(WordsOf[p])
  BY WritingPlanAssumption, OutlineAssumption
<1>2. PICK T, G : T = Range(Taxonomy) /\ G = Range(demands)
  OBVIOUS
<1>3. IsFiniteSet(T) /\ IsFiniteSet(G)
  BY <1>1, <1>2, RangeFinite
<1>4. PICK f : f = [t \in T |-> t.name]
  OBVIOUS
<1>5. PICK g : g = [t \in G |-> t.name]
  OBVIOUS
<1>6. IsFiniteSet(UNION {f[t] : t \in T}) /\ IsFiniteSet(UNION {g[t] : t \in G})
  <2>1. \A t \in T : IsFiniteSet(f[t])
    BY <1>1, <1>2, <1>4
  <2>2. \A t \in G : IsFiniteSet(g[t])
    BY <1>1, <1>2, <1>5
  <2> QED
    BY <1>3, <2>1, <2>2, UnionFinite
<1>7. IsFiniteSet(UNION {WordsOf[p] : p \in Cards})
  BY <1>1, CardsFinite, UnionFinite
<1>8. PICK A, B, C : A = UNION {f[t] : t \in T} /\ B = UNION {WordsOf[p] : p \in Cards}
                     /\ C = UNION {g[t] : t \in G}
  OBVIOUS
<1>9. Words(demands) = (A \cup B) \cup C
  <2>1. UNION {t.name : t \in Range(Taxonomy)} = A
    BY <1>2, <1>4, <1>8
  <2>2. UNION {t.name : t \in Range(demands)} = C
    BY <1>2, <1>5, <1>8
  <2> QED
    BY <1>8, <2>1, <2>2 DEF Words
<1>10. IsFiniteSet(A \cup B)
  BY <1>6, <1>7, <1>8, FS_Union
<1>11. IsFiniteSet((A \cup B) \cup C)
  BY <1>6, <1>8, <1>10, FS_Union
<1> QED
  BY <1>9, <1>11

LEMMA ThemesIn ==
  ASSUME groups \in Frames, NEW type \in Types
  PROVE  Themes(type) \in Seq(RouteIn(Words(groups)))
<1> DEFINE of(t) == {p \in Cards : themeOf[p] = t.id}
           I == {k \in DOMAIN Taxonomy : ~Taxonomy[k].rest /\ of(Taxonomy[k]) \cap Usable[type] # {}}
           kept == Entries(Taxonomy, I)
<1>w. PICK W : W = Words(groups)
  OBVIOUS
<1>1. kept \in Seq(Range(Taxonomy))
  <2>1. I \in SUBSET DOMAIN Taxonomy /\ Taxonomy \in Seq(Range(Taxonomy))
    BY WritingPlanAssumption
  <2> HIDE DEF I
  <2>2. PICK X : X = Range(Taxonomy)
    OBVIOUS
  <2> QED
    BY <2>1, <2>2, EntriesAt
<1>2. PICK n \in Nat : n = Len(kept) /\ DOMAIN kept = 1 .. n
  <2> HIDE DEF kept
  <2> QED
    BY <1>1
<1>3. PICK all : all = Themes(type)
  OBVIOUS
<1>4. all = [i \in DOMAIN kept |->
         [name |-> kept[i].name, claims |-> Stated(of(kept[i])), labels |-> {},
          papers |-> of(kept[i]) \cap Usable[type]]]
  BY <1>3, Zenon DEF Themes
<1> HIDE DEF kept
<1>5. ASSUME NEW i \in 1 .. n PROVE all[i] \in RouteIn(W)
  <2>1. PICK t : t = kept[i]
    OBVIOUS
  <2>2. t \in Range(Taxonomy)
    BY <1>1, <1>2, <2>1
  <2>3. t.name \in SUBSET W
    BY <1>w, <2>2 DEF Words
  <2>4. Stated(of(t)) \in SUBSET W
    BY <1>w DEF Words, Stated
  <2>5. of(t) \cap Usable[type] \in SUBSET Cards
    OBVIOUS
  <2>6. PICK name \in SUBSET W, backing \in SUBSET W, papers \in SUBSET Cards :
          name = t.name /\ backing = Stated(of(t)) /\ papers = of(t) \cap Usable[type]
    BY <2>3, <2>4, <2>5
  <2>7. all[i] = [name |-> name, claims |-> backing, labels |-> {}, papers |-> papers]
    BY <1>2, <1>4, <2>1, <2>6
  <2> QED
    BY <2>7 DEF RouteIn
<1>6. all = [i \in 1 .. n |-> all[i]]
  BY <1>2, <1>4
<1>7. all \in Seq(RouteIn(W))
  <2>1. PICK S : S = RouteIn(W)
    OBVIOUS
  <2>2. \A i \in 1 .. n : all[i] \in S
    BY <1>5, <2>1
  <2> QED
    BY <1>6, <2>1, <2>2, ListOf
<1> QED
  BY <1>3, <1>7, <1>w

LEMMA TextOutline ==
  ASSUME groups \in Frames, NEW type \in {"status", "review"}
  PROVE  OutlineOf(SectionsOf(type), Themes(type),
                   IF type = "review" THEN 3 ELSE MaxSections, Words(groups))
<1>1. groups \in Frames /\ type \in Types
  BY DEF Types
<1>w. PICK W, G, demands, themes, usable :
        /\ W = Words(groups) /\ G = Range(groups) /\ demands = groups
        /\ themes = Themes(type) /\ usable = Usable[type]
  OBVIOUS
<1>2. IsFiniteSet(W) /\ themes \in Seq(RouteIn(W))
  BY <1>1, <1>w, WordsFinite, ThemesIn
<1>3. demands \in Seq(G) /\ usable \in SUBSET Cards
  BY <1>1, <1>w, WritingPlanAssumption
<1>4. \A g \in G : Grouped(g, W)
  <2> TAKE g \in G
  <2>1. g.papers \in SUBSET Cards
    BY <1>1, <1>w, WritingPlanAssumption
  <2>2. g.name \in SUBSET W
    BY <1>w DEF Words
  <2> QED
    BY <2>1, <2>2 DEF Grouped
<1>5. PICK floor : floor = IF Required >= FloorFrom THEN RouteFloor ELSE 0
  OBVIOUS
<1>6. floor \in Nat /\ MaxSections \in Nat \ {0}
  BY <1>5, WritingPlanAssumption, AllocationAssumption
<1>7. CASE type = "status"
  <2>1. SectionsOf(type) = StatusSections(themes, demands, usable, MaxSections, floor)
    BY <1>5, <1>7, <1>w DEF SectionsOf
  <2>2. OutlineOf(StatusSections(themes, demands, usable, MaxSections, floor), themes, MaxSections, W)
    BY <1>2, <1>3, <1>4, <1>6, StatusOutline
  <2> QED
    BY <1>7, <1>w, <2>1, <2>2
<1>8. CASE type = "review"
  <2>1. SectionsOf(type) = ReviewSections(themes, demands, usable)
    BY <1>8, <1>w DEF SectionsOf
  <2>2. OutlineOf(ReviewSections(themes, demands, usable), themes, 3, W)
    BY <1>2, <1>3, <1>4, ReviewOutline
  <2> QED
    BY <1>8, <1>w, <2>1, <2>2
<1> QED
  BY <1>7, <1>8

-----------------------------------------------------------------------------
(* The papers given to the sections: sections whose papers have cards, and *)
(* a list of such papers for each.                                         *)
Takers(specs, size) ==
  /\ size = Len(specs) /\ DOMAIN specs = 1 .. size
  /\ \A i \in 1 .. size : specs[i].papers \in SUBSET Cards /\ specs[i].key \in Nat
GivenIn(size) == [1 .. size -> Seq(Cards)]
Meeting(given, floors, size) == {i \in 1 .. size : Len(given[i]) >= floors[i]}
Keeping(floors, held, size) == {g \in GivenIn(size) : held \subseteq Meeting(g, floors, size)}

LEMMA FitIn ==
  ASSUME NEW p \in Cards, NEW section
  PROVE  Fit(p, section) \in Int
<1>1. PICK S : S = section.words \cap CardWords[p]
  OBVIOUS
<1>2. IsFiniteSet(CardWords[p]) /\ S \subseteq CardWords[p]
  BY <1>1, AllocationAssumption
<1>3. IsFiniteSet(S)
  BY <1>2, FS_Subset
<1>4. PICK c : c = Cardinality(S)
  OBVIOUS
<1>5. c \in Nat
  BY <1>3, <1>4, FS_CardinalityType
<1>6. Min({8, c}) \in Int
  <2>1. 8 \in Int /\ c \in Int
    BY <1>5
  <2>2. \A e \in Int : Min({e, c}) \in {e, c}
    BY <2>1, OfTwo
  <2>3. Min({8, c}) \in {8, c}
    BY <2>1, <2>2, Zenon
  <2> QED
    BY <2>1, <2>3
<1>7. Fit(p, section) = (IF section.id = "theme" THEN 32 ELSE 0) + Min({8, c})
  BY <1>1, <1>4 DEF Fit
<1> QED
  BY <1>6, <1>7

LEMMA PlaceOne ==
  ASSUME NEW size \in Nat, NEW done \in GivenIn(size), NEW p \in Cards, NEW specs, NEW capacity,
         NEW prefers
  PROVE  Place(done, p, specs, capacity, prefers) \in GivenIn(size)
<1>1. \/ Place(done, p, specs, capacity, prefers) = done
      \/ \E best : Place(done, p, specs, capacity, prefers) = [done EXCEPT ![best] = Append(@, p)]
  BY Zenon DEF Place
<1>2. ASSUME NEW best PROVE [done EXCEPT ![best] = Append(@, p)] \in GivenIn(size)
  <2>1. CASE best \in 1 .. size
    <3>1. Append(done[best], p) \in Seq(Cards)
      BY <2>1 DEF GivenIn
    <3> QED
      BY <2>1, <3>1 DEF GivenIn
  <2>2. CASE best \notin 1 .. size
    <3>1. PICK D : D = 1 .. size
      OBVIOUS
    <3>2. [done EXCEPT ![best] = Append(@, p)] = done
      BY <2>2, <3>1 DEF GivenIn
    <3> QED
      BY <3>2
  <2> QED
    BY <2>1, <2>2
<1> QED
  BY <1>1, <1>2

LEMMA PlacedIn ==
  ASSUME NEW size \in Nat, NEW specs, Takers(specs, size), NEW picked \in Seq(Cards),
         NEW target, NEW prefers
  PROVE  Placed(specs, picked, target, prefers) \in GivenIn(size)
<1> DEFINE cs == picked
           V == GivenIn(size)
           n == Len(cs)
           base == [i \in DOMAIN specs |-> <<>>]
           OneStep(done, c) == Place(done, c, specs, Max({3, (target + Max({1, Len(specs)}) - 1) \div Max({1, Len(specs)}) + 2}), prefers)
           Fold(g) == g = [t \in SUBSET DOMAIN cs |->
                             IF t = {} THEN base
                             ELSE OneStep(g[t \ {Max(t)}], cs[Max(t)])]
<1>1. /\ n \in Nat /\ DOMAIN cs = 1 .. n /\ \A i \in 1 .. n : cs[i] \in Cards
  OBVIOUS
<1>2. base \in V
  BY DEF Takers, GivenIn
<1>3. ASSUME NEW done \in V, NEW c \in Cards PROVE OneStep(done, c) \in V
  BY PlaceOne
<1> HIDE DEF V, n, OneStep, cs, base
<1>4. PICK R : R = [p \in (1 .. n) \X V |-> OneStep(p[2], cs[p[1]])]
  OBVIOUS
<1>5. R \in [(1 .. n) \X V -> V]
  BY <1>1, <1>3, <1>4
<1>6. PICK m \in [SUBSET (1 .. n) -> V] : LeftFold(m, n, base, R)
  BY <1>1, <1>2, <1>5, LeftExists
<1>7. Fold(m)
  <2>1. ASSUME NEW t \in SUBSET (1 .. n)
        PROVE  m[t] = IF t = {} THEN base ELSE OneStep(m[t \ {Max(t)}], cs[Max(t)])
    <3>1. m[t] = IF t = {} THEN base ELSE R[<<Max(t), m[t \ {Max(t)}]>>]
      BY <1>6 DEF LeftFold
    <3>2. t # {} => Max(t) \in 1 .. n /\ m[t \ {Max(t)}] \in V
      BY <1>1, Largest
    <3> QED
      BY <1>4, <3>1, <3>2
  <2> QED
    BY <1>1, <2>1
<1>8. PICK g : g = CHOOSE h : Fold(h)
  OBVIOUS
<1>9. Fold(g)
  BY <1>7, <1>8
<1>10. Placed(specs, picked, target, prefers) = g[1 .. n]
  BY <1>1, <1>8 DEF Placed, FoldLeft, MapThenFoldSet, OneStep, cs, base
<1>11. g[{}] \in V
  <2>1. {} \in SUBSET DOMAIN cs
    OBVIOUS
  <2> QED
    BY <1>2, <1>9, <2>1
<1>12. ASSUME NEW t \in SUBSET (1 .. n), t # {}, g[t \ {Max(t)}] \in V PROVE g[t] \in V
  <2>1. Max(t) \in 1 .. n /\ cs[Max(t)] \in Cards
    BY <1>1, <1>12, Largest
  <2>2. g[t] = OneStep(g[t \ {Max(t)}], cs[Max(t)])
    BY <1>1, <1>9, <1>12
  <2> QED
    BY <1>3, <1>12, <2>1, <2>2
<1>13. g[1 .. n] \in V
  BY <1>1, <1>11, <1>12, LeftStays
<1> QED
  BY <1>10, <1>13 DEF V

Numbered(S, f) == \A x \in S : f[x] \in Int /\ x[1] \in Int /\ x[2] \in Int
FirstIn(x, S, f) ==
  \A y \in S : \/ f[x] > f[y]
               \/ f[x] = f[y] /\ (x[1] < y[1] \/ (x[1] = y[1] /\ x[2] <= y[2]))

LEMMA FirstOf ==
  ASSUME NEW S, IsFiniteSet(S), S # {}, NEW f, Numbered(S, f)
  PROVE  \E x \in S : FirstIn(x, S, f)
<1>1. PICK a, b, c : /\ a = [x \in S |-> f[x]] /\ b = [x \in S |-> 0 - x[1]]
                     /\ c = [x \in S |-> 0 - x[2]]
  OBVIOUS
<1>2. \A x \in S : a[x] \in Int /\ b[x] \in Int /\ c[x] \in Int
  BY <1>1 DEF Numbered
<1>3. PICK x \in S : \A y \in S :
         \/ a[x] > a[y]
         \/ a[x] = a[y] /\ b[x] > b[y]
         \/ a[x] = a[y] /\ b[x] = b[y] /\ c[x] >= c[y]
  BY <1>2, BestOf
<1>4. FirstIn(x, S, f)
  BY <1>1, <1>3 DEF FirstIn, Numbered
<1> QED
  BY <1>4

LEMMA MovedOne ==
  ASSUME NEW size \in Nat, NEW specs, Takers(specs, size), NEW floors \in [1 .. size -> Int],
         NEW at \in 1 .. size, NEW given \in GivenIn(size)
  PROVE  /\ Moved(given, specs, floors, at) \in GivenIn(size)
         /\ Meeting(given, floors, size) \subseteq Meeting(Moved(given, specs, floors, at), floors, size)
<1> DEFINE spare(i) == Len(given[i]) > IF floors[i] > 0 THEN floors[i] ELSE 1
           others == UNION {{i} \X DOMAIN given[i] : i \in DOMAIN given \ {at}}
           from == {x \in others : spare(x[1]) /\ given[x[1]][x[2]] \in specs[at].papers}
           gain(x) == Fit(given[x[1]][x[2]], specs[at]) - Fit(given[x[1]][x[2]], specs[x[1]])
           First(x) == \A y \in from :
                \/ gain(x) > gain(y)
                \/ gain(x) = gain(y) /\ (x[1] < y[1] \/ (x[1] = y[1] /\ x[2] <= y[2]))
           best == CHOOSE x \in from : First(x)
<1>1. \A x \in from : /\ x[1] \in (1 .. size) \ {at} /\ x[2] \in DOMAIN given[x[1]] /\ spare(x[1])
                      /\ given[x[1]][x[2]] \in Cards /\ given[x[1]] \in Seq(Cards)
  BY DEF GivenIn
<1>5. \A x \in from : x[1] \in Int /\ x[2] \in Int /\ given[x[1]][x[2]] \in Cards
  <2> SUFFICES ASSUME NEW x \in from
               PROVE  x[1] \in Int /\ x[2] \in Int /\ given[x[1]][x[2]] \in Cards
    OBVIOUS
  <2> HIDE DEF from
  <2>1. /\ x[1] \in (1 .. size) \ {at} /\ x[2] \in DOMAIN given[x[1]]
        /\ given[x[1]][x[2]] \in Cards /\ given[x[1]] \in Seq(Cards)
    BY <1>1
  <2> QED
    BY <2>1
<1>2. IsFiniteSet(from)
  <2>1. PICK f : f = [i \in (1 .. size) \ {at} |-> {i} \X DOMAIN given[i]]
    OBVIOUS
  <2>2. IsFiniteSet((1 .. size) \ {at})
    <3>1. IsFiniteSet(1 .. size)
      BY FS_Interval
    <3> QED
      BY <3>1, FS_Subset
  <2>3. ASSUME NEW i \in (1 .. size) \ {at} PROVE IsFiniteSet(f[i])
    <3>1. given[i] \in Seq(Cards)
      BY DEF GivenIn
    <3>2. PICK l \in Nat : DOMAIN given[i] = 1 .. l
      BY <3>1
    <3>3. IsFiniteSet({i}) /\ IsFiniteSet(1 .. l)
      <4>1. IsFiniteSet({i})
        BY FS_Singleton
      <4>2. 1 \in Int /\ l \in Int
        OBVIOUS
      <4>3. IsFiniteSet(1 .. l)
        BY <4>2, FS_Interval
      <4> QED
        BY <4>1, <4>3
    <3>4. IsFiniteSet({i} \X (1 .. l))
      BY <3>3, FS_Product
    <3> QED
      BY <2>1, <3>2, <3>4
  <2>4. IsFiniteSet(UNION {f[i] : i \in (1 .. size) \ {at}})
    BY <2>2, <2>3, UnionFinite
  <2>5. from \subseteq UNION {f[i] : i \in (1 .. size) \ {at}}
    BY <2>1 DEF GivenIn
  <2> HIDE DEF from
  <2> QED
    BY <2>4, <2>5, FS_Subset
<1>3. CASE Len(given[at]) >= floors[at] \/ from = {}
  <2>1. Moved(given, specs, floors, at) = given
    BY <1>3, Zenon DEF Moved
  <2> QED
    BY <2>1
<1>4. CASE ~(Len(given[at]) >= floors[at] \/ from = {})
  <2>1. Moved(given, specs, floors, at)
          = [given EXCEPT ![best[1]] = RemoveAt(@, best[2]),
                          ![at] = Append(@, given[best[1]][best[2]])]
    BY <1>4, Zenon DEF Moved
  <2>2. PICK S, f : S = from /\ f = [x \in from |-> gain(x)]
    OBVIOUS
  <2>3. ASSUME NEW x \in from PROVE gain(x) \in Int
    <3>1. given[x[1]][x[2]] \in Cards
      BY <1>5
    <3>2. PICK s1, s2 : s1 = specs[at] /\ s2 = specs[x[1]]
      OBVIOUS
    <3>3. PICK p : p = given[x[1]][x[2]]
      OBVIOUS
    <3>4. Fit(p, s1) \in Int /\ Fit(p, s2) \in Int
      BY <3>1, <3>3, FitIn
    <3>5. gain(x) = Fit(p, s1) - Fit(p, s2)
      BY <3>2, <3>3
    <3> QED
      BY <3>4, <3>5
  <2>4. \E x \in from : First(x)
    <3>1. IsFiniteSet(S) /\ S # {}
      BY <1>2, <1>4, <2>2
    <3> HIDE DEF from, gain
    <3>2. Numbered(S, f)
      BY <1>5, <2>2, <2>3 DEF Numbered
    <3>3. PICK x \in S : FirstIn(x, S, f)
      BY <3>1, <3>2, FirstOf
    <3> QED
      BY <2>2, <3>3 DEF FirstIn
  <2>5. best \in from
    <3> HIDE DEF from, First
    <3> QED
      BY <2>4
  <2>6. PICK i, k : i = best[1] /\ k = best[2]
    OBVIOUS
  <2>7. /\ i \in 1 .. size /\ i # at /\ k \in DOMAIN given[i] /\ spare(i)
        /\ given[i][k] \in Cards /\ given[i] \in Seq(Cards) /\ given[at] \in Seq(Cards)
    <3> HIDE DEF from, spare, best
    <3>1. given[at] \in Seq(Cards)
      BY DEF GivenIn
    <3> QED
      BY <1>1, <2>5, <2>6, <3>1
  <2>8. PICK new : new = Moved(given, specs, floors, at)
    OBVIOUS
  <2>9. /\ new = [given EXCEPT ![i] = RemoveAt(@, k), ![at] = Append(@, given[i][k])]
    BY <2>1, <2>6, <2>8
  <2> HIDE DEF best, from
  <2>10. /\ RemoveAt(given[i], k) \in Seq(Cards) /\ Len(RemoveAt(given[i], k)) = Len(given[i]) - 1
    BY <2>7, WithoutOne
  <2>11. /\ new[i] = RemoveAt(given[i], k) /\ new[at] = Append(given[at], given[i][k])
         /\ \A j \in 1 .. size \ {i, at} : new[j] = given[j]
    BY <2>7, <2>9 DEF GivenIn
  <2>12. new \in GivenIn(size)
    <3>1. Append(given[at], given[i][k]) \in Seq(Cards)
      BY <2>7
    <3> QED
      BY <2>7, <2>9, <2>10, <3>1 DEF GivenIn
  <2>13. ASSUME NEW j \in 1 .. size, Len(given[j]) >= floors[j] PROVE Len(new[j]) >= floors[j]
    <3>1. CASE j = i
      <4>1. Len(given[i]) \in Nat /\ floors[i] \in Int
        BY <2>7
      <4> QED
        BY <2>7, <2>10, <2>11, <3>1, <4>1
    <3>2. CASE j = at
      <4>1. Len(given[at]) \in Nat /\ floors[at] \in Int /\ Len(new[at]) = Len(given[at]) + 1
        BY <2>7, <2>11
      <4> QED
        BY <2>13, <3>2, <4>1
    <3> QED
      BY <2>11, <2>13, <3>1, <3>2
  <2> QED
    BY <2>8, <2>12, <2>13 DEF Meeting
<1> QED
  BY <1>3, <1>4

LEMMA ServedKeeps ==
  ASSUME NEW size \in Nat, NEW specs, Takers(specs, size), NEW floors \in [1 .. size -> Int],
         NEW at \in 1 .. size, NEW given \in GivenIn(size), NEW held \in SUBSET (1 .. size),
         held \subseteq Meeting(given, floors, size)
  PROVE  Served(given, specs, floors, at) \in Keeping(floors, held, size)
<1> DEFINE cs == [k \in 1 .. floors[at] |-> k]
           V == Keeping(floors, held, size)
           n == Len(cs)
           base == given
           OneStep(done, c) == Moved(done, specs, floors, at)
           Fold(g) == g = [t \in SUBSET DOMAIN cs |->
                             IF t = {} THEN base
                             ELSE OneStep(g[t \ {Max(t)}], cs[Max(t)])]
<1>1. /\ n \in Nat /\ DOMAIN cs = 1 .. n /\ \A i \in 1 .. n : cs[i] \in Int
  <2>1. PICK f \in Int : f = floors[at]
    OBVIOUS
  <2>2. PICK l : l = IF f >= 0 THEN f ELSE 0
    OBVIOUS
  <2>3. l \in Nat /\ 1 .. f = 1 .. l
    BY <2>1, <2>2
  <2>4. PICK s : s = [k \in 1 .. l |-> k]
    OBVIOUS
  <2>5. s = [k \in 1 .. l |-> s[k]] /\ \A k \in 1 .. l : s[k] \in Int
    BY <2>3, <2>4
  <2>6. s \in Seq(Int) /\ Len(s) = l /\ DOMAIN s = 1 .. l
    BY <2>3, <2>5, ListOf
  <2>7. s = cs
    BY <2>1, <2>3, <2>4
  <2> QED
    BY <2>3, <2>5, <2>6, <2>7
<1>2. base \in V
  BY DEF Keeping
<1>3. ASSUME NEW done \in V, NEW c \in Int PROVE OneStep(done, c) \in V
  BY MovedOne DEF Keeping
<1> HIDE DEF V, n, OneStep, cs, base
<1>4. PICK R : R = [p \in (1 .. n) \X V |-> OneStep(p[2], cs[p[1]])]
  OBVIOUS
<1>5. R \in [(1 .. n) \X V -> V]
  BY <1>1, <1>3, <1>4
<1>6. PICK m \in [SUBSET (1 .. n) -> V] : LeftFold(m, n, base, R)
  BY <1>1, <1>2, <1>5, LeftExists
<1>7. Fold(m)
  <2>1. ASSUME NEW t \in SUBSET (1 .. n)
        PROVE  m[t] = IF t = {} THEN base ELSE OneStep(m[t \ {Max(t)}], cs[Max(t)])
    <3>1. m[t] = IF t = {} THEN base ELSE R[<<Max(t), m[t \ {Max(t)}]>>]
      BY <1>6 DEF LeftFold
    <3>2. t # {} => Max(t) \in 1 .. n /\ m[t \ {Max(t)}] \in V
      BY <1>1, Largest
    <3> QED
      BY <1>4, <3>1, <3>2
  <2> QED
    BY <1>1, <2>1
<1>8. PICK g : g = CHOOSE h : Fold(h)
  OBVIOUS
<1>9. Fold(g)
  BY <1>7, <1>8
<1>10. Served(given, specs, floors, at) = g[1 .. n]
  BY <1>1, <1>8 DEF Served, FoldLeft, MapThenFoldSet, OneStep, cs, base
<1>11. g[{}] \in V
  <2>1. {} \in SUBSET DOMAIN cs
    OBVIOUS
  <2> QED
    BY <1>2, <1>9, <2>1
<1>12. ASSUME NEW t \in SUBSET (1 .. n), t # {}, g[t \ {Max(t)}] \in V PROVE g[t] \in V
  <2>1. Max(t) \in 1 .. n /\ cs[Max(t)] \in Int
    BY <1>1, <1>12, Largest
  <2>2. g[t] = OneStep(g[t \ {Max(t)}], cs[Max(t)])
    BY <1>1, <1>9, <1>12
  <2> QED
    BY <1>3, <1>12, <2>1, <2>2
<1>13. g[1 .. n] \in V
  BY <1>1, <1>11, <1>12, LeftStays
<1> QED
  BY <1>10, <1>13 DEF V

LevelledIn(size) == [given : GivenIn(size), short : SUBSET Nat]
Settles(done, specs, floors, size) ==
  {i \in 1 .. size : specs[i].key \in done.short \/ i \in Meeting(done.given, floors, size)}

LEMMA LevelOne ==
  ASSUME NEW size \in Nat, NEW specs, Takers(specs, size), NEW floors \in [1 .. size -> Int],
         NEW at \in 1 .. size, NEW done \in LevelledIn(size)
  PROVE  /\ Level(done, at, specs, floors) \in LevelledIn(size)
         /\ Settles(done, specs, floors, size) \cup {at}
              \subseteq Settles(Level(done, at, specs, floors), specs, floors, size)
<1>1. PICK given, short, held : /\ given = done.given /\ short = done.short
                                /\ held = Meeting(given, floors, size)
  OBVIOUS
<1>2. given \in GivenIn(size) /\ short \in SUBSET Nat /\ held \in SUBSET (1 .. size)
  BY <1>1 DEF LevelledIn, Meeting
<1>3. PICK g : g = Served(given, specs, floors, at)
  OBVIOUS
<1>4. g \in Keeping(floors, held, size)
  BY <1>1, <1>2, <1>3, ServedKeeps
<1>5. PICK more : more = IF Len(g[at]) < floors[at] THEN {specs[at].key} ELSE {}
  OBVIOUS
<1>6. Level(done, at, specs, floors) = [given |-> g, short |-> short \cup more]
  BY <1>1, <1>3, <1>5 DEF Level
<1>7. more \in SUBSET Nat
  BY <1>5 DEF Takers
<1>8. g \in GivenIn(size) /\ held \subseteq Meeting(g, floors, size)
  BY <1>4 DEF Keeping
<1>9. specs[at].key \in short \cup more \/ at \in Meeting(g, floors, size)
  <2>1. g[at] \in Seq(Cards) /\ floors[at] \in Int
    BY <1>8 DEF GivenIn
  <2>2. Len(g[at]) \in Nat
    BY <2>1
  <2> QED
    BY <1>5, <2>1, <2>2 DEF Meeting
<1>10. PICK new : new = Level(done, at, specs, floors)
  OBVIOUS
<1>11. new.given = g /\ new.short = short \cup more /\ new \in LevelledIn(size)
  BY <1>2, <1>6, <1>7, <1>8, <1>10 DEF LevelledIn
<1>12. Meeting(done.given, floors, size) \subseteq Meeting(new.given, floors, size)
  BY <1>1, <1>8, <1>11
<1>13. Settles(done, specs, floors, size) \cup {at} \subseteq Settles(new, specs, floors, size)
  BY <1>1, <1>9, <1>11, <1>12 DEF Settles
<1> QED
  BY <1>10, <1>11, <1>13

Levels(v, placed, specs, floors, size) ==
  /\ v[0] = [given |-> placed, short |-> {}] /\ v[size] = Levelled(placed, specs, floors)
  /\ \A i \in 1 .. size : v[i] = Level(v[i - 1], [at \in DOMAIN specs |-> at][i], specs, floors)
  /\ \A i \in 0 .. size : v[i] \in LevelledIn(size)

LEMMA LevelsAll ==
  ASSUME NEW size \in Nat, NEW specs, Takers(specs, size), NEW floors \in [1 .. size -> Int],
         NEW placed \in GivenIn(size)
  PROVE  \E v : Levels(v, placed, specs, floors, size)
<1> DEFINE cs == [at \in DOMAIN specs |-> at]
           V == LevelledIn(size)
           n == Len(cs)
           base == [given |-> placed, short |-> {}]
           OneStep(done, c) == Level(done, c, specs, floors)
           Fold(g) == g = [t \in SUBSET DOMAIN cs |->
                             IF t = {} THEN base
                             ELSE OneStep(g[t \ {Max(t)}], cs[Max(t)])]
<1>1. /\ n \in Nat /\ DOMAIN cs = 1 .. n /\ \A i \in 1 .. n : cs[i] \in (1 .. size)
  <2>1. cs = [at \in 1 .. size |-> at]
    BY DEF Takers
  <2>2. cs = [at \in 1 .. size |-> cs[at]] /\ \A at \in 1 .. size : cs[at] = at
    BY <2>1
  <2>3. cs \in Seq(1 .. size) /\ Len(cs) = size /\ DOMAIN cs = 1 .. size
    BY <2>2, ListOf
  <2> QED
    BY <2>2, <2>3
<1>2. base \in V
  BY DEF LevelledIn
<1>3. ASSUME NEW done \in V, NEW i \in 1 .. n PROVE OneStep(done, cs[i]) \in V
  BY <1>1, LevelOne
<1> HIDE DEF V, n, OneStep, cs, base
<1>4. PICK R : R = [p \in (1 .. n) \X V |-> OneStep(p[2], cs[p[1]])]
  OBVIOUS
<1>5. R \in [(1 .. n) \X V -> V]
  BY <1>3, <1>4
<1>6. PICK m \in [SUBSET (1 .. n) -> V] : LeftFold(m, n, base, R)
  BY <1>1, <1>2, <1>5, LeftExists
<1>7. Fold(m)
  <2>1. ASSUME NEW t \in SUBSET (1 .. n)
        PROVE  m[t] = IF t = {} THEN base ELSE OneStep(m[t \ {Max(t)}], cs[Max(t)])
    <3>1. m[t] = IF t = {} THEN base ELSE R[<<Max(t), m[t \ {Max(t)}]>>]
      BY <1>6 DEF LeftFold
    <3>2. t # {} => Max(t) \in 1 .. n /\ m[t \ {Max(t)}] \in V
      BY <1>1, Largest
    <3> QED
      BY <1>4, <3>1, <3>2
  <2> QED
    BY <1>1, <2>1
<1>8. PICK g : g = CHOOSE h : Fold(h)
  OBVIOUS
<1>9. Fold(g)
  BY <1>7, <1>8
<1>10. Levelled(placed, specs, floors) = g[1 .. n]
  BY <1>1, <1>8 DEF Levelled, FoldLeft, MapThenFoldSet, OneStep, cs, base
<1>11. PICK v : v = [i \in 0 .. n |-> g[1 .. i]]
  OBVIOUS
<1>12. v[0] = base
  <2>1. 1 .. 0 = {} /\ 0 \in 0 .. n /\ {} \in SUBSET DOMAIN cs
    BY <1>1
  <2> QED
    BY <1>9, <1>11, <2>1
<1>13. ASSUME NEW i \in 1 .. n PROVE v[i] = OneStep(v[i - 1], cs[i])
  <2>1. 1 .. i \in SUBSET (1 .. n) /\ 1 .. i # {} /\ Max(1 .. i) = i /\ (1 .. i) \ {i} = 1 .. i - 1
    BY <1>1, MaxInterval
  <2>2. i \in 0 .. n /\ i - 1 \in 0 .. n
    BY <1>1
  <2> QED
    BY <1>1, <1>9, <1>11, <2>1, <2>2
<1>14. \A i \in 0 .. n : v[i] \in V
  <2> DEFINE G == {i \in 0 .. n : v[i] \in V}
  <2>1. 0 \in G
    BY <1>1, <1>2, <1>12
  <2>2. \A i \in 1 .. n : i - 1 \in G => i \in G
    BY <1>1, <1>3, <1>13
  <2> HIDE DEF G
  <2>3. \A i \in 0 .. n : i \in G
    BY <1>1, <2>1, <2>2, Climbs
  <2> QED
    BY <2>3 DEF G
<1>15. n \in 0 .. n /\ v[n] = Levelled(placed, specs, floors)
  BY <1>1, <1>10, <1>11
<1>16. n = size
  <2>1. n \in Nat /\ 1 .. n = 1 .. size
    BY <1>1 DEF cs, Takers
  <2> QED
    BY <2>1
<1>17. /\ v[0] = base /\ v[size] = Levelled(placed, specs, floors)
       /\ \A i \in 1 .. size : v[i] = OneStep(v[i - 1], cs[i])
       /\ \A i \in 0 .. size : v[i] \in V
  BY <1>12, <1>13, <1>14, <1>15, <1>16
<1> QED
  BY <1>17 DEF OneStep, base, V, cs, Levels

LEMMA LevelledSettles ==
  ASSUME NEW size \in Nat, NEW specs, Takers(specs, size), NEW floors \in [1 .. size -> Int],
         NEW placed \in GivenIn(size)
  PROVE  /\ Levelled(placed, specs, floors) \in LevelledIn(size)
         /\ 1 .. size \subseteq Settles(Levelled(placed, specs, floors), specs, floors, size)
<1>1. PICK v : Levels(v, placed, specs, floors, size)
  BY LevelsAll
<1>2. /\ v[size] = Levelled(placed, specs, floors)
      /\ \A i \in 1 .. size : v[i] = Level(v[i - 1], i, specs, floors)
      /\ \A i \in 0 .. size : v[i] \in LevelledIn(size)
  <2>1. ASSUME NEW i \in 1 .. size PROVE v[i] = Level(v[i - 1], i, specs, floors)
    <3>1. i \in DOMAIN specs
      BY DEF Takers
    <3>2. [at \in DOMAIN specs |-> at][i] = i
      BY <3>1
    <3> QED
      BY <1>1, <3>2 DEF Levels
  <2> QED
    BY <1>1, <2>1 DEF Levels
<1>3. PICK H, P : /\ H = [i \in 0 .. size |-> Settles(v[i], specs, floors, size)]
                  /\ P = [i \in 1 .. size |-> {i}]
  OBVIOUS
<1>4. Gathers(H, P, size)
  <2> SUFFICES ASSUME NEW i \in 1 .. size PROVE H[i - 1] \cup P[i] \subseteq H[i]
    BY DEF Gathers
  <2>1. PICK j \in 0 .. size : j = i - 1 /\ i \in 0 .. size
    OBVIOUS
  <2>2. PICK done, new : done = v[j] /\ new = v[i]
    OBVIOUS
  <2>3. done \in LevelledIn(size) /\ new = Level(done, i, specs, floors)
    BY <1>2, <2>1, <2>2
  <2>4. Settles(done, specs, floors, size) \cup {i} \subseteq Settles(new, specs, floors, size)
    BY <2>3, LevelOne
  <2>5. H[j] = Settles(done, specs, floors, size) /\ H[i] = Settles(new, specs, floors, size)
        /\ P[i] = {i}
    BY <1>3, <2>1, <2>2
  <2> QED
    BY <2>1, <2>4, <2>5
<1>5. \A i \in 1 .. size : P[i] \subseteq H[size]
  BY <1>4, GathersAll
<1>6. size \in 0 .. size
  OBVIOUS
<1> QED
  BY <1>2, <1>3, <1>5, <1>6

(* What a text reports: as ShortReported says it of one text.              *)
Spoken(specs, short, given) ==
  \A k \in DOMAIN specs : specs[k].key \notin short => Len(given[k]) >= specs[k].floor

LEMMA FloorAtLeast ==
  ASSUME NEW type, NEW spec, spec.floor \in Nat, NEW target
  PROVE  FloorOf(type, spec, target) \in Int /\ FloorOf(type, spec, target) >= spec.floor
BY DEF FloorOf

LEMMA AllocatedHolds ==
  ASSUME NEW size \in Nat, NEW specs, Takers(specs, size), \A i \in 1 .. size : specs[i].floor \in Nat,
         NEW picked \in Seq(Cards), NEW type, NEW target, NEW prefers
  PROVE  LET answer == Allocate(type, specs, picked, target, prefers)
         IN Spoken(specs, answer.short, answer.given)
<1>1. PICK floors : floors = [i \in DOMAIN specs |-> FloorOf(type, specs[i], target)]
  OBVIOUS
<1>2. DOMAIN specs = 1 .. size
  BY DEF Takers
<1>3. ASSUME NEW i \in 1 .. size PROVE floors[i] \in Int /\ floors[i] >= specs[i].floor
  <2>1. floors[i] = FloorOf(type, specs[i], target)
    BY <1>1, <1>2
  <2> QED
    BY <2>1, FloorAtLeast
<1>4. floors \in [1 .. size -> Int]
  BY <1>1, <1>2, <1>3
<1>5. PICK placed : placed = Placed(specs, picked, target, prefers)
  OBVIOUS
<1>6. placed \in GivenIn(size)
  BY <1>5, PlacedIn
<1>7. PICK answer : answer = Levelled(placed, specs, floors)
  OBVIOUS
<1>8. answer \in LevelledIn(size) /\ 1 .. size \subseteq Settles(answer, specs, floors, size)
  BY <1>4, <1>6, <1>7, LevelledSettles
<1>9. ASSUME NEW k \in 1 .. size, specs[k].key \notin answer.short
      PROVE  Len(answer.given[k]) >= specs[k].floor
  <2>1. Len(answer.given[k]) >= floors[k]
    BY <1>8, <1>9 DEF Settles, Meeting
  <2>2. Len(answer.given[k]) \in Nat
    <3>1. answer.given[k] \in Seq(Cards)
      BY <1>8 DEF LevelledIn, GivenIn
    <3> QED
      BY <3>1
  <2> QED
    BY <1>3, <2>1, <2>2
<1>10. Allocate(type, specs, picked, target, prefers) = answer
  BY <1>1, <1>5, <1>7 DEF Allocate
<1> QED
  BY <1>2, <1>9, <1>10 DEF Spoken

(* A section that gets citations stands for the section of its key, and    *)
(* has its floor.                                                          *)
StandsFor(specs, sections) ==
  \A k \in DOMAIN specs :
    /\ specs[k].key \in Nat /\ specs[k].floor \in Nat
    /\ specs[k].papers \in SUBSET Cards
    /\ specs[k].key > 0 => specs[k].floor = sections[specs[k].key].floor

LEMMA CitedStands ==
  ASSUME NEW W, NEW sections \in Seq(SectionIn(W)), NEW picked \in Seq(Cards), NEW backing
  PROVE  /\ \E X : Cited(sections, picked, backing) \in Seq(X)
         /\ StandsFor(Cited(sections, picked, backing), sections)
<1> DEFINE within(i) == [key |-> i, id |-> sections[i].id, words |-> sections[i].words,
                         papers |-> sections[i].papers \cap Range(picked),
                         floor |-> sections[i].floor]
           I == {i \in DOMAIN sections : within(i).papers # {} /\ sections[i].id \notin Structural}
           all == [i \in DOMAIN sections |-> within(i)]
           some == Entries(all, I)
           body == [key |-> 0, id |-> "body", papers |-> Range(picked), words |-> {}, floor |-> 0]
           specs == IF some = <<>> /\ picked # <<>> THEN <<body>> ELSE some
           homeless == (Range(picked) \cap backing) \ Pool(specs)
<1>1. Range(picked) \in SUBSET Cards
  BY RangeFinite
<1>2. PICK n \in Nat : DOMAIN sections = 1 .. n
  OBVIOUS
<1>3. ASSUME NEW i \in 1 .. n
      PROVE  /\ all[i].key = i /\ all[i].floor = sections[i].floor /\ all[i].floor \in Nat
             /\ all[i].papers \in SUBSET Cards
  <2>1. all[i] = within(i)
    BY <1>2
  <2>2. PICK x : x = sections[i]
    OBVIOUS
  <2>3. x \in SectionIn(W)
    BY <1>2, <2>2
  <2>4. PICK f \in Nat : f = x.floor
    BY <2>3 DEF SectionIn
  <2>5. PICK p \in SUBSET Cards : p = x.papers \cap Range(picked)
    BY <1>1
  <2>6. all[i] = [key |-> i, id |-> x.id, words |-> x.words, papers |-> p, floor |-> f]
    BY <2>1, <2>2, <2>4, <2>5
  <2> HIDE DEF all
  <2>7. all[i].key = i /\ all[i].floor = f /\ all[i].papers = p
    BY <2>6
  <2> QED
    BY <2>2, <2>4, <2>5, <2>7
<1>4. PICK X : X = {all[i] : i \in 1 .. n}
  OBVIOUS
<1>5. all \in Seq(X)
  <2>1. all = [i \in 1 .. n |-> all[i]] /\ \A i \in 1 .. n : all[i] \in X
    BY <1>2, <1>4
  <2> HIDE DEF all
  <2> QED
    BY <2>1, ListOf
<1>6. I \in SUBSET DOMAIN all
  OBVIOUS
<1> HIDE DEF I, all
<1>7. some \in Seq(X) /\ \E at : Selects(some, all, I, at)
  BY <1>5, <1>6, EntriesAt
<1>8. StandsFor(some, sections)
  <2>1. PICK at : Selects(some, all, I, at)
    BY <1>7
  <2>2. DOMAIN all = 1 .. n
    BY <1>2 DEF all
  <2> HIDE DEF some
  <2> SUFFICES ASSUME NEW k \in DOMAIN some
               PROVE  /\ some[k].key \in Nat /\ some[k].floor \in Nat
                      /\ some[k].papers \in SUBSET Cards
                      /\ some[k].key > 0 => some[k].floor = sections[some[k].key].floor
    BY DEF StandsFor
  <2>3. at[k] \in 1 .. n /\ some[k] = all[at[k]]
    BY <1>6, <2>1, <2>2 DEF Selects
  <2>4. PICK i \in 1 .. n : i = at[k]
    BY <2>3
  <2>5. some[k] = all[i]
    BY <2>3, <2>4
  <2> QED
    BY <1>3, <2>5
<1>9. (\E Y : specs \in Seq(Y)) /\ StandsFor(specs, sections)
  <2>1. CASE some = <<>> /\ picked # <<>>
    <3>1. specs = <<body>>
      BY <2>1
    <3>2. <<body>> \in Seq({body}) /\ DOMAIN <<body>> = {1} /\ <<body>>[1] = body
      OBVIOUS
    <3>3. body.key = 0 /\ body.floor = 0 /\ body.papers \in SUBSET Cards
      BY <1>1
    <3>4. PICK one : one = body
      OBVIOUS
    <3> HIDE DEF body
    <3>5. <<one>> \in Seq({one}) /\ DOMAIN <<one>> = {1} /\ <<one>>[1] = one
      OBVIOUS
    <3>6. StandsFor(<<one>>, sections)
      BY <3>3, <3>4, <3>5 DEF StandsFor
    <3>7. specs = <<one>>
      BY <3>1, <3>4
    <3> HIDE DEF specs
    <3>8. \E Y : specs \in Seq(Y)
      BY <3>5, <3>7
    <3> QED
      BY <3>6, <3>7, <3>8
  <2>2. CASE ~(some = <<>> /\ picked # <<>>)
    <3>1. specs = some
      BY <2>2
    <3> HIDE DEF specs, some
    <3> QED
      BY <1>7, <1>8, <3>1
  <2> QED
    BY <2>1, <2>2
<1>10. PICK c : c = Cited(sections, picked, backing)
  OBVIOUS
<1>11. c = IF specs = <<>> THEN specs ELSE [specs EXCEPT ![1].papers = @ \cup homeless]
  BY <1>10 DEF Cited, I, all
<1>12. homeless \in SUBSET Cards
  BY <1>1
<1> HIDE DEF specs, homeless
<1>13. CASE specs = <<>>
  BY <1>9, <1>10, <1>11, <1>13
<1>14. CASE specs # <<>>
  <2>1. PICK Y : specs \in Seq(Y)
    BY <1>9
  <2>2. PICK m \in Nat : DOMAIN specs = 1 .. m /\ 1 \in 1 .. m
    BY <1>14, <2>1
  <2>3. PICK first : first = [specs[1] EXCEPT !.papers = @ \cup homeless]
    OBVIOUS
  <2>4. c = [specs EXCEPT ![1] = first]
    BY <1>11, <1>14, <2>3
  <2>6. PICK Z : Z = Y \cup {first}
    OBVIOUS
  <2>5. c = [k \in 1 .. m |-> c[k]] /\ DOMAIN c = 1 .. m /\ \A k \in 1 .. m : c[k] \in Z
    <3>1. DOMAIN c = 1 .. m
      BY <2>2, <2>4
    <3>2. c = [k \in 1 .. m |-> IF k = 1 THEN first ELSE specs[k]]
      BY <2>2, <2>4
    <3>3. ASSUME NEW k \in 1 .. m PROVE c[k] \in Z
      <4>1. specs[k] \in Y
        BY <2>1, <2>2
      <4> QED
        BY <2>6, <3>2, <4>1
    <3>4. c = [k \in 1 .. m |-> c[k]]
      BY <3>2
    <3> QED
      BY <3>1, <3>3, <3>4
  <2>7. c \in Seq(Z)
    BY <2>5, <2>6, ListOf
  <2>8. c[1] = first /\ \A k \in 2 .. m : c[k] = specs[k]
    BY <2>2, <2>4
  <2>9. /\ first.key = specs[1].key /\ first.floor = specs[1].floor
        /\ first.papers \in SUBSET Cards
    BY <1>9, <1>12, <2>2, <2>3 DEF StandsFor
  <2>10. StandsFor(c, sections)
    <3> SUFFICES ASSUME NEW k \in 1 .. m
                 PROVE  /\ c[k].key \in Nat /\ c[k].floor \in Nat /\ c[k].papers \in SUBSET Cards
                        /\ c[k].key > 0 => c[k].floor = sections[c[k].key].floor
      BY <2>5 DEF StandsFor
    <3>1. CASE k = 1
      BY <1>9, <2>2, <2>8, <2>9, <3>1 DEF StandsFor
    <3>2. CASE k \in 2 .. m
      BY <1>9, <2>2, <2>8, <3>2 DEF StandsFor
    <3> QED
      BY <3>1, <3>2
  <2> QED
    BY <1>10, <2>7, <2>10
<1> QED
  BY <1>13, <1>14

-----------------------------------------------------------------------------
(* The papers selected for a text have cards.                              *)
LEMMA ListWithin ==
  ASSUME NEW X, NEW e \in Seq(X), NEW Y, \A k \in DOMAIN e : e[k] \in Y
  PROVE  e \in Seq(Y)
<1>1. PICK n \in Nat : n = Len(e) /\ DOMAIN e = 1 .. n
  OBVIOUS
<1>2. e = [k \in 1 .. n |-> e[k]] /\ \A k \in 1 .. n : e[k] \in Y
  BY <1>1
<1> QED
  BY <1>2, ListOf

LEMMA InOrderIn ==
  ASSUME NEW papers
  PROVE  InOrder(papers) \in Seq(papers)
<1>1. PICK I : I = {i \in DOMAIN PaperSeq : PaperSeq[i] \in papers}
  OBVIOUS
<1>2. PICK e, X : e = InOrder(papers) /\ X = Range(PaperSeq)
  OBVIOUS
<1>3. PaperSeq \in Seq(X) /\ I \in SUBSET DOMAIN PaperSeq
  BY <1>1, <1>2, AllocationAssumption
<1>4. e = Entries(PaperSeq, I)
  BY <1>1, <1>2 DEF InOrder
<1>5. e \in Seq(X) /\ \E at : Selects(e, PaperSeq, I, at)
  BY <1>3, <1>4, EntriesAt
<1>6. \A k \in DOMAIN e : e[k] \in papers
  BY <1>1, <1>5 DEF Selects
<1>7. e \in Seq(papers)
  BY <1>5, <1>6, ListWithin
<1> QED
  BY <1>2, <1>7

LEMMA WiderList ==
  ASSUME NEW X, NEW Y, X \subseteq Y, NEW s \in Seq(X)
  PROVE  s \in Seq(Y)
<1>1. \A k \in DOMAIN s : s[k] \in Y
  OBVIOUS
<1> QED
  BY <1>1, ListWithin

LEMMA InOrderCards ==
  ASSUME NEW papers \in SUBSET Cards
  PROVE  InOrder(papers) \in Seq(Cards)
BY InOrderIn, WiderList

LEMMA AvailableIn ==
  ASSUME NEW allowed \in SUBSET Cards, NEW excluded, NEW target
  PROVE  Available(allowed, excluded, target) \in Seq(Cards)
<1>1. PICK u, w : u = InOrder(allowed \ excluded) /\ w = InOrder(allowed \cap excluded)
  OBVIOUS
<1>2. u \in Seq(Cards) /\ w \in Seq(Cards)
  <2>1. PICK a, b : a = allowed \ excluded /\ b = allowed \cap excluded
    OBVIOUS
  <2>2. a \in SUBSET Cards /\ b \in SUBSET Cards
    BY <2>1
  <2> QED
    BY <1>1, <2>1, <2>2, InOrderCards
<1>3. u \o w \in Seq(Cards)
  BY <1>2
<1> QED
  BY <1>1, <1>2, <1>3 DEF Available

LEMMA FlatIn ==
  ASSUME NEW X, NEW n \in Nat, NEW ss, ss = [i \in 1 .. n |-> ss[i]], \A i \in 1 .. n : ss[i] \in Seq(X)
  PROVE  FlattenSeq(ss) \in Seq(X)
<1>1. ss \in Seq(Seq(X))
  BY ListOf
<1> QED
  BY <1>1, FlattenAt

LEMMA ByTurnsIn ==
  ASSUME NEW available \in Seq(Cards), NEW where, NEW T, NEW themes \in Seq(T)
  PROVE  ByTurns(available, where, themes) \in Seq(Cards)
<1> DEFINE those(S) == Entries(available, {k \in DOMAIN available : where[available[k]] \in S})
           of(i) == those({themes[i]})
           others == {where[p] : p \in Range(available)} \ (Range(themes) \cup {"none"})
           turns(k) == [i \in DOMAIN themes |-> IF k <= Len(of(i)) THEN <<of(i)[k]>> ELSE <<>>]
           turn(k) == FlattenSeq(turns(k))
           all == [k \in DOMAIN available |-> turn(k)]
<1>1. PICK n \in Nat, m \in Nat : DOMAIN available = 1 .. n /\ DOMAIN themes = 1 .. m
  OBVIOUS
<1>2. ASSUME NEW S PROVE those(S) \in Seq(Cards)
  <2>1. PICK I : I = {k \in DOMAIN available : where[available[k]] \in S}
    OBVIOUS
  <2>2. I \in SUBSET DOMAIN available
    BY <2>1
  <2>3. Entries(available, I) \in Seq(Cards)
    BY <2>2, EntriesAt
  <2> QED
    BY <2>1, <2>3
<1>3. ASSUME NEW i PROVE of(i) \in Seq(Cards)
  BY <1>2
<1> HIDE DEF of
<1>4. ASSUME NEW k \in 1 .. n PROVE turn(k) \in Seq(Cards)
  <2>1. PICK ss : ss = turns(k)
    OBVIOUS
  <2>2. ASSUME NEW i \in 1 .. m PROVE ss[i] \in Seq(Cards)
    <3>1. of(i) \in Seq(Cards)
      BY <1>3
    <3>2. ss[i] = IF k <= Len(of(i)) THEN <<of(i)[k]>> ELSE <<>>
      BY <1>1, <2>1
    <3>3. k <= Len(of(i)) => of(i)[k] \in Cards
      BY <3>1
    <3> QED
      BY <3>2, <3>3
  <2>3. ss = [i \in 1 .. m |-> ss[i]]
    BY <1>1, <2>1
  <2>4. FlattenSeq(ss) \in Seq(Cards)
    BY <2>2, <2>3, FlatIn
  <2> QED
    BY <2>1, <2>4
<1> HIDE DEF turn
<1>5. FlattenSeq(all) \in Seq(Cards)
  <2>1. all = [k \in 1 .. n |-> all[k]] /\ \A k \in 1 .. n : all[k] \in Seq(Cards)
    BY <1>1, <1>4
  <2> HIDE DEF all
  <2> QED
    BY <2>1, FlatIn
<1>6. those({"none"}) \in Seq(Cards) /\ those(others) \in Seq(Cards)
  BY <1>2
<1>7. PICK u, v, w : u = FlattenSeq(all) /\ v = those({"none"}) /\ w = those(others)
  OBVIOUS
<1>8. ByTurns(available, where, themes) = u \o v \o w
  BY <1>7 DEF ByTurns, of, turn
<1>9. u \in Seq(Cards) /\ v \in Seq(Cards) /\ w \in Seq(Cards)
  BY <1>5, <1>6, <1>7
<1> HIDE DEF those, others, all
<1>10. u \o v \o w \in Seq(Cards)
  BY <1>9
<1> QED
  BY <1>8, <1>10

LEMMA FewIn ==
  ASSUME NEW X, NEW s \in Seq(X), NEW n \in Int
  PROVE  SubSeq(s, 1, Min({n, Len(s)})) \in Seq(X)
<1>1. PICK m : m = Min({n, Len(s)})
  OBVIOUS
<1>2. PICK l \in Nat : l = Len(s)
  OBVIOUS
<1>3. l \in Int
  OBVIOUS
<1>4. m \in {n, l} /\ m <= l
  BY <1>1, <1>2, <1>3, OfTwo
<1>5. m \in Int /\ m <= Len(s)
  BY <1>2, <1>4
<1> QED
  BY <1>1, <1>5, FirstFew

LEMMA WithThemesIn ==
  ASSUME NEW picked \in Seq(Cards), NEW allowed \in SUBSET Cards, NEW excluded, NEW where,
         NEW T, NEW themes \in Seq(T)
  PROVE  WithThemes(picked, allowed, excluded, where, themes) \in Seq(Cards)
<1>1. PICK I : I = {k \in DOMAIN themes : \A i \in DOMAIN picked : where[picked[i]] # themes[k]}
  OBVIOUS
<1>2. PICK absent : absent = Entries(themes, I)
  OBVIOUS
<1>3. absent \in Seq(T)
  <2>1. I \in SUBSET DOMAIN themes
    BY <1>1
  <2> QED
    BY <1>2, <2>1, EntriesAt
<1>4. PICK n \in Nat : DOMAIN absent = 1 .. n
  BY <1>3
<1> DEFINE lent(t) == InOrder({p \in allowed \cap excluded : where[p] = t})
           one(i) == SubSeq(lent(absent[i]), 1, Min({1, Len(lent(absent[i]))}))
<1>5. ASSUME NEW i \in 1 .. n PROVE one(i) \in Seq(Cards)
  <2>1. PICK P : P = {p \in allowed \cap excluded : where[p] = absent[i]}
    OBVIOUS
  <2>2. P \in SUBSET Cards
    BY <2>1
  <2>3. PICK s : s = InOrder(P)
    OBVIOUS
  <2>4. s \in Seq(Cards)
    BY <2>2, <2>3, InOrderCards
  <2>5. 1 \in Int
    OBVIOUS
  <2>6. SubSeq(s, 1, Min({1, Len(s)})) \in Seq(Cards)
    BY <2>4, <2>5, FewIn
  <2>7. lent(absent[i]) = s
    BY <2>1, <2>3
  <2> HIDE DEF lent
  <2> QED
    BY <2>6, <2>7
<1> HIDE DEF one
<1>6. PICK ss : ss = [i \in DOMAIN absent |-> one(i)]
  OBVIOUS
<1>7. ss = [i \in 1 .. n |-> ss[i]] /\ \A i \in 1 .. n : ss[i] \in Seq(Cards)
  BY <1>4, <1>5, <1>6
<1>8. FlattenSeq(ss) \in Seq(Cards)
  BY <1>7, FlatIn
<1>9. WithThemes(picked, allowed, excluded, where, themes) = picked \o FlattenSeq(ss)
  BY <1>1, <1>2, <1>6 DEF WithThemes, one
<1>10. picked \o FlattenSeq(ss) \in Seq(Cards)
  BY <1>8
<1> QED
  BY <1>9, <1>10

LEMMA WithFloorIn ==
  ASSUME NEW W, NEW done \in Seq(Cards), NEW section \in SectionIn(W), NEW allowed \in SUBSET Cards,
         NEW available
  PROVE  WithFloor(done, section, allowed, available) \in Seq(Cards)
<1>1. PICK own, floor : own = section.papers \cap Cards /\ floor = section.floor
  OBVIOUS
<1>2. floor \in Nat
  BY <1>1 DEF SectionIn
<1>3. PICK held : held = own \cap Range(done)
  OBVIOUS
<1>4. PICK c : c = Cardinality(held)
  OBVIOUS
<1>5. c \in Nat
  <2>1. held \in SUBSET Cards
    BY <1>1, <1>3
  <2>2. IsFiniteSet(held)
    BY <2>1, CardsFinite, FS_Subset
  <2> QED
    BY <1>4, <2>2, FS_CardinalityType
<1>6. PICK lacking : lacking = floor - c
  OBVIOUS
<1>7. lacking \in Int
  BY <1>2, <1>5, <1>6
<1>8. PICK u, w : /\ u = InOrder((own \cap Range(available)) \ Range(done))
                  /\ w = InOrder((own \cap allowed) \ (Range(done) \cup Range(available)))
  OBVIOUS
<1>9. u \in Seq(Cards) /\ w \in Seq(Cards)
  <2>1. PICK a, b : /\ a = (own \cap Range(available)) \ Range(done)
                    /\ b = (own \cap allowed) \ (Range(done) \cup Range(available))
    OBVIOUS
  <2>2. a \in SUBSET Cards /\ b \in SUBSET Cards
    BY <1>1, <2>1
  <2> QED
    BY <1>8, <2>1, <2>2, InOrderCards
<1>10. PICK more : more = u \o w
  OBVIOUS
<1>11. more \in Seq(Cards)
  BY <1>9, <1>10
<1>12. SubSeq(more, 1, Min({lacking, Len(more)})) \in Seq(Cards)
  BY <1>7, <1>11, FewIn
<1>13. WithFloor(done, section, allowed, available)
         = IF lacking <= 0 THEN done ELSE done \o SubSeq(more, 1, Min({lacking, Len(more)}))
  BY <1>1, <1>3, <1>4, <1>6, <1>8, <1>10 DEF WithFloor
<1>14. PICK some : some = SubSeq(more, 1, Min({lacking, Len(more)}))
  OBVIOUS
<1>15. done \o some \in Seq(Cards)
  <2>1. some \in Seq(Cards)
    BY <1>12, <1>14
  <2> QED
    BY <2>1
<1> QED
  BY <1>13, <1>14, <1>15

LEMMA WithFloorsIn ==
  ASSUME NEW W, NEW picked \in Seq(Cards), NEW sections \in Seq(SectionIn(W)),
         NEW allowed \in SUBSET Cards, NEW available
  PROVE  WithFloors(picked, sections, allowed, available) \in Seq(Cards)
<1> DEFINE cs == sections
           V == Seq(Cards)
           n == Len(cs)
           base == picked
           OneStep(done, c) == WithFloor(done, c, allowed, available)
           Fold(g) == g = [t \in SUBSET DOMAIN cs |->
                             IF t = {} THEN base
                             ELSE OneStep(g[t \ {Max(t)}], cs[Max(t)])]
<1>1. /\ n \in Nat /\ DOMAIN cs = 1 .. n /\ \A i \in 1 .. n : cs[i] \in SectionIn(W)
  OBVIOUS
<1>2. base \in V
  OBVIOUS
<1>3. ASSUME NEW done \in V, NEW c \in SectionIn(W) PROVE OneStep(done, c) \in V
  BY WithFloorIn
<1> HIDE DEF V, n, OneStep, cs, base
<1>4. PICK R : R = [p \in (1 .. n) \X V |-> OneStep(p[2], cs[p[1]])]
  OBVIOUS
<1>5. R \in [(1 .. n) \X V -> V]
  BY <1>1, <1>3, <1>4
<1>6. PICK m \in [SUBSET (1 .. n) -> V] : LeftFold(m, n, base, R)
  BY <1>1, <1>2, <1>5, LeftExists
<1>7. Fold(m)
  <2>1. ASSUME NEW t \in SUBSET (1 .. n)
        PROVE  m[t] = IF t = {} THEN base ELSE OneStep(m[t \ {Max(t)}], cs[Max(t)])
    <3>1. m[t] = IF t = {} THEN base ELSE R[<<Max(t), m[t \ {Max(t)}]>>]
      BY <1>6 DEF LeftFold
    <3>2. t # {} => Max(t) \in 1 .. n /\ m[t \ {Max(t)}] \in V
      BY <1>1, Largest
    <3> QED
      BY <1>4, <3>1, <3>2
  <2> QED
    BY <1>1, <2>1
<1>8. PICK g : g = CHOOSE h : Fold(h)
  OBVIOUS
<1>9. Fold(g)
  BY <1>7, <1>8
<1>10. WithFloors(picked, sections, allowed, available) = g[1 .. n]
  BY <1>1, <1>8 DEF WithFloors, FoldLeft, MapThenFoldSet, OneStep, cs, base
<1>11. g[{}] \in V
  <2>1. {} \in SUBSET DOMAIN cs
    OBVIOUS
  <2> QED
    BY <1>2, <1>9, <2>1
<1>12. ASSUME NEW t \in SUBSET (1 .. n), t # {}, g[t \ {Max(t)}] \in V PROVE g[t] \in V
  <2>1. Max(t) \in 1 .. n /\ cs[Max(t)] \in SectionIn(W)
    BY <1>1, <1>12, Largest
  <2>2. g[t] = OneStep(g[t \ {Max(t)}], cs[Max(t)])
    BY <1>1, <1>9, <1>12
  <2> QED
    BY <1>3, <1>12, <2>1, <2>2
<1>13. g[1 .. n] \in V
  BY <1>1, <1>11, <1>12, LeftStays
<1> QED
  BY <1>10, <1>13 DEF V

LEMMA SelectIn ==
  ASSUME NEW W, NEW type, NEW sections \in Seq(SectionIn(W)), NEW allowed \in SUBSET Cards, NEW excluded,
         NEW target \in Int, NEW where, NEW T, NEW themes \in Seq(T)
  PROVE  Select(type, sections, allowed, excluded, target, where, themes) \in Seq(Cards)
<1>1. PICK available : available = Available(allowed, excluded, target)
  OBVIOUS
<1>2. available \in Seq(Cards)
  BY <1>1, AvailableIn
<1>3. PICK turns : turns = ByTurns(available, where, themes)
  OBVIOUS
<1>4. turns \in Seq(Cards)
  BY <1>2, <1>3, ByTurnsIn
<1>5. PICK first : first = SubSeq(turns, 1, Min({target, Len(turns)}))
  OBVIOUS
<1>6. first \in Seq(Cards)
  BY <1>4, <1>5, FewIn
<1>7. PICK voiced : voiced = IF type = "status" /\ excluded # {}
                             THEN WithThemes(first, allowed, excluded, where, themes) ELSE first
  OBVIOUS
<1>8. voiced \in Seq(Cards)
  <2>1. WithThemes(first, allowed, excluded, where, themes) \in Seq(Cards)
    BY <1>6, WithThemesIn
  <2> QED
    BY <1>6, <1>7, <2>1
<1>9. WithFloors(voiced, sections, allowed, available) \in Seq(Cards)
  BY <1>8, WithFloorsIn
<1> QED
  BY <1>1, <1>3, <1>5, <1>7, <1>9 DEF Select

-----------------------------------------------------------------------------
(* How many papers a text is to cite.                                      *)
LEMMA QuotaIn ==
  ASSUME NEW list \in Seq(Types), NEW target \in Int, NEW asked \in Range(list)
  PROVE  Quota(list, target)[asked] \in Int
<1>1. PICK types : types = Range(list)
  OBVIOUS
<1>2. types \in SUBSET Types /\ asked \in types
  BY <1>1, RangeFinite
<1>3. PICK least : least = [t \in types |-> Min({target, Least[t]})]
  OBVIOUS
<1>4. ASSUME NEW t \in types PROVE least[t] \in Int
  <2>1. PICK w : w = Least[t]
    OBVIOUS
  <2>2. w \in Int
    BY <1>2, <2>1 DEF Types, Least
  <2>3. Min({target, w}) \in {target, w}
    BY <2>2, OfTwo
  <2> QED
    BY <1>3, <2>1, <2>2, <2>3
<1>5. PICK assigned : assigned = SumOver(least, types)
  OBVIOUS
<1>6. assigned \in Int
  BY <1>4, <1>5 DEF SumOver
<1>7. PICK whole : whole = SumOver(Weight, types)
  OBVIOUS
<1>8. whole \in Nat \ {0}
  BY <1>2, <1>7 DEF SumOver, Weight, Types
<1>9. PICK left : left = target - assigned
  OBVIOUS
<1>10. PICK share : share = [t \in types |-> (left * Weight[t]) \div whole]
  OBVIOUS
<1>11. ASSUME NEW t \in types PROVE share[t] \in Int
  <2>1. PICK w : w = Weight[t]
    OBVIOUS
  <2>2. w \in Int
    BY <1>2, <2>1 DEF Types, Weight
  <2>3. left \in Int
    BY <1>6, <1>9
  <2>4. PICK part : part = left * w
    OBVIOUS
  <2>5. part \in Int
    BY <2>2, <2>3, <2>4
  <2>6. part \div whole \in Int
    BY <1>8, <2>5
  <2> QED
    BY <1>10, <2>1, <2>4, <2>6
<1>12. PICK quota : quota = Quota(list, target)
  OBVIOUS
<1>13. \/ quota = [t \in types |-> 0]
       \/ quota = [t \in types |-> target]
       \/ \E one : quota = [t \in types |-> IF one[t] THEN 1 ELSE 0]
       \/ \E more : quota = [t \in types |-> least[t] + share[t] + IF more[t] THEN 1 ELSE 0]
  <2>1. CASE target <= 0
    <3>1. quota = [t \in types |-> 0]
      BY <1>1, <1>12, <2>1, Zenon DEF Quota
    <3> QED
      BY <3>1
  <2>2. CASE ~(target <= 0) /\ Len(list) = 1
    <3>1. quota = [t \in types |-> target]
      BY <1>1, <1>12, <2>2, Zenon DEF Quota
    <3> QED
      BY <3>1
  <2> DEFINE place(t) == CHOOSE i \in DOMAIN list : list[i] = t
             part(t) == (left * Weight[t]) % whole
             over == left - SumOver(share, types)
             sorted == Arranged(types, {x \in types \X types :
                 \/ part(x[1]) > part(x[2])
                 \/ part(x[1]) = part(x[2]) /\ Weight[x[1]] > Weight[x[2]]
                 \/ /\ part(x[1]) = part(x[2]) /\ Weight[x[1]] = Weight[x[2]]
                    /\ place(x[1]) < place(x[2])})
  <2>3. CASE ~(target <= 0) /\ Len(list) # 1 /\ assigned > target
    <3>1. PICK one : one = [t \in types |-> place(t) <= target]
      OBVIOUS
    <3>2. quota = [t \in types |-> IF place(t) <= target THEN 1 ELSE 0]
      BY <1>1, <1>3, <1>5, <1>12, <2>3, Zenon DEF Quota
    <3> HIDE DEF place
    <3>3. quota = [t \in types |-> IF one[t] THEN 1 ELSE 0]
      BY <3>1, <3>2
    <3> QED
      BY <3>3
  <2>4. CASE ~(target <= 0) /\ Len(list) # 1 /\ ~(assigned > target)
    <3>1. PICK more : more = [t \in types |-> t \in Range(SubSeq(sorted, 1, over))]
      OBVIOUS
    <3>2. quota = [t \in types |-> least[t] + share[t]
                     + IF t \in Range(SubSeq(sorted, 1, over)) THEN 1 ELSE 0]
      BY <1>1, <1>3, <1>5, <1>7, <1>9, <1>10, <1>12, <2>4, Zenon DEF Quota
    <3> HIDE DEF sorted, over
    <3>3. quota = [t \in types |-> least[t] + share[t] + IF more[t] THEN 1 ELSE 0]
      BY <3>1, <3>2
    <3> QED
      BY <3>3
  <2> QED
    BY <2>1, <2>2, <2>3, <2>4
<1>14. quota[asked] \in Int
  <2>1. least[asked] \in Int /\ share[asked] \in Int
    BY <1>2, <1>4, <1>11
  <2> QED
    BY <1>2, <1>13, <2>1
<1> QED
  BY <1>12, <1>14

LEMMA RelatedIn ==
  ASSUME NEW W, IsFiniteSet(W), NEW themes \in Seq(RouteIn(W)), NEW max \in Int
  PROVE  RelatedRoutes(themes, max) \in Seq(RouteIn(W))
<1> DEFINE shared(i) == Cardinality(Profile \cap Text(themes[i]))
           places == DOMAIN themes
           before == {x \in places \X places :
                 shared(x[1]) > shared(x[2]) \/ (shared(x[1]) = shared(x[2]) /\ x[1] < x[2])}
           sorted == Arranged(places, before)
           near == Entries(sorted, {k \in DOMAIN sorted : shared(sorted[k]) > 0})
           from == IF near # <<>> THEN near ELSE sorted
<1>1. PICK n \in Nat : places = 1 .. n
  OBVIOUS
<1>2. ASSUME NEW i \in places PROVE shared(i) \in Int
  <2>1. PICK x : x = themes[i]
    OBVIOUS
  <2>2. x \in RouteIn(W)
    BY <2>1
  <2>3. Cardinality(Profile \cap Text(x)) \in Nat
    BY <2>2, TextFinite
  <2> QED
    BY <2>1, <2>3
<1>3. IsFiniteSet(places) /\ Cardinality(places) = n
  <2>1. 1 \in Int /\ n \in Int
    OBVIOUS
  <2>2. IsFiniteSet(1 .. n) /\ Cardinality(1 .. n) = IF 1 > n THEN 0 ELSE n - 1 + 1
    BY <2>1, FS_Interval
  <2> HIDE DEF places
  <2> QED
    BY <1>1, <2>2
<1>4. PICK f : f = [i \in places |-> shared(i)]
  OBVIOUS
<1>5. \A i \in places : f[i] \in Int
  BY <1>2, <1>4
<1>6. before = {x \in places \X places : \/ f[x[1]] > f[x[2]]
                                         \/ f[x[1]] = f[x[2]] /\ x[1] < x[2]}
  <2> HIDE DEF shared, places
  <2> QED
    BY <1>4
<1>7. PICK S, b : S = places /\ b = before
  OBVIOUS
<1>8. S \subseteq Int /\ IsFiniteSet(S) /\ Cardinality(S) = n
  <2> HIDE DEF places
  <2> QED
    BY <1>1, <1>3, <1>7
<1>9. Orders(b, S)
  <2> HIDE DEF places, before
  <2>1. b = {x \in S \X S : \/ f[x[1]] > f[x[2]]
                            \/ f[x[1]] = f[x[2]] /\ x[1] < x[2]}
    BY <1>6, <1>7
  <2>2. \A i \in S : f[i] \in Int
    BY <1>5, <1>7
  <2> QED
    BY <1>8, <2>1, <2>2, OrderByOne
<1>10. PICK o : o = Arranged(S, b)
  OBVIOUS
<1>11. Arranges(o, S, b)
  BY <1>8, <1>9, <1>10, ArrangedOrder
<1>12. o \in Seq(S)
  <2>1. o \in [1 .. n -> S]
    BY <1>8, <1>11 DEF Arranges
  <2> HIDE DEF places
  <2> QED
    BY <2>1
<1>13. PICK I : I = {k \in DOMAIN o : shared(o[k]) > 0}
  OBVIOUS
<1>14. PICK e : e = Entries(o, I)
  OBVIOUS
<1>15. e \in Seq(S)
  <2>1. I \in SUBSET DOMAIN o
    BY <1>13
  <2> HIDE DEF places, before, shared
  <2> QED
    BY <1>12, <1>14, <2>1, EntriesAt
<1>16. PICK g : g = IF e # <<>> THEN e ELSE o
  OBVIOUS
<1>17. g \in Seq(S)
  BY <1>12, <1>15, <1>16
<1>18. PICK m : m = Min({max, Len(g)})
  OBVIOUS
<1>19. m \in Int /\ m <= Len(g) /\ Len(g) \in Nat /\ DOMAIN g = 1 .. Len(g)
  <2>1. PICK l \in Nat : l = Len(g) /\ DOMAIN g = 1 .. l
    BY <1>17
  <2>2. l \in Int
    OBVIOUS
  <2> HIDE DEF places, before, sorted, near, from, shared
  <2>3. m \in {max, l} /\ m <= l
    BY <1>18, <2>1, <2>2, OfTwo
  <2> QED
    BY <2>1, <2>3
<1>20. RelatedRoutes(themes, max) = [k \in 1 .. m |-> themes[g[k]]]
  <2>1. sorted = o
    BY <1>7, <1>10
  <2>2. near = e
    <3> HIDE DEF sorted, shared
    <3> QED
      BY <1>13, <1>14, <2>1
  <2>3. from = g
    <3> HIDE DEF sorted, near
    <3> QED
      BY <1>16, <2>1, <2>2
  <2>4. RelatedRoutes(themes, max) = [k \in 1 .. Min({max, Len(from)}) |-> themes[from[k]]]
    BY Zenon DEF RelatedRoutes
  <2> HIDE DEF from
  <2> QED
    BY <1>18, <2>3, <2>4
<1>21. PICK R : R = RouteIn(W)
  OBVIOUS
<1>22. PICK l : l = IF m >= 0 THEN m ELSE 0
  OBVIOUS
<1>23. l \in Nat /\ 1 .. m = 1 .. l /\ l <= Len(g)
  BY <1>19, <1>22
<1>24. PICK r : r = [k \in 1 .. l |-> themes[g[k]]]
  OBVIOUS
<1>25. ASSUME NEW k \in 1 .. l PROVE r[k] \in R
  <2>1. k \in DOMAIN g
    BY <1>19, <1>23
  <2>2. g[k] \in DOMAIN themes
    BY <1>7, <1>17, <2>1
  <2> QED
    BY <1>21, <1>24, <2>2
<1>26. r = [k \in 1 .. l |-> r[k]]
  BY <1>24
<1>27. r \in Seq(R)
  BY <1>23, <1>25, <1>26, ListOf
<1> QED
  BY <1>20, <1>21, <1>23, <1>24, <1>27

LEMMA RelatedSectionsIn ==
  ASSUME NEW W, IsFiniteSet(W), NEW themes \in Seq(RouteIn(W)), NEW usable \in SUBSET Cards,
         NEW max \in Nat \ {0}
  PROVE  RelatedSections(themes, usable, max) \in Seq(SectionIn(W))
<1>1. PICK m : m = Max({1, max - 1})
  OBVIOUS
<1>2. m \in Int
  <2>1. PICK k : k = max - 1
    OBVIOUS
  <2>2. k \in Nat
    BY <2>1
  <2>3. Max({1, k}) \in Nat \ {0}
    BY <2>2, OneAtLeast
  <2> QED
    BY <1>1, <2>1, <2>3
<1>3. PICK routes : routes = RelatedRoutes(themes, m)
  OBVIOUS
<1>4. routes \in Seq(RouteIn(W))
  BY <1>2, <1>3, RelatedIn
<1>5. PICK S : S = SectionIn(W)
  OBVIOUS
<1>6. PICK a, b, c : /\ a = <<Section("related_work_overview", usable)>>
                     /\ b = ThemeSections(routes, 0)
                     /\ c = IF Len(routes) + 1 < 5
                            THEN <<Section("gap_and_positioning", usable)>> ELSE <<>>
  OBVIOUS
<1>7. a \in Seq(S)
  <2>1. "related_work_overview" \in SectionIds /\ "related_work_overview" # "theme"
    BY DEF SectionIds
  <2> QED
    BY <1>5, <1>6, <2>1, PlainOne
<1>8. b \in Seq(S)
  <2>1. 0 \in Nat
    OBVIOUS
  <2> QED
    BY <1>4, <1>5, <1>6, <2>1, ThemeSectionsIn
<1>9. c \in Seq(S)
  <2>1. "gap_and_positioning" \in SectionIds /\ "gap_and_positioning" # "theme"
    BY DEF SectionIds
  <2>2. <<Section("gap_and_positioning", usable)>> \in Seq(S)
    BY <1>5, <2>1, PlainOne
  <2> QED
    BY <1>6, <2>2
<1>10. a \o b \o c \in Seq(S)
  BY <1>7, <1>8, <1>9
<1>11. RelatedSections(themes, usable, max) = a \o b \o c
  BY <1>1, <1>3, <1>6, Zenon DEF RelatedSections
<1> QED
  BY <1>5, <1>10, <1>11

LEMMA TextSections ==
  ASSUME groups \in Frames, NEW type \in Types
  PROVE  SectionsOf(type) \in Seq(SectionIn(Words(groups)))
<1>1. PICK W, themes, usable : W = Words(groups) /\ themes = Themes(type) /\ usable = Usable[type]
  OBVIOUS
<1>2. IsFiniteSet(W) /\ themes \in Seq(RouteIn(W)) /\ usable \in SUBSET Cards
      /\ MaxSections \in Nat \ {0}
  BY <1>1, WordsFinite, ThemesIn, WritingPlanAssumption
<1>3. CASE type \in {"status", "review"}
  <2>1. PICK max : OutlineOf(SectionsOf(type), Themes(type), max, Words(groups))
    BY <1>3, TextOutline
  <2> QED
    BY <2>1 DEF OutlineOf
<1>4. CASE type = "background"
  <2>1. SectionsOf(type) = <<Section("background_body", usable)>>
    BY <1>1, <1>4 DEF SectionsOf, BackgroundSections
  <2>2. "background_body" \in SectionIds /\ "background_body" # "theme"
    BY DEF SectionIds
  <2>3. <<Section("background_body", usable)>> \in Seq(SectionIn(W))
    BY <1>2, <2>2, PlainOne
  <2> QED
    BY <1>1, <2>1, <2>3
<1>5. CASE type = "related"
  <2>1. SectionsOf(type) = RelatedSections(themes, usable, MaxSections)
    BY <1>1, <1>5 DEF SectionsOf
  <2>2. RelatedSections(themes, usable, MaxSections) \in Seq(SectionIn(W))
    BY <1>2, RelatedSectionsIn
  <2> QED
    BY <1>1, <2>1, <2>2
<1> QED
  BY <1>3, <1>4, <1>5 DEF Types

Needs(R) == [asked : R, type : Types]

LEMMA ResolvedIn ==
  ASSUME requested \in Seq(Types)
  PROVE  Resolved \in Seq(Needs(Range(requested)))
<1> DEFINE of(asked) == Entries(Chain(asked), {k \in DOMAIN Chain(asked) : Ready(Chain(asked)[k])})
           one(asked) == IF of(asked) = <<>> THEN <<>> ELSE <<[asked |-> asked, type |-> of(asked)[1]]>>
<1>0. PICK R : R = Range(requested)
  OBVIOUS
<1>00. R \subseteq Types
  BY <1>0, RangeFinite
<1>1. ASSUME NEW asked \in R PROVE one(asked) \in Seq(Needs(R))
  <2>1. Chain(asked) \in Seq(Types)
    <3>1. "background" \in Types /\ "status" \in Types /\ "review" \in Types
      BY DEF Types
    <3>2. asked \in Types
      BY <1>00
    <3> QED
      BY <3>1, <3>2 DEF Chain
  <2>2. PICK chain : chain = Chain(asked)
    OBVIOUS
  <2>3. PICK I \in SUBSET DOMAIN chain : I = {k \in DOMAIN chain : Ready(chain[k])}
    OBVIOUS
  <2>4. PICK e : e = Entries(chain, I)
    OBVIOUS
  <2>5. e \in Seq(Types)
    BY <2>1, <2>2, <2>4, EntriesAt
  <2>6. of(asked) = e
    BY <2>2, <2>3, <2>4
  <2>7. CASE e = <<>>
    BY <2>6, <2>7
  <2>8. CASE e # <<>>
    <3>1. e[1] \in Types
      BY <2>5, <2>8
    <3>2. [asked |-> asked, type |-> e[1]] \in Needs(R)
      BY <3>1 DEF Needs
    <3> QED
      BY <2>6, <2>8, <3>2
  <2> QED
    BY <2>7, <2>8
<1> HIDE DEF one
<1>2. PICK ss : ss = [i \in DOMAIN requested |-> one(requested[i])]
  OBVIOUS
<1>3. PICK n \in Nat : DOMAIN requested = 1 .. n
  OBVIOUS
<1>4. ss = [i \in 1 .. n |-> ss[i]] /\ \A i \in 1 .. n : ss[i] \in Seq(Needs(R))
  <2>1. ASSUME NEW i \in 1 .. n PROVE ss[i] \in Seq(Needs(R))
    <3>1. PICK asked \in R : asked = requested[i]
      BY <1>0, <1>3 DEF Range
    <3>2. ss[i] = one(asked)
      BY <1>2, <1>3, <3>1
    <3> QED
      BY <1>1, <3>2
  <2>2. ss = [i \in 1 .. n |-> ss[i]]
    BY <1>2, <1>3
  <2> QED
    BY <2>1, <2>2
<1>5. ss \in Seq(Seq(Needs(R)))
  <2>1. PICK S : S = Seq(Needs(R))
    OBVIOUS
  <2> QED
    BY <1>4, <2>1, ListOf
<1>6. Resolved = FlattenSeq(ss)
  BY <1>2 DEF Resolved, one
<1>7. FlattenSeq(ss) \in Seq(Needs(R))
  <2>1. PICK N : N = Needs(R)
    OBVIOUS
  <2> QED
    BY <1>5, <2>1, FlattenAt
<1> QED
  BY <1>0, <1>6, <1>7

LEMMA UsedFinite ==
  ASSUME NEW S \in SUBSET Cards
  PROVE  IsFiniteSet(S) /\ Cardinality(S) \in Int
<1>1. IsFiniteSet(S)
  BY CardsFinite, FS_Subset
<1> QED
  BY <1>1, FS_CardinalityType

LEMMA LeastOf ==
  ASSUME NEW a \in Int, NEW b \in Int
  PROVE  Min({a, b}) \in Int /\ Max({a, b}) \in Int
BY OfTwo

LEMMA EligibleIn ==
  ASSUME requested \in Seq(Types)
  PROVE  Eligible \in SUBSET Cards
<1>1. PICK R : R = Range(requested)
  OBVIOUS
<1>2. R \subseteq Types
  BY <1>1, RangeFinite
<1>3. \A type \in R : Usable[type] \in SUBSET Cards
  BY <1>2, WritingPlanAssumption
<1>4. Eligible = UNION {Usable[type] : type \in R}
  BY <1>1 DEF Eligible
<1> QED
  BY <1>3, <1>4

Settled == requested \in Requests /\ groups \in Frames /\ authorized \in Claimed

(* The numbers a text is planned with.                                     *)
LEMMA GoalsIn ==
  ASSUME Settled
  PROVE  GlobalTarget \in Int /\ Budget(Required, Cardinality(Eligible), Limit) \in Int
<1>1. requested \in Seq(Types)
  BY WritingPlanAssumption DEF Settled
<1>2. PICK c : c = Cardinality(Eligible)
  OBVIOUS
<1>3. c \in Int
  BY <1>1, <1>2, EligibleIn, UsedFinite
<1>4. Required \in Int /\ Limit \in Int
  BY WritingPlanAssumption
<1>5. Min({Required, c}) \in Int
  BY <1>3, <1>4, LeastOf
<1>6. PICK m : m = Max({Required, Limit})
  OBVIOUS
<1>7. m \in Int
  BY <1>4, <1>6, LeastOf
<1>8. Min({c, m}) \in Int
  BY <1>3, <1>7, LeastOf
<1> QED
  BY <1>2, <1>5, <1>6, <1>8 DEF GlobalTarget, Budget

LEMMA WantedIn ==
  ASSUME Settled, NEW next \in Needs(Range(requested)), NEW W, NEW sections \in Seq(SectionIn(W))
  PROVE  Wanted(next, sections) \in Int
<1>1. requested \in Seq(Types) /\ IsFiniteSet(authorized)
  BY WritingPlanAssumption DEF Settled
<1>2. PICK R : R = Range(requested)
  OBVIOUS
<1>3. next.asked \in R /\ next.type \in Types
  BY <1>2 DEF Needs
<1>4. PICK share : share = Quota(requested, GlobalTarget)[next.asked]
  OBVIOUS
<1>5. share \in Int
  <2>1. PICK target : target = GlobalTarget
    OBVIOUS
  <2>2. PICK asked : asked = next.asked
    OBVIOUS
  <2>3. target \in Int /\ asked \in Range(requested)
    BY <1>2, <1>3, <2>1, <2>2, GoalsIn
  <2>4. Quota(requested, target)[asked] \in Int
    BY <1>1, <2>3, QuotaIn
  <2> QED
    BY <1>4, <2>1, <2>2, <2>4
<1>6. PICK claimed : claimed = Cardinality(authorized)
  OBVIOUS
<1>7. claimed \in Int
  BY <1>1, <1>6, FS_CardinalityType
<1>8. Min({share, claimed}) \in Int
  BY <1>5, <1>7, LeastOf
<1>9. PICK quota : quota = IF authorized = {} THEN share ELSE Min({share, claimed})
  OBVIOUS
<1>10. quota \in Int
  BY <1>5, <1>8, <1>9
<1>11. PICK least, need : /\ least = Least2Write[next.type]
                          /\ need = IF next.type = "related" THEN 0 ELSE Required
  OBVIOUS
<1>12. least \in Int /\ need \in Int
  BY <1>3, <1>11, WritingPlanAssumption DEF Least2Write, Types
<1>13. PICK own : own = Max({least, need})
  OBVIOUS
<1>14. own \in Int
  BY <1>12, <1>13, LeastOf
<1>15. PICK pool, usable : pool = Cardinality(Pool(sections)) /\ usable = Cardinality(Usable[next.type])
  OBVIOUS
<1>16. pool \in Int
  <2>1. \A i \in DOMAIN sections : sections[i].papers \in SUBSET Cards
    <3> SUFFICES ASSUME NEW i \in DOMAIN sections PROVE sections[i].papers \in SUBSET Cards
      OBVIOUS
    <3>1. PICK x : x = sections[i]
      OBVIOUS
    <3>2. x \in SectionIn(W)
      BY <3>1
    <3>3. x.papers \in SUBSET Cards
      BY <3>2 DEF SectionIn
    <3> QED
      BY <3>1, <3>3
  <2>2. Pool(sections) \in SUBSET Cards
    BY <2>1 DEF Pool
  <2> QED
    BY <1>15, <2>2, UsedFinite
<1>17. usable \in Int
  <2>1. PICK U : U = Usable[next.type]
    OBVIOUS
  <2>2. U \in SUBSET Cards
    BY <1>3, <2>1, WritingPlanAssumption
  <2> QED
    BY <1>15, <2>1, <2>2, UsedFinite
<1>18. Min({quota, pool}) \in Int /\ Min({own, usable}) \in Int
  BY <1>10, <1>14, <1>16, <1>17, LeastOf
<1>19. Wanted(next, sections) = IF quota > 0 THEN Min({quota, pool}) ELSE Min({own, usable})
  BY <1>4, <1>6, <1>9, <1>11, <1>13, <1>15 DEF Wanted
<1> QED
  BY <1>18, <1>19

LEMMA RoomIn ==
  ASSUME Settled, NEW next \in Needs(Range(requested))
  PROVE  Room(next) \in Int
<1>1. requested \in Seq(Types)
  BY WritingPlanAssumption DEF Settled
<1>2. PICK asked, goal, budget : /\ asked = next.asked /\ goal = GlobalTarget
                                 /\ budget = Budget(Required, Cardinality(Eligible), Limit)
  OBVIOUS
<1>3. asked \in Range(requested)
  BY <1>2 DEF Needs
<1>4. goal \in Int /\ budget \in Int
  BY <1>2, GoalsIn
<1>5. Quota(requested, goal)[asked] \in Int /\ Quota(requested, budget)[asked] \in Int
  BY <1>1, <1>3, <1>4, QuotaIn
<1>6. Room(next) = IF TwoPart THEN Quota(requested, goal)[asked]
                   ELSE IF budget > goal THEN Quota(requested, budget)[asked] ELSE 0
  BY <1>2 DEF Room
<1> QED
  BY <1>5, <1>6

LEMMA TargetIn ==
  ASSUME NEW wanted \in Int, NEW budget \in Int, NEW size \in Int
  PROVE  Target(wanted, budget, size) \in Int
<1>1. PICK least : least = Min({wanted, size})
  OBVIOUS
<1>2. least \in Int /\ Min({budget, size}) \in Int
  BY <1>1, LeastOf
<1> QED
  BY <1>1, <1>2 DEF Target

(* What ShortReported says of one text.                                    *)
Reported(text) ==
  \A k \in DOMAIN text.keys :
    LET key == text.keys[k]
    IN key > 0 /\ key \notin text.short => Len(text.given[k]) >= text.sections[key].floor

LEMMA DraftReported ==
  ASSUME Settled, NEW next \in Needs(Range(requested)), NEW text \in Drafts(next)
  PROVE  text.type = next.type /\ text.sections = SectionsOf(next.type) /\ Reported(text)
<1>0. PICK type : type = next.type
  OBVIOUS
<1>1. type \in Types /\ groups \in Frames
  BY <1>0 DEF Needs, Settled
<1>2. PICK W, sections : W = Words(groups) /\ sections = SectionsOf(type)
  OBVIOUS
<1>3. sections \in Seq(SectionIn(W))
  BY <1>1, <1>2, TextSections
<1>4. PICK allowed : allowed = Allowed(type, sections, authorized, TwoPart /\ Explicit) \cap Cards
  OBVIOUS
<1>5. allowed \in SUBSET Cards
  BY <1>4
<1>6. PICK wanted, room, size : /\ wanted = Wanted(next, sections) /\ room = Room(next)
                                /\ size = Cardinality(allowed)
  OBVIOUS
<1>7. wanted \in Int
  BY <1>3, <1>6, WantedIn
<1>8. room \in Int /\ size \in Int
  BY <1>5, <1>6, RoomIn, UsedFinite
<1>9. PICK target : target = Target(wanted, room, size)
  OBVIOUS
<1>10. target \in Int
  BY <1>7, <1>8, <1>9, TargetIn
<1>11. \E T : ThemeOrder \in Seq(T)
  <2>1. PICK X, I : X = Range(Taxonomy) /\ I = {k \in DOMAIN Taxonomy : ~Taxonomy[k].rest}
    OBVIOUS
  <2>2. Taxonomy \in Seq(X) /\ I \in SUBSET DOMAIN Taxonomy
    BY <2>1, WritingPlanAssumption
  <2>3. PICK e : e = Entries(Taxonomy, I)
    OBVIOUS
  <2>4. e \in Seq(X)
    BY <2>2, <2>3, EntriesAt
  <2>5. PICK n \in Nat : DOMAIN e = 1 .. n
    BY <2>4
  <2>6. PICK o : o = ThemeOrder
    OBVIOUS
  <2>7. o = [i \in 1 .. n |-> e[i].id]
    BY <2>1, <2>3, <2>5, <2>6 DEF ThemeOrder
  <2>8. PICK T : T = {e[i].id : i \in 1 .. n}
    OBVIOUS
  <2>9. o = [i \in 1 .. n |-> o[i]] /\ \A i \in 1 .. n : o[i] \in T
    BY <2>7, <2>8
  <2>10. o \in Seq(T)
    BY <2>9, ListOf
  <2> QED
    BY <2>6, <2>10
<1>12. PICK T : ThemeOrder \in Seq(T)
  BY <1>11
<1>13. PICK where, themes, taken : where = themeOf /\ themes = ThemeOrder /\ taken = Taken
  OBVIOUS
<1>14. PICK picked : picked = Select(type, sections, allowed, taken, target, where, themes)
  OBVIOUS
<1>15. picked \in Seq(Cards)
  BY <1>3, <1>5, <1>10, <1>12, <1>13, <1>14, SelectIn
<1>16. PICK backing, specs : backing = authorized /\ specs = Cited(sections, picked, backing)
  OBVIOUS
<1>17. (\E X : specs \in Seq(X)) /\ StandsFor(specs, sections)
  BY <1>3, <1>15, <1>16, CitedStands
<1>18. PICK prefers : text = [type |-> type, sections |-> sections,
                              keys |-> [i \in DOMAIN specs |-> specs[i].key],
                              given |-> Allocate(type, specs, picked, target, prefers).given,
                              short |-> Allocate(type, specs, picked, target, prefers).short]
  <2> DEFINE its == SectionsOf(next.type)
             may == Allowed(next.type, its, authorized, TwoPart /\ Explicit) \cap Cards
             goal == Target(Wanted(next, its), Room(next), Cardinality(may))
             list == Select(next.type, its, may, Taken, goal, themeOf, ThemeOrder)
             cited == Cited(its, list, authorized)
  <2>1. PICK prefers : text = [type |-> next.type, sections |-> its,
                               keys |-> [i \in DOMAIN cited |-> cited[i].key],
                               given |-> Allocate(next.type, cited, list, goal, prefers).given,
                               short |-> Allocate(next.type, cited, list, goal, prefers).short]
    BY DEF Drafts, Planned, DraftsOf
  <2>2. its = sections
    BY <1>0, <1>2
  <2> HIDE DEF its
  <2>3. may = allowed
    BY <1>0, <1>4, <2>2
  <2> HIDE DEF may
  <2>4. goal = target
    BY <1>6, <1>9, <2>2, <2>3
  <2> HIDE DEF goal
  <2>5. list = picked
    BY <1>0, <1>13, <1>14, <2>2, <2>3, <2>4
  <2> HIDE DEF list
  <2>6. cited = specs
    BY <1>16, <2>2, <2>5
  <2> HIDE DEF cited
  <2> QED
    BY <1>0, <2>1, <2>2, <2>4, <2>5, <2>6
<1>19. PICK answer : answer = Allocate(type, specs, picked, target, prefers)
  OBVIOUS
<1>20. PICK count \in Nat : count = Len(specs) /\ DOMAIN specs = 1 .. count
  <2>1. PICK X : specs \in Seq(X)
    BY <1>17
  <2> QED
    BY <2>1
<1>21. Takers(specs, count) /\ \A i \in 1 .. count : specs[i].floor \in Nat
  BY <1>17, <1>20 DEF Takers, StandsFor
<1>22. Spoken(specs, answer.short, answer.given)
  BY <1>15, <1>19, <1>21, AllocatedHolds
<1>23. /\ text.type = type /\ text.sections = sections
       /\ text.keys = [i \in DOMAIN specs |-> specs[i].key]
       /\ text.given = answer.given /\ text.short = answer.short
  BY <1>18, <1>19
<1>24. ASSUME NEW k \in DOMAIN specs, specs[k].key > 0, specs[k].key \notin text.short
       PROVE  Len(text.given[k]) >= sections[specs[k].key].floor
  <2>1. Len(text.given[k]) >= specs[k].floor
    BY <1>22, <1>23, <1>24 DEF Spoken
  <2>2. specs[k].floor = sections[specs[k].key].floor
    BY <1>17, <1>24 DEF StandsFor
  <2> QED
    BY <2>1, <2>2
<1>25. Reported(text)
  BY <1>23, <1>24 DEF Reported
<1> QED
  BY <1>0, <1>2, <1>23, <1>25


(* Every text has the sections of its kind, of the choices of the start,   *)
(* and reports the sections it leaves short.                               *)
TextList(list) == \E X : list \in Seq(X)
Outlined ==
  TextList(texts) /\ \A i \in DOMAIN texts : /\ texts[i].type \in Types
                                             /\ texts[i].sections = SectionsOf(texts[i].type)
                                             /\ Reported(texts[i])
PlanInv == Settled /\ todo \in Seq(Needs(Range(requested))) /\ Outlined

LEMMA TextAppended ==
  ASSUME NEW list, TextList(list), NEW text
  PROVE  /\ TextList(Append(list, text))
         /\ \A i \in DOMAIN Append(list, text) : \/ i \in DOMAIN list /\ Append(list, text)[i] = list[i]
                                                 \/ Append(list, text)[i] = text
<1>1. PICK X : list \in Seq(X)
  BY DEF TextList
<1>2. PICK Y : Y = X \cup {text}
  OBVIOUS
<1>3. list \in Seq(Y) /\ text \in Y
  BY <1>1, <1>2
<1>4. Append(list, text) \in Seq(Y)
  BY <1>3
<1>5. PICK n \in Nat : n = Len(list) /\ DOMAIN list = 1 .. n
  BY <1>3
<1>6. ASSUME NEW i \in DOMAIN Append(list, text)
      PROVE  (i \in DOMAIN list /\ Append(list, text)[i] = list[i]) \/ Append(list, text)[i] = text
  <2>1. i \in 1 .. n + 1
    BY <1>3, <1>5, <1>6
  <2>2. CASE i = n + 1
    BY <1>3, <1>5, <2>2
  <2>3. CASE i \in 1 .. n
    BY <1>3, <1>5, <2>3
  <2> QED
    BY <1>5, <2>1, <2>2, <2>3
<1> QED
  BY <1>4, <1>6 DEF TextList

LEMMA PlanInit0 == PlanInit => PlanInv
<1> SUFFICES ASSUME PlanInit PROVE PlanInv
  OBVIOUS
<1>1. texts \in Seq({}) /\ DOMAIN texts = {} /\ todo \in Seq(Needs(Range(requested)))
  BY DEF PlanInit
<1> QED
  BY <1>1 DEF PlanInit, PlanInv, Settled, Outlined, TextList

LEMMA PlanStep == PlanInv /\ [PlanNext]_planVars => PlanInv'
<1> SUFFICES ASSUME PlanInv, [PlanNext]_planVars PROVE PlanInv'
  OBVIOUS
<1>1. Settled'
  BY DEF PlanInv, Settled, PlanNext, Enter, Refuse, PlanText, planVars
<1>2. UNCHANGED <<themeOf, groups>> /\ Range(requested)' = Range(requested)
  BY DEF PlanNext, Enter, Refuse, PlanText, planVars
<1>3. requested \in Seq(Types)
  BY WritingPlanAssumption DEF PlanInv, Settled
<1>4. CASE Enter
  <2>1. todo' \in Seq(Needs(Range(requested)))
    BY <1>3, <1>4, ResolvedIn DEF Enter
  <2>2. texts' = texts
    BY <1>4 DEF Enter
  <2>3. Outlined'
    BY <1>2, <2>2, SameSections DEF PlanInv, Outlined
  <2> QED
    BY <1>1, <1>2, <2>1, <2>3 DEF PlanInv
<1>5. CASE Refuse \/ UNCHANGED planVars
  <2>1. texts' = texts /\ todo' = todo
    BY <1>5 DEF Refuse, planVars
  <2>2. Outlined'
    BY <1>2, <2>1, SameSections DEF PlanInv, Outlined
  <2> QED
    BY <1>1, <1>2, <2>1, <2>2 DEF PlanInv
<1>6. CASE PlanText
  <2>1. todo' = Tail(todo) /\ todo # <<>>
    BY <1>6 DEF PlanText
  <2>2. todo' \in Seq(Needs(Range(requested)))
    <3>1. PICK N : N = Needs(Range(requested))
      OBVIOUS
    <3>2. todo \in Seq(N)
      BY <3>1 DEF PlanInv
    <3>3. Tail(todo) \in Seq(N)
      BY <2>1, <3>2
    <3> QED
      BY <2>1, <3>1, <3>3
  <2>3. PICK next : next = Head(todo)
    OBVIOUS
  <2>4. next \in Needs(Range(requested)) /\ next.type \in Types
    <3>1. PICK N : N = Needs(Range(requested))
      OBVIOUS
    <3>2. todo \in Seq(N)
      BY <3>1 DEF PlanInv
    <3>3. next \in N
      BY <2>1, <2>3, <3>2
    <3> QED
      BY <3>1, <3>3 DEF Needs
  <2>5. \/ texts' = texts
        \/ \E text : texts' = Append(texts, text) /\ text.type = next.type
                     /\ text.sections = SectionsOf(next.type) /\ Reported(text)
    <3>1. CASE UNCHANGED texts
      BY <3>1
    <3>2. ASSUME NEW text \in Drafts(next), texts' = Append(texts, text)
          PROVE  text.type = next.type /\ text.sections = SectionsOf(next.type) /\ Reported(text)
      BY <2>4, DraftReported DEF PlanInv
    <3> QED
      BY <1>6, <2>3, <3>1, <3>2 DEF PlanText
  <2>6. CASE texts' = texts
    <3>1. Outlined'
      BY <1>2, <2>6, SameSections DEF PlanInv, Outlined
    <3> QED
      BY <1>1, <1>2, <2>2, <3>1 DEF PlanInv
  <2>7. ASSUME NEW text, texts' = Append(texts, text), text.type = next.type,
               text.sections = SectionsOf(next.type), Reported(text)
        PROVE  PlanInv'
    <3>1. /\ TextList(texts')
          /\ \A i \in DOMAIN texts' : (i \in DOMAIN texts /\ texts'[i] = texts[i]) \/ texts'[i] = text
      BY <2>7, TextAppended DEF PlanInv, Outlined
    <3>2. ASSUME NEW i \in DOMAIN texts'
          PROVE  /\ texts'[i].type \in Types /\ texts'[i].sections = SectionsOf(texts'[i].type)
                 /\ Reported(texts'[i])
      BY <2>4, <2>7, <3>1 DEF PlanInv, Outlined
    <3>3. Outlined'
      BY <1>2, <3>1, <3>2, SameSections DEF Outlined
    <3> QED
      BY <1>1, <1>2, <2>2, <3>3 DEF PlanInv
  <2> QED
    BY <2>5, <2>6, <2>7
<1> QED
  BY <1>4, <1>5, <1>6 DEF PlanNext

LEMMA OutlineHolds ==
  ASSUME NEW text, NEW themes, NEW max \in Nat, NEW W, OutlineOf(text.sections, themes, max, W)
  PROVE  /\ PapersIn(themes) \subseteq Pool(RoutesOf(text))
         /\ Len(RoutesOf(text)) <= max
         /\ Len(RoutesOf(text)) > 1 =>
              \A k \in DOMAIN RoutesOf(text) : Cardinality(RoutesOf(text)[k].papers) >= 2
<1>1. PICK s : s = text.sections
  OBVIOUS
<1>2. s \in Seq(SectionIn(W))
  BY <1>1 DEF OutlineOf
<1>3. PICK routes \in Seq(RouteIn(W)), l \in Nat : Themed(s, routes, l) /\ SoundRoutes(routes, themes, max)
  BY <1>1 DEF OutlineOf
<1>4. PICK e : e = RoutesOf([sections |-> s])
  OBVIOUS
<1>5. PICK X, R : X = SectionIn(W) /\ R = RouteIn(W)
  OBVIOUS
<1>6. /\ Len(e) = Len(routes) /\ Len(e) \in Nat /\ DOMAIN e = 1 .. Len(e)
      /\ \A k \in DOMAIN e : \E i \in DOMAIN routes : e[k].papers = routes[i].papers
      /\ \A i \in DOMAIN routes : \E k \in DOMAIN e : e[k].papers = routes[i].papers
  <2>1. s \in Seq(X) /\ routes \in Seq(R)
    BY <1>2, <1>5
  <2>2. SamePapers(e, routes)
    BY <1>3, <1>4, <2>1, ThemedRoutes
  <2> QED
    BY <2>2 DEF SamePapers
<1>7. RoutesOf(text) = e
  BY <1>1, <1>4 DEF RoutesOf
<1>8. PapersIn(routes) \subseteq Pool(e)
  <2> SUFFICES ASSUME NEW i \in DOMAIN routes PROVE routes[i].papers \subseteq Pool(e)
    BY DEF PapersIn
  <2>1. PICK k \in DOMAIN e : e[k].papers = routes[i].papers
    BY <1>6
  <2> QED
    BY <2>1 DEF Pool
<1>9. PapersIn(themes) \subseteq PapersIn(routes) /\ Len(routes) <= max
      /\ (Len(routes) <= 1 \/ Wide(routes))
  BY <1>3 DEF SoundRoutes, Comparing
<1>10. ASSUME Len(e) > 1, NEW k \in DOMAIN e PROVE Cardinality(e[k].papers) >= 2
  <2>1. Wide(routes)
    BY <1>6, <1>9, <1>10
  <2>2. PICK i \in DOMAIN routes : e[k].papers = routes[i].papers
    BY <1>6
  <2>3. Cardinality(routes[i].papers) >= 2
    BY <2>1 DEF Wide
  <2> QED
    BY <2>2, <2>3
<1>11. Len(e) <= max
  BY <1>6, <1>9
<1> QED
  BY <1>7, <1>8, <1>9, <1>10, <1>11

LEMMA OutlineFollows == PlanInv => OutlineSound
<1> SUFFICES ASSUME PlanInv, NEW i \in DOMAIN texts, texts[i].type \in {"status", "review"}
             PROVE  /\ PapersIn(Themes(texts[i].type)) \subseteq Pool(RoutesOf(texts[i]))
                    /\ Len(RoutesOf(texts[i])) <= IF texts[i].type = "review" THEN 3 ELSE MaxSections
                    /\ Len(RoutesOf(texts[i])) > 1 =>
                         \A k \in DOMAIN RoutesOf(texts[i]) :
                           Cardinality(RoutesOf(texts[i])[k].papers) >= 2
  BY DEF OutlineSound, PapersKept, SectionsCompare
<1>1. PICK text, type, max : /\ text = texts[i] /\ type = texts[i].type
                             /\ max = IF type = "review" THEN 3 ELSE MaxSections
  OBVIOUS
<1>2. text.sections = SectionsOf(type)
  BY <1>1 DEF PlanInv, Outlined
<1>3. max \in Nat
  BY <1>1, WritingPlanAssumption
<1>4. OutlineOf(text.sections, Themes(type), max, Words(groups))
  BY <1>1, <1>2, TextOutline DEF PlanInv, Settled
<1>5. /\ PapersIn(Themes(type)) \subseteq Pool(RoutesOf(text))
      /\ Len(RoutesOf(text)) <= max
      /\ Len(RoutesOf(text)) > 1 =>
              \A k \in DOMAIN RoutesOf(text) : Cardinality(RoutesOf(text)[k].papers) >= 2
  BY <1>3, <1>4, OutlineHolds
<1> QED
  BY <1>1, <1>5

LEMMA AllReported == PlanInv => ShortReported
BY DEF PlanInv, Outlined, Reported, ShortReported

(* Whatever the cards, themes, frames, claims and numbers: no paper of a   *)
(* theme is lost when routes are selected, attached, merged and            *)
(* rebalanced, and the routes stay few and comparable                      *)
(* (build_writing_plan).                                                   *)
THEOREM OutlinesAreSound == PlanSpec => []OutlineSound
<1>1. PlanSpec => []PlanInv
  BY PlanInit0, PlanStep, PTL DEF PlanSpec
<1> QED
  BY <1>1, OutlineFollows, PTL

(* Whatever the model prefers, a section that ends with fewer citations    *)
(* than its floor is among those reported as short                         *)
(* (_plan_citation_allocation).                                            *)
THEOREM ShortSectionsReported == PlanSpec => []ShortReported
<1>1. PlanSpec => []PlanInv
  BY PlanInit0, PlanStep, PTL DEF PlanSpec
<1> QED
  BY <1>1, AllReported, PTL
=============================================================================
