---------------------------- MODULE VectorStore ----------------------------
(***************************************************************************)
(* The chunk index of one paper of one tenant in the vector database:      *)
(* app/storage/pgvector_store.py, and its callers ensure_chunk_index       *)
(* (app/services/chunk_indexer.py) and retrieve_chunks                     *)
(* (app/tools/chunk_retriever.py).                                         *)
(*                                                                         *)
(* Each extraction that needs the index is a builder.  Every method of the *)
(* store is one transaction that locks the paper's source row first, so    *)
(* each is one action; between two of them other builders run, a builder   *)
(* stops without a word, a lease runs out, or the answer of a transaction  *)
(* that did commit is lost.                                                *)
(***************************************************************************)
EXTENDS Integers, FiniteSets

CONSTANTS
  Builders,     \* the extractions that may index the paper
  Hashes,       \* source_fingerprint of the texts the paper has had
  Profiles,     \* processing_profile: the chunks selected and how they are cut
  Count,        \* expected_count of a profile
  BatchSize,    \* retrieval_embedding_batch_size
  NoSource,     \* no row in rra_vector_sources
  NoSnapshot,   \* no row in rra_vector_snapshots
  NoJob,        \* no extraction is at work
  MaxRevision,  \* BOUND: revisions of the source
  MaxClaims     \* BOUND: builds that are started

ASSUME CountAssumption == Count \in [Profiles -> Nat \ {0}]
ASSUME BatchAssumption == BatchSize \in Nat \ {0}
ASSUME RevisionAssumption == MaxRevision \in Nat \ {0}
ASSUME ClaimAssumption == MaxClaims \in Nat
ASSUME NoSourceAssumption == NoSource \notin [rev : 1 .. MaxRevision, hash : Hashes]

VARIABLES
  source,       \* rra_vector_sources: [rev, hash]
  snaps,        \* rra_vector_snapshots with their rra_vector_chunks
  claims,       \* how many builder ids (uuid4) were drawn
  job           \* what each builder holds in memory

vars == <<source, snaps, claims, job>>

(* UNIQUE(tenant, paper_id, source_revision, processing_profile, embedding *)
(* _profile): one row for each revision and profile.                       *)
Keys == (1 .. MaxRevision) \X Profiles

Active(k) == snaps[k] # NoSnapshot /\ snaps[k].status = "active"
published ==
  {[rev |-> k[1], rows |-> snaps[k].rows] : k \in {x \in Keys : Active(x)}}
Index == INSTANCE PublishedIndex WITH index <- published

Row == Index!Row
PlanRows(h, p) == Index!PlanRows(h, p)

Snapshot ==
  [id : 1 .. MaxClaims, status : {"building", "active", "superseded", "failed"},
   builder : 1 .. MaxClaims, token : Nat, live : BOOLEAN, rows : SUBSET Row]

ASSUME NoSnapshotAssumption == NoSnapshot \notin Snapshot

Places ==
  {"claim", "renew", "write", "activate", "cleanup", "load", "search", "done"}

(* hash and profile are the builder's plan; rev the revision register      *)
(* answered; id, builder and token its BuildTicket; next the start_order   *)
(* of its next batch; seen the rows the store last answered.               *)
Job ==
  [pc : Places, hash : Hashes, profile : Profiles, rev : 1 .. MaxRevision,
   id : 0 .. MaxClaims, builder : 0 .. MaxClaims, token : Nat, next : Nat,
   seen : SUBSET Row]

Init ==
  /\ source = NoSource
  /\ snaps = [k \in Keys |-> NoSnapshot]
  /\ claims = 0
  /\ job = [b \in Builders |-> NoJob]

-----------------------------------------------------------------------------
KeyOf(b) == <<job[b].rev, job[b].profile>>
Mine(b) == snaps[KeyOf(b)]
At(b, place) == job[b] # NoJob /\ job[b].pc = place
GoTo(b, place) == job' = [job EXCEPT ![b].pc = place]
GiveUp(b) == job' = [job EXCEPT ![b] = NoJob]

(* _source: the text the builder works from is still the registered one. *)
SourceHeld(b) ==
  /\ source # NoSource
  /\ source.rev = job[b].rev
  /\ source.hash = job[b].hash

(* Mutant: a ticket does not look at the source. *)
TicketUnsourced(b) ==
  /\ Mine(b) # NoSnapshot
  /\ Mine(b).id = job[b].id
  /\ Mine(b).status = "building"
  /\ Mine(b).builder = job[b].builder
  /\ Mine(b).token = job[b].token
  /\ Mine(b).live

(* Mutant: a ticket names the snapshot, not its builder. *)
TicketUnfenced(b) ==
  /\ SourceHeld(b)
  /\ Mine(b) # NoSnapshot
  /\ Mine(b).id = job[b].id
  /\ Mine(b).status = "building"
  /\ Mine(b).live

(* _ticket: the build is still this builder's, and its lease runs. *)
TicketHeld(b) ==
  /\ SourceHeld(b)
  /\ Mine(b) # NoSnapshot
  /\ Mine(b).id = job[b].id
  /\ Mine(b).status = "building"
  /\ Mine(b).builder = job[b].builder
  /\ Mine(b).token = job[b].token
  /\ Mine(b).live

(* Mutant: a published snapshot is served whatever became of its source. *)
ActiveUnsourced(b) ==
  /\ Mine(b) # NoSnapshot
  /\ Mine(b).id = job[b].id
  /\ Mine(b).status = "active"

(* _active: the snapshot is the published one of the builder's own source. *)
ActiveHeld(b) ==
  /\ SourceHeld(b)
  /\ Mine(b) # NoSnapshot
  /\ Mine(b).id = job[b].id
  /\ Mine(b).status = "active"

-----------------------------------------------------------------------------
(* register_source as the extraction calls it: it registers the first text *)
(* and never replaces one, for it has observed no revision.                *)
Register(b, h, p) ==
  /\ job[b] = NoJob \/ At(b, "done")
  /\ source' = IF source = NoSource THEN [rev |-> 1, hash |-> h] ELSE source
  /\ job' = [job EXCEPT ![b] =
       IF source'.hash # h THEN NoJob
       ELSE [pc |-> "claim", hash |-> h, profile |-> p, rev |-> source'.rev,
             id |-> 0, builder |-> 0, token |-> 0, next |-> 0, seen |-> {}]]
  /\ UNCHANGED <<snaps, claims>>

(* register_source with the revision the operator observed                 *)
(* (scripts/manage_vectorstore.py): compare and swap.                      *)
Update(h, observed) ==
  /\ source # NoSource
  /\ h # source.hash
  /\ observed = source.rev
  /\ source.rev < MaxRevision    \* BOUND
  /\ source' = [rev |-> source.rev + 1, hash |-> h]
  /\ UNCHANGED <<snaps, claims, job>>

(* A published snapshot is reused; one that nobody is building any more is *)
(* emptied and built again under a new builder and the next token.         *)
BeingBuilt(k) ==
  snaps[k] # NoSnapshot /\ snaps[k].status = "building" /\ snaps[k].live

ClaimReuse(b) ==
  /\ At(b, "claim")
  /\ IF SourceHeld(b) /\ Active(KeyOf(b))
     THEN job' = [job EXCEPT ![b].id = Mine(b).id, ![b].pc = "load"]
     ELSE /\ ~SourceHeld(b) \/ BeingBuilt(KeyOf(b))
          /\ GiveUp(b)
  /\ UNCHANGED <<source, snaps, claims>>

(* BuildTicket.  A row that exists keeps its id. *)
ClaimBuild(b) ==
  /\ At(b, "claim")
  /\ SourceHeld(b)
  /\ ~Active(KeyOf(b)) /\ ~BeingBuilt(KeyOf(b))
  /\ claims < MaxClaims          \* BOUND
  /\ LET new == claims + 1
         old == Mine(b)
         id == IF old = NoSnapshot THEN new ELSE old.id
         token == IF old = NoSnapshot THEN 1 ELSE old.token + 1
     IN /\ claims' = new
        /\ snaps' = [snaps EXCEPT ![KeyOf(b)] =
             [id |-> id, status |-> "building", builder |-> new, token |-> token,
              live |-> TRUE, rows |-> {}]]
        /\ \/ job' = [job EXCEPT ![b] = [@ EXCEPT !.id = id, !.builder = new,
                                           !.token = token, !.next = 0, !.pc = "renew"]]
           \/ GiveUp(b)    \* committed, but the ticket never arrived
  /\ UNCHANGED source

Renew(b) ==
  /\ At(b, "renew")
  /\ GoTo(b, IF TicketHeld(b) THEN "write" ELSE "cleanup")
  /\ UNCHANGED <<source, snaps, claims>>

(* The rows of the next batch, in the builder's order. *)
Batch(b) ==
  {r \in PlanRows(job[b].hash, job[b].profile) :
     r.order \in job[b].next .. (job[b].next + BatchSize - 1)}

(* A row whose order is taken breaks the transaction (UNIQUE). *)
Write(b) ==
  /\ At(b, "write")
  /\ IF TicketHeld(b) /\ Mine(b).rows \cap Batch(b) = {}
     THEN /\ snaps' = [snaps EXCEPT ![KeyOf(b)].rows = @ \cup Batch(b)]
          /\ \/ job' = [job EXCEPT ![b].next = @ + BatchSize,
                   ![b].pc = IF job[b].next + BatchSize < Count[job[b].profile]
                             THEN "renew" ELSE "activate"]
             \/ GoTo(b, "cleanup")      \* committed, the answer was lost
     ELSE /\ GoTo(b, "cleanup")
          /\ UNCHANGED snaps
  /\ UNCHANGED <<source, claims>>

(* The number of rows, the first and the last order: 0 .. expected - 1. *)
Complete(b) ==
  LET orders == {r.order : r \in Mine(b).rows}
  IN /\ orders = 0 .. (Count[job[b].profile] - 1)
     /\ Cardinality(Mine(b).rows) = Count[job[b].profile]

(* Published and superseded together. *)
Published(b) ==
  [k \in Keys |->
     IF k = KeyOf(b) THEN [snaps[k] EXCEPT !.status = "active"]
     ELSE IF Active(k) THEN [snaps[k] EXCEPT !.status = "superseded"]
     ELSE snaps[k]]

Activate(b) ==
  /\ At(b, "activate")
  /\ IF TicketHeld(b) /\ Complete(b)
     THEN /\ snaps' = Published(b)
          /\ GoTo(b, "load") \/ GoTo(b, "cleanup")
     ELSE /\ GoTo(b, "cleanup")
          /\ UNCHANGED snaps
  /\ UNCHANGED <<source, claims>>

(* The provider fails, the vectors do not fit, or the caller is cancelled. *)
BuildError(b) ==
  /\ job[b] # NoJob /\ job[b].pc \in {"renew", "write", "activate"}
  /\ GoTo(b, "cleanup")
  /\ UNCHANGED <<source, snaps, claims>>

(* store.fail; what it finds lost, it leaves to the lease. *)
Cleanup(b) ==
  /\ At(b, "cleanup")
  /\ snaps' = IF TicketHeld(b) THEN [snaps EXCEPT ![KeyOf(b)].status = "failed"]
              ELSE snaps
  /\ GiveUp(b)
  /\ UNCHANGED <<source, claims>>

(* load, then the comparison of every row with the builder's own chunk. *)
Load(b) ==
  /\ At(b, "load")
  /\ IF ActiveHeld(b) /\ Mine(b).rows = PlanRows(job[b].hash, job[b].profile)
     THEN job' = [job EXCEPT ![b].seen = Mine(b).rows, ![b].pc = "search"]
     ELSE GiveUp(b)
  /\ UNCHANGED <<source, snaps, claims>>

Search(b) ==
  /\ At(b, "search")
  /\ IF ActiveHeld(b)
     THEN job' = [job EXCEPT ![b].seen = Mine(b).rows, ![b].pc = "done"]
     ELSE GiveUp(b)
  /\ UNCHANGED <<source, snaps, claims>>

(* The process dies, or its execution is stopped: check_execution raises   *)
(* in the cleanup too, so nothing is written.                              *)
Stop(b) ==
  /\ job[b] # NoJob
  /\ GiveUp(b)
  /\ UNCHANGED <<source, snaps, claims>>

Expire(k) ==
  /\ BeingBuilt(k)
  /\ snaps' = [snaps EXCEPT ![k].live = FALSE]
  /\ UNCHANGED <<source, claims, job>>

(* delete: ON DELETE CASCADE. *)
Delete ==
  /\ source # NoSource
  /\ source' = NoSource
  /\ snaps' = [k \in Keys |-> NoSnapshot]
  /\ UNCHANGED <<claims, job>>

Step(b) ==
  \/ \E h \in Hashes, p \in Profiles : Register(b, h, p)
  \/ ClaimReuse(b)
  \/ ClaimBuild(b)
  \/ Renew(b)
  \/ Write(b)
  \/ Activate(b)
  \/ BuildError(b)
  \/ Cleanup(b)
  \/ Load(b)
  \/ Search(b)
  \/ Stop(b)

Next ==
  \/ \E b \in Builders : Step(b)
  \/ \E h \in Hashes, observed \in 1 .. MaxRevision : Update(h, observed)
  \/ \E k \in Keys : Expire(k)
  \/ Delete

Spec == Init /\ [][Next]_vars

-----------------------------------------------------------------------------
TypeOK ==
  /\ source \in [rev : 1 .. MaxRevision, hash : Hashes] \cup {NoSource}
  /\ snaps \in [Keys -> Snapshot \cup {NoSnapshot}]
  /\ claims \in 0 .. MaxClaims
  /\ job \in [Builders -> Job \cup {NoJob}]

(* The index of a paper is only ever replaced as a whole: whatever the     *)
(* builders, their leases and the lost answers do, the store behaves like  *)
(* PublishedIndex.  A build that fails, is taken over or works from an old *)
(* text neither appears nor takes away the index that is published.        *)
PublishedWhole == Index!Spec

(* A build belongs to the builder that claimed it last: while its lease    *)
(* runs, nobody else adds rows, publishes it, fails it or starts it again. *)
Holds(b, k) == job[b] # NoJob /\ KeyOf(b) = k /\ job[b].builder = snaps[k].builder
FencedStep ==
  \A k \in Keys : BeingBuilt(k) /\ snaps'[k] # snaps[k] =>
    \/ snaps' = [snaps EXCEPT ![k].live = FALSE]
    \/ source' = NoSource
    \/ \E b \in Builders : Holds(b, k) /\ job'[b] # job[b]
Fenced == [][FencedStep]_vars

(* The rows an extraction is answered are those of its own plan, and its   *)
(* text is the registered one at that moment: an index of a replaced text  *)
(* is never read, not even by the builder that published it.               *)
ReadStep ==
  \A b \in Builders : job'[b] # job[b] /\ job'[b] # NoJob /\ job'[b].seen # {} =>
    /\ job'[b].seen = PlanRows(job[b].hash, job[b].profile)
    /\ source # NoSource /\ source.rev = job[b].rev /\ source.hash = job[b].hash
ReadsCurrent == [][ReadStep]_vars
=============================================================================
