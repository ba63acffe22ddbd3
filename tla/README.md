# ResearchReview-Agent in TLA+

ResearchReview-Agent is a server that searches the literature, reads the papers it
finds and writes reviews with the help of a language model. A request of a user
becomes a *job*; a job runs an *execution*, in which a main loop delegates
work to subagents; what an execution achieves is kept in a database, so that another
execution can go on after a crash, a cancellation or a spent budget. Along the way papers
are searched, ranked, fetched and read into *cards*; cards are ordered into *routes* and
*claims*; texts are planned, written, judged by gates and handed out.

This directory holds the TLA+ specifications of that program, the TLC configurations
that check them, and TLAPS proofs about most of them. Paths below are relative to the
repository; `tla/` holds everything described here.

```
tlc -config MCRuntimeLease.cfg MCResearchRuntime      # one run
tlapm ResearchRuntimeProofs.tla                        # one module of proofs
```

## 1. Inventory

### Components

| Component | State it keeps | Operations | What makes it correct |
|---|---|---|---|
| Durable execution ledger (`app/database/runtime_repository.py`, `app/services/durable_execution_service.py`) | one row per session: owner, lease, cancel bit, version, budget; tables of tasks, provider attempts and checkpoints | acquire, heartbeat, begin/complete/fail a task, snapshot, reserve and settle an attempt, update the budget or its limit, authorise a session save, release, cancel | one writer at a time; a replaced or cancelled writer never commits; a task and its checkpoint are one step; what was sent is paid for |
| Execution budget (`app/agent/execution_budget.py`) | the token ledger in memory, shared by the threads of an execution, with a lock; a latch | check, consume, record retrieval, `budgeted_create` | concurrent reservations respect the limit; memory and row agree |
| Background job service (`app/services/research_job_service.py`, `ResearchJobRepository`) | job table; per process an executor, a semaphore, a submission lock | submit, enqueue, run, cancel, recover after a restart, shut down | one unfinished job per session, one execution per job, outcomes kept, nothing queued for ever, no permit lost |
| Server lifespan (`app/main.py`) | none | recovery, then serving, then shutdown | recovery precedes every submission |
| Session and job tables (`app/database/models.py`, `repositories.py`, `db.py`) | rows | CRUD; conditional status update; authorised session save | the conditional writes are atomic |
| Research execution and artifacts (`app/services/research_execution_service.py`, `research_artifact_service.py`) | artifacts of a session | open the scope, restore, run, final checkpoint, save | the public session never shows what is not committed |
| Agent controller (`app/agent/controller.py`, `action_registry.py`, `action_contracts.py`) | the task of the action under way | validate, begin, run, commit or fail an action | an action runs once per idempotency key |
| Access to a literature source (`app/clients/openalex_client.py`, `app/core/circuit_breaker.py`, `rate_limiter.py`, `retry_policy.py`) | per process and source: breaker, token bucket, cooldown | check the gates, take a token, send, retry | gates hold at the moment of sending, server waits are honoured, the rate is kept, calls return |
| Main loop and delegation (`app/agent/main_loop.py`, `subagents/`, `react_context.py`, `result_merger.py`) | the trajectory of tool calls, checkpoint payloads | decide, delegate, act, observe, checkpoint, resume | every tool call gets one observation; a resumed loop neither repeats nor drops a step |
| Conversation service (`app/services/research_conversation_service.py`) with the recovery ladder (`generation_recovery.py`, `quality_recovery_policy.py`) | the session row, the attempts used, the user's permissions | turns, quality decisions, revision, automatic recovery, resumption | no stale state is gone on with; recovery is bounded and repeats nothing futile; a failed draft is released only by licence |
| Graph and nodes (`app/agent/graph.py`, `action_registry.py`, `evidence_invalidation.py`, `nodes/`) | the research state: papers, details, cards, routes, claims, drafts, judgements | find, fetch, read, validate, plan, write, judge, restore, hand out | no product outlives the evidence it was built from; what is handed out was judged as it stands |
| Retrieval of papers (`app/agent/retrieval_loop.py`, `nodes/retrieval.py`, `nodes/base.py`, `services/retrieval_ranking_service.py`, `tools/paper_rerank.py`) | words, windows, candidates, verdicts, details | rounds of words, ranking, screening, refining, fetching, recovery searches, widening | evidence was admitted for the scope as it is; a word is sent once; an increment loses nothing |
| Vector storage (`app/storage/pgvector_store.py`, `services/chunk_indexer.py`, `tools/chunk_retriever.py`) | sources, snapshots with leases and tokens, chunks | register, claim, append, publish, fail, read, delete | an index appears whole, for the registered text, by its last builder |
| Paper cards (`app/tools/extract_paper_card.py`, `services/evidence_support.py`) | one card | choose chunks, call the model, merge, deduplicate, match evidence, gate | what a card says stands in the paper; what was not read does not count as read |
| Routes and evidence recovery (`app/agent/route_validator.py`, `evidence_recovery.py`, `pipeline_stages.py`, `route_targets.py`) | routes, assignments, taxonomy, gaps, attempts | validate, split, merge, cluster, diagnose, decide, search, settle | every paper stands where it belongs; a route with a gap is served |
| Deliverables (`app/agent/writing_plan.py`, `claim_plan.py`, `nodes/synthesis.py`, `tools/write_deliverable.py`, `deliverables/renderers/`) | plans, allocations, claims, section checkpoints, texts | plan sections, share references, plan and gate claims, write, rescue, reuse, fill | no paper or route is lost on the way; what is written is licensed, current and complete |
| Research memory and context history | compaction cursor, summaries | append, compact, recall | nothing is summarised twice or skipped |
| LLM service (`app/services/llm_service.py`) | model state | request, retry, fail over | one charge per request |
| Other clients, tools, intent and routing rules, HTTP API, chat frontend, prompts and schemas, scripts | little or none | pure transformations, single statements, presentation | functional, not temporal |

### How they interact

* The HTTP handlers call the job service. A job that a worker thread claimed calls the
  conversation service, which opens a durable scope (`durable_scope`): an *execution*
  with a fresh owner id, a lease, a heartbeat thread and a budget in a context variable.
* The main loop and the subagents act through the controller; an action is a task of the
  ledger, and its result is committed with a checkpoint. Tools fan out over thread pools
  which they join before they return; those threads share the execution's budget and call
  the model through `budgeted_create` and the sources through their clients.
* The operations of the graph read and write one research state. The conversation service
  keeps it in the session row; a checkpoint keeps it while a pipeline runs.
* Executions of the same session, in one process or several, meet only in the database.
  The clients of all executions of a process share one breaker, one bucket and one
  cooldown per source. Builders of one paper's index meet in the vector database.
* Cancellation comes from outside: the job row is set to `cancel_requested`, the runtime
  row gets its cancel bit, and the threads notice at their next check.

### The hard behaviours

Leases that run out under a working execution, with the clock read before the wait
for the write lock; takeovers with requests in flight; answers that come after the takeover;
writes that are lost after memory changed; threads that share a ledger and persist all of it;
a cancellation at any point between two reads of a status; restarts with a draining process
still at work; gates that close during a wait; retries; state restored from an older
checkpoint, an older scope or an older draft; judgements and verdicts that outlive what they
were given on; many ways through an extraction, a plan or a gate on which something is lost.
`PROJECT.json` lists each under `hazards`, at its line, with the properties that watch it, or
the reason why none does yet.

## 2. Modules

Executions, jobs, calls:

```
SessionJournal            what the ledger promises (abstract)
   ^ implemented by
ResearchRuntime           the durable ledger, its executions and provider calls
   ^ EXTENDS
RuntimeLedger             the sums over calls       ResearchRuntimeProofs
   ^ EXTENDS
MCResearchRuntime         run Lease

JobQueue                  the job service         )
RuntimeLedger                                     ) MCRuntimeJobs: RuntimeJobs ServiceProofs

CircuitBreaker  TokenBucket    operators on the record of one breaker, one bucket
        ^ EXTENDS ^
SourceAccess              calls of one source  )
Delegation                main, specialist loop)    MCDelegation: Delegation   AgentRunProofs

QualityRecovery           diagnosis, ladder, settlement (operators)
   ^ EXTENDS
Conversation              turns of a session   )
JobQueue                                       )    MCConversation: Conversation, StrictRewrite
                                                                               ServiceProofs
```

From papers to texts:

```
Keywords                  the words of one round (operators)
   ^ EXTENDS
Retrieval                 the search of a session   MCRetrieval: Retrieval, CoreFirst  RetrievalProofs

PublishedIndex            what the index of a paper promises (abstract)
   ^ implemented by
VectorStore               snapshots and builders        )   MCExtraction (with MCWritingPlan):
PaperCards                the extraction of a card      )   Extraction
Outline, Allocation       sections, references (oper.)  )
   ^ EXTENDS              and shares                    )   ExtractionProofs
WritingPlan               the plans of all texts        )

RouteValidation           routes, gaps, recovery        )
Claims                    claims and their gate         )   MCWriting: Writing, ShortRoutes
Sections                  the writing of sections       )   WritingProofs

Pipeline                  the operations of the graph and what invalidates what   )
ClaimCheck                what is found about a text (operators)                  )  MCPipeline:
   ^ EXTENDS                                                                      )  Pipeline,
Verification              the verification of a draft, its repairs and the gate   )  CitesAuthorized
                                                                                     PipelineProofs
```

`Lists` has the two operators on lists that these modules share: `Arranged`, the members of a set in an order, and
`Entries`, the entries of a list at some of its places. `ListProofs` says what they and the folds of the library return;
`RetrievalProofs`, `WritingProofs` and `ExtractionProofs` extend it. `ClaimCheck` uses `Lists` too.

Operators commented `FAULT` are faulty variants of the definition that follows them (a
dropped guard, a double refund...). The specification never uses them: substituted for
the real definition, each makes one property fail, which shows that the property depends on it.

An MC module with *lanes* checks several modules in one run: the first state picks one lane, and only the
actions of its module are taken; the variables of the others stay at their initial values. The modules of
a run share no state, so the behaviours are those of each module alone, and each property is about the
variables of one.

### ResearchRuntime: the durable execution ledger

One session. An element of `Executions` is one `ResearchRuntimeRepository` (its owner is
a fresh uuid) with its worker thread, heartbeat thread and provider threads.

| Model | Code |
|---|---|
| `owner`, `leaseLeft`, `cancelled`, `version`, `budget` | the row of `research_runtime`; `leaseLeft` is `lease_until` minus the clock |
| `taskStatus`, `expected` / `attempts` / `checkpoints` / `session` | `research_tasks` / `research_attempts` / `research_checkpoints` / the public session row |
| `phase`, `myVersion`, `ledger`, `beating`, `task` | the memory of an execution: its life, `self.version`, the shared budget, the heartbeat thread, the action under way |
| `step`, `caller`, `cost` | where each `budgeted_create` stands, on whose behalf, what it charged |
| `Acquire`, `AcquireRefused` | `acquire`: the lease CAS, recovery of running attempts (charged at their reservation) and running tasks (interrupted) |
| `Renew` | one beat of the heartbeat |
| `BeginTask`, `CompleteTask`, `FailTask`, `Snapshot` | `begin_task`, `snapshot(task=...)`, `fail_task`, `snapshot` |
| `PersistBudget`, `RecordUsage`, `RunOut` | `consume` and `record_retrieval_request`, `record_retrieval_usage`, the latches and the deadline |
| `StartCall`, `ReserveMemory`, `ReserveAttempt`, `Refund`, `Answered`, `Unanswered` | `budgeted_create`, one action per hold of its lock |
| `Publish` | `ResearchSessionRepository.save` under `authorize_session_save` |
| `Release`, `Crash`, `CancelRuntime`, `UpdateTokenLimit`, `Tick` | `release`, the end of a process, `cancel_runtime`, `update_token_limit`, the wall clock |

Atomicity. Each transaction of the repository starts with a conditional UPDATE, which takes SQLite's
write lock: a transaction is one action. Holds of the in-process lock and
transactions are interleaved. `acquire` reads the clock before it waits for the
lock, so its lease is `w` ticks shorter (0..`MaxWait`).

Guards that come from callers: `Quiet` (the tools join their pools before they return, so
the worker commits with no provider call pending), and one task at a time.

Data left out: what a checkpoint or an artifact contains; the separate counters of the
budget (calls per tool, rounds, requests), of which only the effect, `RunOut`, remains; the deadline,
likewise; `extend_budget` and `slice_ratio`.

`SessionJournal` is the promise: the session is opened by each execution at most once, written
by its holder only, not after a stop, and a task is committed at most once. The
refinement maps the owner to the holder, the cancel bit to the stop, and the checkpoints to the
journal. `RuntimeLedger` adds the two properties that sum over calls (`BudgetHeld`) and the invariant
`LedgerInv` that proves them: what a call that is closed, in flight or kept owes, and that the row and each
memory cover the sum.

### JobQueue: the job service

Processes `1 .. LastProcess` follow each other; each has an executor (a FIFO `queue` and at most
`Workers` busy threads), a semaphore (`permits`) and a submission lock (`submitting`). The job
table (`status`, `sessionOf`) survives. `thread[p][j]` is the place in `_run_job` where process `p`
stands with job `j`; each read and each conditional update of the row is an action.

* submission: `CreateJob` (check, permit, queued row), then `EnqueueJob` or `EnqueueRefused`;
* the worker: `PickJob`, `ReadJob`, `WithdrawJob`, `ClaimJob`, `RunJob`, `CheckCancelled`,
  `FinishJob`, `CloseCancelled`, `CloseFailed`; `StoreError` is a write the database refuses;
* `CancelJob` from the API;
* restart: `StartServer` (reads the unfinished jobs), `RecoverJobs` (writes by primary
  key), `RequeueJob`, `Serve`; `Shutdown`, `Crash`, `Exit`.

With `Overlap` a process starts while its predecessor drains (a rolling restart).
`Terminal` stands for the six final statuses with three: `completed` also stands for `partial`,
`blocked` and `needs_clarification`, which the code treats alike. The session row that a
cancelled job writes (lines 298-314) is left to the planned composition.

### CircuitBreaker, TokenBucket, SourceAccess: access to one source

`CircuitBreaker` and `TokenBucket` give the effect of each method on the record of one
breaker and one bucket: both objects run every method under a lock. `SourceAccess` has the
threads in `_request_openalex`: `FindLimiter` to `WriteTokens` is `_get_limiter`, which
lowers the shared limiter attribute by attribute *without* its lock; `ReadyForToken` and
`ReadyToSend` are `_request_ready` before and after the token; `TakeToken`, `AwaitToken`,
`GiveUpToken` are `acquire`; then `Send` and the outcomes `Succeed`, `Refuse` (a status that
counts neither way), `Fail`, `TimeOut`, `Limited` (429, with or without `Retry-After`);
`WakeUp`; and `Stop`, the cancelled search or the lost execution noticed at a check. Three
variables are history: `promised` (the latest time a server asked us to wait for), `late` (gates
that closed on a call after it passed them), `grants` (the tokens handed out).

### Delegation: the main loop and the specialist loop

The main agent delegates one action at a time to a specialist (search, analysis, writing), whose
own loop decides, executes the action through the controller, and reports. One thread does all
of it, so the interleaving of interest is with the *end* of a run: at any point a crash, an
exhausted budget, a cancellation or a failing handler ends it, and the next run starts from the last
checkpoint. `memory` and `saved` are the research state of the run and of the checkpoint; that a
checkpoint is whole and has one writer is what `ResearchRuntime` shows.

| Model | Code |
|---|---|
| `StartRun` | an entry point of `graph.py` or the resumption of the conversation service: operation sequence, goal, mandatory queue, first checkpoint; an active delegation is resumed first |
| `Delegate`, `MainRound`, `FinishRun` | a round of `MainAgentLoop._run` that delegates, that goes on without, that ends the run |
| `StartRound`, `Decide`, `DecideInvalid` | a round of `SubagentLoop._run`: the round is counted and saved, then the decision is paid for |
| `Recall`, `Report`, `Reject`, `EndDelegation` | the specialist's control actions; `Finish` (`_finish`) pairs both open calls and ends the delegation in one checkpoint |
| `Execute`, `Commit`, `Stale`, `Reuse`, `ObserveReused` | `AgentController.execute`: the handler, the commit of patch, dequeue, result and observation in one checkpoint; a stale result; a reused result |
| `Fail`, `Crash` | an exception, answered in memory and perhaps saved by the caller; the end of the process |

A delegation has a fresh id (a uuid); queue entries carry the run that set them. `paid` and `log` are
history. What the registry, the hand-over of recovered evidence and the model's own choice
allow is a free choice; the content of the research and the goal are members of small sets. Left
out: the compaction of a trajectory, memory feedback, the correction attempts inside one decision.

### QualityRecovery, Conversation: the turns of a session

`QualityRecovery` holds the pure functions: `Decide` is the diagnosis of a failed draft with its ladders
(`Rung`, `First`: the first rung that holds is the action taken), `Started` and `Completed` start and settle an
action, and say what was fruitless. `Conversation` has the turns. An execution has the session for itself: that is the
lease of `ResearchRuntime`.

| Model | Code |
|---|---|
| `row`, `denied` | the session row: status, pending question, request, editable research state; the relaxations a user has ruled out |
| `commit`, `newer` | the newest checkpoint, and whether its version is larger than the row's (then `get` restores it) |
| `pc`, `how`, `work` | the pipeline under way, its entry point, its state in memory |
| `StartTurn`, `AnswerPreflight`, `AnswerMain`, `Resume`, `Revise` | what a message of the user may start |
| `DecideQuality` | the answer to a quality question: `force`, `accept`, `rewrite`, `taxonomy`, `time`, `scope`, `retry`; `Refuse`, `Misunderstood`, `Stop` |
| `Commit` | a checkpoint of the running pipeline, with whatever it makes of gate, issues and evidence |
| `Return` | the result, settled and persisted; `Recover` then asks, starts the next recovery, or generates the draft of last resort |
| `Raise`, `Crash` | an exception (the row is saved with the state from before); the end of the process |

`started`, `finals` and `licence` are history. `licence` says who last allowed an unvalidated draft (the user, or
the automatic last resort), or that a strict recovery revoked it. A pipeline's result is free within what its gates allow
(`StatusOf`). An issue stands for its category, an input fingerprint for what it covers.

### Pipeline: the operations of the graph

The state is what one operation leaves for the next: details, cards, routes, taxonomy, claims,
drafts and judgements. A card remembers the detail it was read from, routes and claims remember the cards.

| Model | Code |
|---|---|
| `Search`, `TargetedSearch`, `Fetch`, `Extract`, `ValidateRoutes`, `Cluster`, `PlanClaims`, `Write`, `ValidateResult` | the handlers of `graph.py` on their nodes, each with the invalidation of `evidence_invalidation.py` that is committed with it (`Invalidate`) |
| `Allowed`, `Enforced`, `Chosen`, `Consume` | the registry's preconditions, the enforced next action, the mandatory queue |
| `Restored`, `NotWorse`, `Comparable` | `_retain_better_generation`, `candidate_is_not_worse` |
| `Finish`, `Stop` | `_finish` with its delivery conditions; a run that is blocked, fails or is cancelled |
| `Continue`, `Local`, `Regenerate`, `Reverify` | the entries of the next run |

`verdict` and `settled` are history: the last judgement on each text, and the text the comparison left while
its source stands. Left out: searches without a text, the hybrid profile, diagnosis and scope
revision (in `RouteValidation`), an exception swallowed by the final-answer node. What a judgement finds is given here; how it is found is
the next section.

### ClaimCheck, Verification: the verification of a draft

`ClaimCheck` has what is found about a text at one moment. A text is a sequence of sentences, each with its section, what it says and the
bracketed groups of what it cites. `Units` cuts a sentence into one unit per citation, `Faults` is what no answer can lift,
`Verdict` the result on one unit, `ClaimOf` that of the sentence, `Reported` a report; `Reusable` says which claims of an earlier report a
local check keeps; `Errors` is the check of the whole text; `Pruned`, `Reworded` (`Reword` by the model, `Weaken` by rule) are the repairs; `Rendered` numbers the
citations, `Authorised` compares the numbers with the claims.

| Model | Code |
|---|---|
| `deck`, `review`, `source`, `rendered`, `references` | the cards; the text, the text its numbers come from, and that as it was rendered; `citation_map` |
| `report`, `cache`, `quality`, `citing`, `consistency`, `gate` | the results on the text, and the issues of the final gate |
| `carried`, `must` | the local check a run was started with, and its mandatory action |
| `Check`, `Recheck`, `Rewrite`, `Judge` | `verify_claims_node`, cut where it waits for the model: the first check with the removal of a few sentences, the check of the rest, the rewording of many, its judgement |
| `Settle`, `Refuse` | numbering, comparison and `_apply_final_quality_gate`; a text with numbers that nothing explains |
| `Draft`, `Read` | a new text; a card read anew, with what it invalidates |
| `VerifyAgain`, `Redraft`, `Rebuild` | the entries of the next run after a failed gate: verification alone, a rewriting on the same evidence, all anew |

`answers` is history: what the model answered on which statement, paper and card. Bounds: a sentence is one clause, sentences that say
different things are never 92% alike, and none is a piece of another. The lexical scores are left out: the answers of the model replace them.
Left out too: the alignment recorded before the check (a ratio), the branch of a node that raised, and of the gate what it reads elsewhere (scope,
languages, failed sections, structure).

### Keywords, Retrieval: the search for papers

`Keywords` computes one round's words: batches, branches, mixed and pure words, cleaning, near-duplicates, promotion
of the topic. `Retrieval` is the loop. `session` is what outlives a run (`research_state`), `query` the flags of the
run, `at` the place in the loop.

* a run: `JudgeWaiting`, `Start`, then `RankRound`, `Refine`, `SearchAgain` until `Leave` and `Finish`; `Stop` at any checkpoint;
* recovery: `RecoverRoute`, `RecoverCitations`, then `RankOnce` and `Settle`;
* `FetchDetails` admits papers by a verdict on what is now known of them;
* between runs: `Widen` (the user adds years), `Retry`, `Refresh`.

The counts of a request (how many references it needs, the retrieval target, the generation limit, which caps the pool of evidence: `PoolTarget`)
are constants. A decision of the user that revises them (`research_conversation_service.py:516`, 688, 914) is left out; within a
request the pool's target, once saved, is never lowered, which `PoolTarget` says by itself and no property claims.

A verdict carries the scope it was given for and what the model had read (`raw` or `full`). A source may fail on any words
(`lost`), the model may answer nothing for any papers. `launches` (browser searches) and `again` (words
sent twice for the same years) are history.

### PublishedIndex, VectorStore: the index of a paper

`PublishedIndex` is the promise: the index of a paper appears whole, for the registered text. `VectorStore` has the
builders: `Register`/`Update` lock the source row, `ClaimReuse`/`ClaimBuild` take a snapshot under a
token and lease, `Renew`, `Write` append batches, `Complete`/`Activate` publish, `BuildError`/`Cleanup` fail a build,
`Load`/`Search` read; `Stop`, `Expire` and `Delete` come from outside. Each method of the store is one transaction and
one action; an answer of a transaction that did commit may be lost. The refinement maps the active snapshot of the
current revision to the published index.

### PaperCards: the extraction of a card

`RetrieveChunks` chooses what to read, `PassChunk`, `ReadChunk` and `FailChunk` go through the chunks, `FinishFullText`
merges and gates; `ReadAbstract`/`FailAbstract` are the way without a full text; `Interrupt` is a stopped execution. A
sentence is a model value with the marks the rules look for; a value is the set of its sentences. The quotes of a field are joined, and the
gate tests the joined value once: `CleanValues` are the values that pass, `CleanText` the sentences that pass alone (claims and items of a list are tested so), so
that a fragment may stay in a value behind a good sentence. What the model answers is any of a few answers, with quotes that are not in the text or stand in it twice.

### Outline, Allocation, WritingPlan: the plans of the texts

`Outline` turns themes and required evidence into sections (attach, merge the lone, merge the overflow,
rebalance), `Allocation` shares references among them (floors, quotas, donors, the union of two texts), and
`WritingPlan` (`Enter`, `Refuse`, `PlanText`) runs them over the texts of a request, with the readiness gate and the
text written instead of one that the evidence does not carry. Taxonomy, required evidence, claims and request are chosen at the start.

### RouteValidation: routes and their gaps

`ValidateRoutes` matches cards with candidate routes, keeps, weakens, drops or splits them, assigns papers, merges
weak routes into the taxonomy; `ClusterPapers` is the fallback; `Diagnose`, `ReviseScope`, `TargetedSearch` and `ExtractCards` are
evidence recovery with its caps on rounds, attempts and revisions. How well a paper matches a route is given
(its signals, anchors and score); every division of a route's papers into clusters of the right sizes is tried.

### Claims: what a text may state

`PlanClaims` merges what the cards state, lets the model group it into theses, grades it by independent sources and cuts it to a budget;
`Gate` takes any evidence away and lets the model refuse any claim, then adds claims for papers without
one; `PlanFails` and `GateFails` are the exception handlers. `refused` and `valid` are history.

### Sections: the writing

`Start` is a writing: the plan is made anew, also for a few targets, with a new allocation, new claims and targets; the ids of the sections stay the same.
`WriteText` writes one text (by section or as a whole), repairs, merges and fills sections
(`Outcomes`, `Moved`, `Merged`, `Filled`), makes checkpoints and promotes them. A checkpoint is taken over twice: before the writing (`Reusable`) and, where its fingerprint
matches the plan after the merging, in place of the text just written (`Replaced`); `Backfill` adds missing references. A text is
what it cites and what the checks made of it; `from` is the prompt it was written from.

## 3. Runs

| Run | Instance | What it shows |
|---|---|---|
| `Lease` | 3 executions, 1 task, TTL 2, wait up to 1, 2 checkpoints, no calls, retrieval usage before the first task only | `TaskCommitted`, `OwnerCurrent`, `FencedForever`, `LeaseRespected`, `LeaseDrains` and the refinement `JournalSpec`, with expiry, takeover, cancellation, crash and a late lock |
| `RuntimeJobs` | lane *ledger*: 2 executions, 2 calls, costs below and above the reservation, a new limit, retrieval usage, TTL 1; lane *jobs*: 3 jobs and sessions, 2 overlapping processes of 2 workers, failing writes | `BudgetHeld`: what was sent is charged and the limit is exceeded only by named overruns; `SpendKept`: no charge is ever taken back; `JobsSound` (permits, one unfinished job per session, one execution per job), `TerminalKept` |
| `Delegation` | lane *loop*: 2 operations, 3 runs, 2 delegations, 2 goals, 2 rounds; lane *calls*: 2 calls with a retry, server waits 0, 1, 3 | `MainCallAnswerable`, `ReplayBounded`, `GoalServed`, `RunEnds`; `AccessSound`, `CallsReturn` |
| `Conversation` | lane *turns*: 2 requests, 2 turns, budget 2; lane *jobs*: 2 jobs, a restart, 1 worker | `RecoverySound`, `StateOfRequest`, `ReleaseLicensed`, `TurnEnds`; `JobsProgress` |
| `Pipeline` | lane *operations*: 1 paper, 2 contents, 2 texts, 2 runs, 2 issues; lane *verification*: 2 papers and a stray id, 3 kinds of cards, 2 drafts of 4 and 2 sentences, 2 planned claims, an old rendered text, 2 runs | `EvidenceCurrent`, `DeliveredVerified`, `NoRegression`; `DeliveredJudged`, `RepairsSound` |
| `Extraction` | lanes *index* (2 builders, 2 texts, 2 profiles, 3 claims), *card* (7 chunks, 9 sentences), *plan* (8 papers, 3 themes, 5 frames, 4 sets of claims, 4 requests) | `PublishedWhole`, `Fenced`, `ReadsCurrent`; `CardSound`; `OutlineSound`, `ShortReported` |
| `Writing` | lanes *claims* (4 cards), *sections* (3 sections of 2 texts, 2 writings, each with any of the plans and allocations in `Allotments`), *routes* (2 routes, 5 papers, 2 rounds) | `ClaimsLicensed`; `ReuseCurrent`, `CitesLicensed`, `SectionsStay`; `RoutesSound` |
| `Retrieval` | 3 papers of 2 years, a generation limit of 2, 2 scopes, 4 words, a refinement, a recovery search | `EvidenceSound`, `SentOnce`, `EvidenceKept` |
| `CoreFirst`, `ShortRoutes`, `StrictRewrite`, `CitesAuthorized` | as above; `StrictRewrite` 1 request, 4 turns | each violates one property that a comment or test states (section 5) |

Why the instances are enough to look at. Every hazard needs few actors: a takeover needs two executions, a takeover of a takeover
three; a lost update needs two threads; a stale card needs one paper with two contents; a worse rewriting needs two
texts; a reuse needs two writings. The time constants are small but keep their order (a lease outlives a wait; a
server's wait may exceed the longest one we take). What more instances would show is what the proofs of section 4 show
for most properties.

Some larger instances were checked while the models were written: `Conversation` with 1 request and 4 turns (2.8 million states), source
access with 3 calls (1.7 million), delegation with 3 delegations (6.6 million).

Bounds in guards, each named `BOUND` where it is declared: `MaxVersion`, `MaxRetrieval`, `LastProcess`, `MaxRuns`, `MaxDelegations`,
`MaxTopics`, `MaxTurns`, `MaxTexts`, `MaxDrafts`, `MaxSessions`, `Named`, `MaxRevision`, `MaxClaims`, `MaxWrites`, `Allotments`, `Recoveries`, `MaxElapsed` (when a bucket is full anyway),
`Horizon` (how long a token is remembered). The theorems hold for all their values. The
lane *verification* is bounded further (`mcBound`: one of the two papers keeps its card, a card read while a check is carried over is a full text, and the second draft belongs to the
second run), and its numbers are smaller than the code's: one sentence may be removed from a short text and two from a long one (`FewRemoved`, `MostRemoved`; 2 and 5 in the code).

*Symmetry* is used where all properties of the run are safety properties (`Lease`, `RuntimeJobs`, `Pipeline`, `Extraction`).

*Views* leave out what nothing depends on: in `Pipeline` the judgements of texts that can no longer be
handed out or restored; in `Writing` texts between two writings, checkpoints no later writing can use, and the taxonomy (only
what the properties say of them is kept); in `Retrieval` the browser, windows of years no later
search can have, and flags the next search sets. The invariants about what a view leaves out are part of the view themselves
(`SentOnce`, `ReuseCurrent`, `CitesLicensed`, `SectionsStay`, `ThemesSound`), so that no state hides a violation.

*Deadlock* is not checked: executions, jobs, calls and writings come to an end, and a system that served everything stops.
`RuntimeJobs` has the constraint `NoPublication`: publishing does not touch the budget and is covered by `Lease`. `Lease` has the constraint
`EarlyUsage`: retrieval usage is recorded only while a first execution holds the lease and no task has begun; no state without usage is cut off, and `RuntimeJobs` records it at every point.

### Fairness

* `JobsProgress`: the executor's threads and the start-up hook are scheduled (`WF` of each `JobStep`, `ServerStep`), and `RunJob` ends, as provider requests carry a
  timeout and executions a deadline. Clients owe nothing. Failing writes and overlapping
  processes are switched off there; section 6 says what is lost without that.
* `CallsReturn`: time passes, each thread moves, and a request is answered or times
  out (the HTTP timeout). A token need not become available: `acquire` gives up.
* `RunEnds`: the thread moves on (`WF` of `LoopStep`): requests carry a timeout, handlers end with the deadline of
  the execution.
* `TurnEnds`: no pipeline runs for ever (`Returning`, which `RunEnds` justifies); then a turn ends because every relaunch uses up budget.
* `LeaseDrains` is an action property (the lease of an owner that ended, crashed or was cancelled is never prolonged) and needs no fairness. It therefore also covers an execution whose thread hangs.

## 4. Proofs

40 theorems, for every value of the constants that the named `ASSUME`s of the modules allow. Those assumptions say what kind of thing a constant is
(special values lie outside the sets they extend, quantities are natural numbers or positive, tables are functions on their
sets, sets of calls, papers or scopes are finite); TLC evaluates each on the instances above.

| Module | Theorems (property) |
|---|---|
| `ResearchRuntimeProofs` | `TypeCorrect`, `CheckpointsAreContiguous`, `TasksCommitOnce` (`TaskCommitted`), `HolderIsCurrent` (`OwnerCurrent`), `FencedIsForever`, `LeaseIsRespected`, `AbandonedLeaseDrains`, `SpendingKept`, `LimitIsKept`, `BudgetIsHeld` (`BudgetHeld`), `ImplementsJournal` (refinement) |
| `ServiceProofs` | `JobsAreSound`, `OutcomesAreKept` (`TerminalKept`); `TurnsStayWithTheRequest` (`StateOfRequest`), `RecoveryIsSound`, `ReleasesAreLicensed` |
| `AgentRunProofs` | `CallsAreAnswerable`, `ReplayIsBounded`, `GoalIsServed`, `AccessIsSound` |
| `PipelineProofs` | `EvidenceStaysCurrent`, `DeliveryIsVerified`, `SettledTextsImprove` (`NoRegression`) |
| `RetrievalProofs` | `EvidenceIsSound`, `EvidenceIsKept`, `WordsAreSentOnce` (`SentOnce`) |
| `ExtractionProofs` | `StoreSound`, `PublishesWhole` (refinement), `BuildsAreFenced`, `ReadsAreCurrent`; `CardsAreSound` (`CardSound`); `OutlinesAreSound` (`OutlineSound`), `ShortSectionsReported` (`ShortReported`) |
| `WritingProofs` | `RoutesAreSound` (`RoutesSound`), `RecoveryServes`; `RefusalsDoBind`, `GatedClaimsHold`; `ReuseIsCurrent`, `CitationsAreLicensed`, `SectionsDoStay` |
| `ListProofs` | lemmas only: lists, orders, folds and sums |

The arguments, by the invariant that carries each. No property above is inductive as it stands.

* **The ledger.** `TypeOK /\ OwnerCurrent /\ CheckpointsContiguous /\ TaskCommitted`. `OwnerCurrent` is the heart: the
  conditional updates compare the *memory* of an execution with the row, and only because the
  holder's memory agrees with the row (version, limit, at least the row's charges) do a
  whole-ledger write and a new checkpoint number extend what is there. `TypeOK` bounds `leaseLeft`, since a late `acquire` must
  not exceed `TTL`. The refinement maps each step to `Open`, `Commit`, `Stop`, `Close` or a stutter.
* **The budget.** `LedgerInv` (`CallsSound`, `RowCovers`, `MemoryCovers`) says what a call owes by where it stands, who
  holds it and whether its attempt is recorded, and that the row and each memory cover the sum of what is owed. The sum is a
  fold over a set of calls, shown to be a sum by a smallest counterexample (below).
* **Jobs.** `ProcessesSound` makes the permits of each process those of the jobs it holds, `ExecutingClaimed` ties a running
  thread to the claim in the table, and `ExecutedOnce` and `OneActiveJob` follow from the conditional updates.
* **Delegation.** `LoopInv` relates three states for one delegation: the memory of the run, the checkpoint, and the history of
  what was decided and committed. What a crash repeats is the difference between memory and checkpoint.
* **Source access.** `AccessInv`: a gate that closed after a call passed it is noted as late for that call (`BreakerSeen`, `CooldownSeen`), and what was
  granted plus what the bucket can still give is within the rate (`Paid`).
* **Conversation.** A turn may go on from the row, the newest checkpoint, or the memory of the pipeline. `TurnSound` says
  the same of all three: of this request, with at least the actions started counted, marked if the last resort
  was taken, licensed if released, nothing futile repeated.
* **Pipeline.** `EInv` extends `EvidenceCurrent` to the saved draft that may be restored; `DInv` adds that a gate's answer
  is the verdict on the text at hand while fingerprints are equal; `RInv` that a settled text is the one shown or the one saved.
* **Retrieval.** `RetrievalInv`: an entry of the details was admitted for its scope, and an increment only adds to those that stand, so that no cap drops one (`EvidenceKept`); the ranking holds verdicts of some scope, and `met` has
  enough papers behind it. For `SentOnce`: words are words (`Worded`) through every fold of `Keywords`, so that the words of a round
  are unsent, distinct and clean, or the cleaned form of one that was not.
* **The index.** `IInv`: rows come from the text of their revision, a published snapshot of the current one is whole.
* **The card.** `CardInv`: the quotes accepted so far stand in chunks that may be used, such a chunk is never marked as excluded, and a
  reading that stopped has left one of them failed or skipped. The deduplication, the gate and the merging only take sentences away. No value that
  passes has a marked sentence (the one assumption on `CleanValues`), so none stays in a card, whatever fragment does.
* **Sections.** `SectionsInv`: a checkpoint's fingerprint and its prompt agree on allocation and claims, and the merging only
  took statements away and added papers. So a text taken over, before the merging or after it, agrees with any plan that has its fingerprint, whatever plans were made
  in between. Nothing with papers is lost while a text is under way.

* **Routes.** `RoutesInv`, the types with `AssignmentsSound` and `ThemesSound`. Only three steps write what it speaks of, and each computes it
  anew, so the work is in the operators: a split divides what a route holds (`SplitDivided`), the parts stand in the list of their parent
  (`WithPartsSplit`), each paper is assigned to a route that has it (`AssignmentWell`), and weak themes are merged away without losing
  one (`TaxonomyWell`). For `RecoveryServes` (a recovery with as many queries as routes to serve gives each of them one), the affected routes are dealt their queries one after the other: the first round gives each
  of them one that is still unsent while there are queries left (`DealtFirst`, `SelectedServes`).
* **Claims.** `ClaimsInv`: the plans are lists of claims, and of gated ones every claim holds (`Held`: evidence the cards still have, as many papers as its
  kind takes, no paper alone behind too many of them). Each step of the gate is shown to keep that from the raw claims to the ones coverage adds (`GateWalks`,
  `FoundedHolds`, `EntailedHolds`), whatever the model answers: `GatedClaimsHold`. That a verdict was given on *that* claim does not follow: the
  code keeps verdicts by id and does not ensure that ids differ (section 5). What does follow, for any cards, is `RefusalsDoBind`: a claim that was not found entailed
  reaches the writer only if another planned claim has its id, or if it is planned under an id of the coverage (`Shared`). The run checks `ClaimsLicensed`,
  where no two planned claims share one.
* **Outlines.** `PlanInv` has one part on the sections of each text and one on its citations. For the first, `RoutesKeep` says of the whole of
  `_merge_and_select_themes` that the papers of the themes are in the routes, that there are no more routes than allowed, and that each of them has
  two papers once `_rebalance_sparse_routes` is done or is alone. It follows the two ways through the function (`FromRequiredKeeps`,
  `FromThemesKeeps`), and each of those its folds: what is attached, taken, put over or joined is in the next list or in the one after it
  (`AttachedKeeps`, `TakeAllKeeps`, `FilledKeeps`, `OverflowsKeep`, `JoinsAll`). A round of the rebalancing takes one route away while there is one of
  fewer than two papers, and there are as many rounds as routes (`LonePairs`, `ExtraCuts`).
* **Citations.** A move takes a paper only from a section that stays at its own floor (`MovedOne`), so a section that was served stays
  served while later ones are (`ServedKeeps`, `LevelOne`); hence whatever is below its floor in the end was so when its turn was over, and was
  reported (`LevelledSettles`). `CitedStands` ties a section that gets citations to the section of the plan with its key. The rest shows that every
  number a text is planned with is one: shares, targets, floors (`GoalsIn`, `QuotaIn`).

*Folds without induction.* The induction theorems of the library take an operator as a parameter, which the provers here cannot
instantiate. Where a definition is a fold or a recursive function over a finite set or a sequence, the proofs take the least size or index at
which the claim fails (`WFMin`, with the order of the naturals) and show that it does not fail there. A fold is first replaced by the function of its
values, one after the other (`ListProofs`, and a lemma next to each fold of `Outline` and `Allocation`); what one step keeps, the
last value then has. For this the steps of folds are operators with a name. So are proved the sums of `RuntimeLedger`, the selections of `Keywords`, and all of
`RouteValidation`, `Claims`, `Outline` and `Allocation` above.

*Only model-checked.* Liveness (`RunEnds`, `CallsReturn`, `TurnEnds`, `JobsProgress`), which is out of the prover's reach; `ClaimsLicensed`, which holds only where ids
differ; `DeliveredJudged` and `RepairsSound`, whose proofs would follow the folds of the repairs and are left to the plan.

*What the theorems do not say.* `OutcomesAreKept` exempts the repair at a restart and a refused hand-over, which write without looking. `AccessIsSound` bounds the rate where a `mailto` keeps the
limiter from being lowered. `AbandonedLeaseDrains` says that nobody prolongs the lease of an owner that ended, crashed or was cancelled; that it then runs out is the passing of time.

The inductive invariants were checked by TLC on small instances before they were proved (`LedgerInv`: 609,629 states; `ConversationInv` with 3
turns: 991,964; `Worded`: the run `Retrieval`).

## 5. Where code and documents disagree

Shown by a run that finds the violation:

* **An expanded word pushes a core word out** (`CoreFirst`). The batch selection of `nodes/base.py:63` takes words in
  Latin letters before Chinese ones, so an English word that a refinement added takes the place of a Chinese core word that
  was not searched yet. The comment at `nodes/retrieval.py:210` rules that out.
* **A split hides a gap** (`ShortRoutes`, property `ShortRoutesDiagnosed`). The diagnosis of `evidence_recovery.py:234` goes through the decisions, and a split records one on
  the parent and none on its parts, so a part below its target is never diagnosed. `tests/test_route_recovery_gold.py:272` tests
  this with a decision on the part that the validator does not produce.
* **The strict gate is not restored** (`StrictRewrite`, property `RewriteIsStrict`). A conservative rewrite clears `best_effort_generation` in a copy
  (`research_conversation_service.py:928`); when the pipeline raises, the state with the mark is saved and resumed, and a draft that fails is
  released. The comment at line 923 and `tests/test_research_conversation.py:1184` say the opposite.

* **Groups of citations are not compared** (`CitesAuthorized`). `validate_claim_citation_consistency` reads citations with the pattern `\[(\d+)\]` (`claim_plan.py:1616`, 1626), and
  `render_in_text_citations` joins the papers of a group as `[1, 2]` (`generate_citation.py:522`). A sentence that cites two papers in one group, one of which its claim
  does not rest on, passes the gate, although one such sentence must block the delivery (`nodes/synthesis.py:1960`).

Met while modelling, without a run of their own in the project:

* *Shadow.* A pipeline that raises saves the session's state from before (`research_conversation_service.py:2019`), stamped with
  `runtime.version` (`repositories.py:456`); `get` prefers a checkpoint only if its version is larger (`repositories.py:516`). So
  checkpoints committed before the exception are never restored, although
  `docs/research-workflow.md:72` and `docs/agent-runtime-and-cache.md:152` promise it. `Conversation` models it so (`Raise` makes `newer` false).
* *JobCancel.* `_run_job` reads the job and then claims it; a cancellation between the two makes the claim miss, and
  `if not claimed: return` (`research_job_service.py:212`) leaves the row in `cancel_requested` with no worker, against the comment at lines 125-126. The
  session is busy until the next restart. `JobsProgress` therefore speaks of queued and running jobs only.
* *Leak.* `reserve_attempt` persists the shared ledger, with what other threads hold in memory only. After a crash the takeover gives back the reservations
  of recorded attempts, not those; `tests/test_durable_runtime.py:153` expects 0. The limit of the session shrinks for good.
* *SourceBurst.* `_get_limiter` lowers the shared limiter attribute by attribute without its lock: a second thread may take from the still
  full bucket, or the clamp writes back a token taken in between. `AccessSound` therefore claims the rate for limiters that are not lowered.
* *DelegationQueue.* An ordinary delegation that was interrupted is resumed before the main agent decides; if the new run's
  mandatory queue starts with the same action, the specialist commits it and it stays in the queue (`subagents/loop.py:218`).
* *Revision.* A revision saves the status `success` (`research_conversation_service.py:2157`), which `revise` itself does not accept: a revised
  session cannot be revised again, although `docs/multi_turn_research.md:68` sends finished results to the revision.
* *Reverify.* A failing gate sets `generation_blocked` (`synthesis.py:2113`) and a passing one leaves it: a verification alone of a draft that had failed
  cannot hand it out, which `tests/test_agent_completion_regressions.py:609` expects of one.
* *PaperSource.* No parser sets the `source_revision` that `chunk_indexer.py:40` passes on, so an extraction has never observed a revision: it registers the first
  text of a paper and is refused with every later one, until an operator updates the source (`Register`, `Update` of `VectorStore`).
* *Section fingerprints.* A checkpoint's fingerprint is taken after `_merge_failed_or_missing_sections` moved papers, its text
  was written from the prompt before (`write_deliverable.py:152-202`; the comment at 85-88 says that it lists what really went into the prompt). An
  overview can be taken over whose prompt had fewer papers than the plan gives it now. That its draft stated at least as much of the papers it had is
  proved (`ReuseCurrent`); equality does not hold.
* *Shares of references.* When the least shares exceed the references there are, `_global_deliverable_citation_quotas` (`synthesis.py:413`) gives one
  reference to each text, and the shares do not add up to the target its docstring (383) and `tests/test_generation_quality_gate.py:1638` name.
* *The gate of claims.* A claim id is cut from the first 40 characters (30 for background), merging compares 80: two
  claims may share an id, and the verdict on one decides on the other, against the docstring of `enforce_claim_evidence_gate` ("未返回或未蕴含均不进入 Writer").
* *Exhausted recovery.* `docs/ResearchReview-Agent-architecture.md:1799` lets clustering come only after recovery is exhausted; `graph.py:176` clusters at once.

## 6. Known behaviour that no property covers

Executions, jobs, calls:

* A process that drains may claim a job after its successor's repair and be killed: the job stays
  `running` until the next restart. A failing write can leave a job in an unfinished status likewise.
* The repair at start-up writes by primary key and may overwrite an outcome a draining process just
  recorded; `TerminalKept` names it as an exception.
* While half-open, the breaker lets every thread's request through and counts late
  answers of earlier requests (`circuit_breaker.py:94`).
* A run that fails with a delegation open answers the main agent's call with the failure
  (`main_loop.py:101`); when a later run completes the delegation its report meets no open call
  and reaches the main agent only as a recorded task result.
* A reused result leaves the mandatory queue in a checkpoint of its own (`controller.py:161`); a crash
  before the observation leaves the specialist's call open there, and the next run is refused once.
* The reservation an `UpdateTokenLimit` counts leaves retrieval tokens out, so a limit below the use can be set.
* `last_taxonomy_fingerprint` is not exported, so the guard at `research_conversation_service.py:941-947` never fires.

Retrieval:

* The browser budget: a session is to search CNKI at most twice (`nodes/retrieval.py:351`), but the anchor's flag is not in the saved
  state, so a later run starts the browser again. `launches` in `Retrieval` counts the searches and `BrowserTwice` states the promise, which does not hold.
* Words that cleaning drops or changes never enter the searched windows under their own form: they stay unseen, take a place in
  every round, and a mixed one is sent again (the exception in `SentOnce`). A near-duplicate is searched one round later.
* Words that failed are recorded as searched; a retry dispatches nothing.
* The `except Exception` around each word in `search_node` swallows a cancellation raised in a worker; it is honoured at the next checkpoint.
* `rank_node` refuses a changed retrieval configuration, the final ranking of the loop does not ask.
* A model that fails in the final screening empties `ranked_papers`; the guard is for a missing model only.
* `expand_search_year_node` and `recover_english_screening_shortfall` are dead.

Routes and recovery:

* A round that caused a split is judged exhausted although the evidence landed in the parts; attempts are charged to routes without a query;
  `recovery_decision` outlives its settlement, so the same queries may run again.
* A weak parent that is split keeps a gap nothing can close; core papers of a split parent that another route owns are in no part; decisions of
  split parents count twice in the survival rate.
* Duplicate route ids are not told apart; `DROP` cannot be reached for normalised routes.
* Remediation of a clustering drops cards that validated routes still list; the report of a validation survives an invalidation.

Pipeline:

* A best-effort local rewrite is always refused by `candidate_is_not_worse`, since its strategy code counts as a new issue.
* `pending_card_rebuild_ids` is not exported by `_build_output`; excluded papers stay ranked and can be fetched back.
* A writing that leaves no text loses the better draft before it; routes validated again after `plan_claims` leave claims and fingerprint standing.
* Parse results are no part of the evidence signature.

Texts:

* A section with a supporting paper that is allocated to another section can never be checkpointed, nor can a merge's target be reused.
* The backfill of an earlier text is validated against the allocation of the last one, and validation authorises citations by text, not by section.
* The rescue of failed sections reads `field_claims`, which the writer's inputs do not have (`base_renderer.py:883-902`).
* When the gate of claims raises, the plans stay as they were planned (`GateFails`). Empty plans without a requested number lift the restriction to authorised papers.
* `strip_evidence_meta_language` may join a heading to its lines; older candidates are then promoted again.
* Two routes over the same papers can leave one without a citation; required routes come from all cards, invalid ones included.
* A text that was refused (numbers that nothing explains) passes the gate when no number of references was asked for: only the count holds it back.
  The instance asks for one (`ExplicitCount`).
* A report keeps of a sentence's citations those of its first unit (`_aggregate_atomic_results`), and a rewording is compared with these: it may drop the others.
* A quote that is not author-stated loses its value and keeps its claim on the card; the level "established" is never reached.

## 7. Not modelled, and why

* *Pure data*: fused scores, parsing, prompts, schemas, intent and routing rules. There is no state to interleave; the tests cover
  tables of inputs well. Where an algorithm decides what is lost or kept (words, sections, routes, claims) it is modelled.
* *Presentation and plumbing*: HTTP handlers, the chat frontend, scripts, migrations. What they call is modelled.
* *Document ingestion and the library tables*: single statements.
* *Variants*: the Crossref, Semantic Scholar and arXiv clients repeat the loop of the OpenAlex client with other constants.
* *Within modelled parts*: the wording of claims and drafts, the cutting of a text into chunks, search-only requests, the hybrid profile,
  trajectory compaction, the counters of the budget one by one.
* *Planned*, section 8: proofs about the verification, model failover, research memory, the composition of job, ledger and session row.

`PROJECT.json` gives the status of each component with its reason.

## 8. Plan

1. `Verification`: proofs of `DeliveredJudged` and `RepairsSound`: a report's claims follow its text through every repair (`Reusable`, `Pruned`, `Reworded`).
2. `ModelFailover`: retries and the switch to a backup model over `budgeted_create`: each request is charged once, an
   exhausted provider is not asked again.
3. `JobExecution` composes `JobQueue` (one job), the promise of `ResearchRuntime` (`SessionJournal`) and the
   session row: what was committed is what a resumption starts from; a session and its last job do not contradict each other for ever.
4. `ResearchMemory`: the compaction cursor across failing saves: nothing skipped, nothing summarised twice.
5. The planner, the ranking (`rank_papers.py`, `evidence_roles.py`) and the global evidence gate as operators with a reference definition.
