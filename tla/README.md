# A formal model of OneOps NextGen

TLA+ modules for the parts of OneOps whose correctness depends on the order in
which things happen, TLC runs on small instances of them, and TLAPS proofs of
the results that hold for every instance. File names below are relative to
`src/oneops/` in the repository unless they start with another directory.

Contents: [1 the system](#1-the-system), [2 what is modelled](#2-what-is-modelled-and-how-it-corresponds-to-the-code),
[3 the runs](#3-the-runs), [4 the proofs](#4-the-proofs),
[5 disagreements found](#5-where-code-and-text-disagree), [6 what is not modelled](#6-what-is-not-modelled-and-why),
[7 plan](#7-plan).

---

## 1. The system

OneOps is a multi-tenant IT-service assistant. A chat message becomes a
*turn*: it enters at a door of the HTTP API, is answered from a cache or routed
to one or more agents, run by a LangGraph graph (in the API process, or in a
worker over NATS), and answered. The agents' tools call a model gateway and
Postgres. Use case 8 (UC-8) turns a turn into durable work: a service request
whose tasks are executed against external integrations.

| Part | State it keeps | Operations | Talks to | What makes it correct |
|---|---|---|---|---|
| **UC-8 executor** `use_cases/uc08_fulfillment/executor.py` | Postgres rows `task`, `request_item`, `fulfillment_run`, `approval`; an advisory lock; per worker a listing and its coroutines | `execute_plan` (wave loop, recovery, cascade skip, finalise), `compensate_ritm` | adapters, NATS, Postgres | tasks start after their dependencies; nothing runs behind a failure; "fulfilled" is true; late answers do not count; the plan ends |
| **UC-8 adapters** `.../adapters/` | idempotency keys and resources at the integration | `invoke` with a key | external tools | a retry does not provision twice |
| **UC-8 intake and approval** `.../tools.py`, `core.py`, `approval.py`, `api/uc08_approval_routes.py` | `request`, `request_item`, `approval` rows | create, duplicate check, gate, decide, release | executor through NATS | nothing unapproved runs; one release; no run without a plan |
| **Turn executor** `executor/nodes.py`, `graph.py`, `state.py` | the graph's state per checkpoint thread | dispatch waves, run steps, ask, aggregate, persist | router, policy, tool runner, session store | data flow is respected; an approval pays for one action; status is honest; the turn ends |
| **Plan steps** `executor/step_runner.py`, `entity_elicitation.py`, `boundary.py`, `toolrunner/` | idempotency records, variables | choose a tool, bind or ask for its parameters, run it once, replay | gateway, record stores | a replayed result is the step's own; a picked record is the user's own; a step ends |
| **Model gateway** `llm/` | quota windows, booked cost | call, stream, embed: charge, redact, send, retry, fall back | providers | the quota bounds the traffic; prompts leave scrubbed |
| **Doors** `api/app.py`, `session/lifecycle.py`, `api/*_turn_cache.py` | session hashes and index, exact, edge and semantic caches, pause markers | chat, stream, websocket, fast path; create, touch, list, delete sessions | turn executor, Redis | a cached reply answers this question in this scope; a pause is never replayed; a resume stays in its session; every request is answered |
| **Bus** `adapters/nats_*`, `api/nats_invoker.py`, `workers/graph_worker.py` | breaker and window per subject and tenant | request with retries, serve, reply | API, workers | a tenant's breaker opens for its own failures; every call ends |
| **Session store** `session/store.py` and its backends | cold log (system of record), hot window | append, recent, prune | Dragonfly, Postgres | an acknowledged event is kept; nothing unstored is shown; what is shown is in order |
| **Router** `router/`, `conversation/control_gate.py` | route cache, classifier caches, lexical index | focus, gate, split, rewrite, retrieve, filter, disambiguate, assemble | gateway, registry, authz | plans are runnable; records are ones somebody named; survivors are allowed |
| **Registry** `registry/` | an envelope of versions per card, a memoised fingerprint | create, update, activate, deprecate, retire, delete, get, list | router, executor | one live version |
| **Authorisation** `authz/` | decision cache, tokens | decide | router | no decision of another card is served |
| **UC-5 triage** `use_cases/uc05_triage/`, `api/uc05_routes.py` | ticket rows, proposal cache | propose, decide (directly or over the bus), queue | Postgres, gateway, NATS | a told decision stays; the deadline follows the priority; advice stays in the tenant |
| **UC-1, UC-2, UC-3** | summary, result, rerank and embedding caches | read, summarise, find similar tickets, look up articles | gateway, Postgres | a reader is told what its role may see of what this request read |
| UC-8 catalog search | none | rank catalog items | gateway | |
| Policy engine and composer | none | compose | turn executor | pure |
| Embeddings, codec, observability, tenancy, configuration | none the properties are about | | | |

**Where it is hard.** (1) Every `await` is a point where another worker, another
turn or another process runs; what was read before it is a snapshot. (2) UC-8's
only mutual exclusion is an advisory lock whose key is Python's salted `hash`, so
processes do not share it, and everything rests on optimistic `UPDATE ... WHERE
version`. (3) A call that timed out may still take effect, on the integration,
on the bus and at the model provider. (4) Events are core NATS: at most once, no
redelivery. (5) The pause marker of a session, the checkpoint of its thread, the
conversation log and the session hash are stores written one after another.
(6) Half a dozen caches stand between a question and its answer, and each is
right only if its key holds everything the answer depends on. (7) Model replies
are inputs like any other: they may be malformed, cyclic or about a record that
nobody named. `PROJECT.json` lists the hazards one by one, at their lines, with
the property that watches each; section 5 has those no property can cover
because the code gives no guarantee there.

## 2. What is modelled, and how it corresponds to the code

| Module | Models |
|---|---|
| `Fulfillment` | UC-8 executor, its adapters' calls, compensation |
| `TaskDag` | abstract specification of one plan's tasks; `Fulfillment` implements it |
| `ServiceRequest` | UC-8 intake, approval gate, decisions, releases |
| `TurnExecutor` | turn executor graph and the chat handler's pause and resume |
| `SessionStore` | session event store over the Dragonfly or the Postgres log |
| `TurnCaches`, `ChatDoor` | the turn caches as functions; the doors, session lifecycle and resume markers around them |
| `NatsBus` | the ingress side and the worker side of a turn sent over NATS |
| `Registry`, `Authz` | the versioned card store; the access decision and its cache key |
| `Utterance`, `RoutePlan`, `Router` | what is read off a message; the deterministic half of routing; the funnel with its caches, composed with `Registry` and `Authz` |
| `RankedLists` | cutting, filtering and sorting, as the searches and the router do it |
| `TriageAdvice`, `Triage` | what UC-5 computes; the endpoints, the worker and the conditional update |
| `RecordStores`, `Summaries`, `SimilarTickets`, `KbLookup`, `Readers` | shared reads and field policy; UC-1, UC-2, UC-3 as functions of what each await returned; the three at work with their caches |
| `LlmGateway`, `ToolChoice`, `ToolSteps` | the model gateway; what a step runs and with what; the step executors over the gateway |
| `FulfillmentProofs`, `ServiceRequestProofs`, `RuntimeProofs`, `ChatDoorProofs`, `RouterProofs`, `TriageProofs`, `ReadersProofs`, `ToolStepsProofs` | theorems |
| `MC...` | the small instances |

Definitions marked "Fault" or "Mutant" are deliberately wrong variants of the
definition that follows them. They are used only to show that a property can
fail: with the variant in place of the original TLC reports a violation.
`PROJECT.json` pairs them.

In every module an action runs from one `await` to the next, since asyncio
interleaves nowhere else, and a function that never suspends is an operator.

### Fulfillment

One action is one SQL statement, because a worker awaits at each of them.
Durable state is `task`, `output`, `ritm`, `run`, `approvals` and `old` (tasks
whose `started_at` is past the recovery window; it keeps the time of the *first*
start, so a task never leaves the set). `kind` says how `_execute_one_task` treats
each task; any of `Plans` may be the plan. An approval row is `[task, attempt,
state]`: which gate asked for it, at which attempt, and what became of it. `lock` holds the workers that own the
advisory lock under their own `LockKey`. `snap` and `rsnap` are what a worker
read last; an UPDATE is `TaskMatches(t, from, version)` and otherwise has no
effect, as in `db.transition_task_state`.

| Code | Actions |
|---|---|
| `nats_dispatcher` delivery, a second `create` on the same RITM | `OnExecute`, `Republish` |
| `execute_plan`: try-lock, `finally` | `TryLock`, `Unlock` |
| `_init_ritm_and_recover` | `GetRitm`, `StartRitm`, `RecoverStuck` |
| `_execute_plan_locked` | `ListTasks`, `SkipTask`, `Relist`, `Decide`, `EndWave`, `WavesExhausted` |
| `_execute_one_task` | `Claim`, `ManualDone`, `Misconfigured`, `InsertApproval`, `Block`, `AdapterDone`, `AdapterRetry`, `AdapterFail`, `TaskRaises` |
| `_finalise` | `FinGet`, `FinPut`, `FinRun` |
| `decide_approval` on a gate's row: the row is decided, and an approval withdraws every other pending row of the RITM, those of other gates too | `DecideApproval` |
| `compensate_ritm` (takes no lock) | `CompList`, `CompTask`, `CompGet`, `CompPut` |
| process death, time, the integration (external) | `Crash`, `Age`, `Provision` |

`sent` and `effects` separate a call from its side effect, so a call that timed
out may take effect at any later moment. The idempotency key is `<<task,
attempt>>`, as the code builds it from the retry count.

`TaskDag` says what a plan's tasks may do with no worker, version or lock in
sight: start after the dependencies settled, end, be re-queued, be skipped
because something upstream failed. `Fulfillment!ImplementsTaskDag` is that
specification under the mapping `st[t] = task[t].state`.

### ServiceRequest

The calls of `create_service_request` for one requester and one catalog item.
One action is one statement or transaction; only the deciding transaction is
taken apart into row locks (`UpdateDecision`, `WithdrawOther`, `ApplyOutcome`),
because two of them can wait for each other (`DeadlockAbort`, external: Postgres
aborts one). The plan is inserted one statement per task (`InsertTask`, `PlanSize` times), then the
run row (`InsertRun`), and a call may die between any two of them. The
approval matrix and the rosters are chosen in `Init`: every policy over three
users is tried. `Abandon` and `DeciderDies` are a crash, or an exception, at any
point. `ExecuteStart` and `ExecuteEnd` stand for the executor.

### TurnExecutor

A request is one POST to the chat endpoint, a new message (`Turns`) or an answer
(`Resumes`). `run[q]` is the invocation's copy of the thread's state, `ckpt[t]`
the checkpoint of a turn's thread; nothing in the code keeps two invocations off
one thread. `marker` is the cache entry `__interrupt__<session>`. Neither turn
cache has a `delete`, so clearing writes `{}`, which later reads take for a
pending question without a thread.

| Code | Actions |
|---|---|
| `load_session` ... `route` | `Submit` |
| `dispatch_wave`, fan-in | `Wave`, `EndWave` |
| `_run_step_body` | `Refuse`, `Block`, `Ask`, `Decline`, `Work`; `Catalog` for an agent that manages its own approval |
| `_normalise_generated_steps`, `merge_plan` | `Generate`, `MergePlan` |
| `aggregate`, `_overall_status`, `persist`, `append_turn_events` | `Aggregate`, `OverallStatus`, `Persist`, `WithTurn` |
| pause capture, timeout and errors in the handler | `Pause`, `Fail` |
| resume branch of the handler | `Answer`, `GetMarker`, `ClearMarker`, `ResumeTurn` |
| cache TTL | `ExpireMarker` |

An agent whose card says `manages_own_approval` (UC-8; step kind `"own"`) is not
gated by the executor. Its handler, `request_catalog_item`, asks the user to pick
an item and then to confirm it; `Catalog` does both, with the rounds of the item's
form folded into the pick. What a user answers is remembered with what was asked
(`asks`, `says`), so that picking an item is not taken for confirming it.

LangGraph is external. What the code relies on is modelled: a node that calls
`interrupt()` runs again from its start on resume, sibling results of the wave
are kept, and an answer without an interrupt id is refused when several questions
are pending or the thread has no checkpoint; the handler turns that refusal into
`out = {}`. Cut short: a resume that finds no marker continues as a new turn,
and is not followed (`"new_turn"`); `ChatDoor` follows it. Which tool a step
selects is in `ToolSteps`; the texts are abstracted.

### SessionStore

One session's history. An action is one Dragonfly command or MULTI block, or one
Postgres statement. Redis has no empty list, so `hot = <<>>` is a missing key.
A writer is one `append_turn_events`: it appends the question, then the answer.

| Code | Actions |
|---|---|
| `SessionEventStore.append` over `EventLog.append` and `HotWindow.push` | `ColdAppend`, `HotExists`, `HotPush`, `AppendFails` |
| `recent` over `window`, `read` and `replace` | `WindowExists`, `WindowRange`, `ReadCold`, `Replace` |
| `apply_retention` over `prune` | `PruneRows` (Postgres), `PruneRead`, `PruneRewrite` (Dragonfly) |
| retention horizon, sliding TTL and `evict` | `Age`, `ExpireWindow` |

The API wires the memory or the Dragonfly backend today; `PostgresEventLog` is
the log meant for production, and is the one for which "an acknowledged event is
kept" is stated: Dragonfly's `prune` reads and rewrites the list, and an event
appended in between is lost. The in-memory backends never suspend, so nothing
interleaves with their calls. `replay` only reads.

The window itself makes weaker promises than one might think. The model reaches
windows that miss an event (a failed push; a rebuild that read the log just
before an append that found no window) or hold one twice (a rebuild that read it
just before its push), and the sliding TTL keeps such a window for as long as the
session is used. What does hold is in the run below.

### ChatDoor and TurnCaches

A request is one call at a door (`chat`, `chat_stream`, `ws`, `fast`); `pc[r]`
is the await it is at. Redis is `meta`, `index`, `exact`, `sem` and `marker`, and
any Redis call may fail: every caller goes on without it, as the code does. The
graph is an environment that ends, pauses, raises or outlives the timeout.

| Code | Actions |
|---|---|
| session adoption and `lifecycle.get`, `create` | `Arrive`, `GetSession`, `CreateSession` |
| exact, edge and semantic lookups | `Lookup`, `EdgeLookup`, `SemLookup` |
| fast-path dispatch | `Dispatch` |
| resume branch | `PendingGet`, `PendingClear` |
| `run_turn`, `resume_turn`, `wait_for` | `Run`, `TurnEnds`, `TurnPauses`, `TurnRaises`, `TurnDegraded` |
| pause marker; `touch`; the cache writes | `Park`, `TouchRead`, `TouchWrite`, `Store` |
| session routes | `SessionCreate`, `SessionDelete`, `ListFinds`, `ListPrunes` |
| TTLs, a client that leaves | `SessionExpires`, `CacheExpires`, `Disconnect` |

`TurnCaches` holds the keys, `should_cache`, the semantic bucket with its
threshold and its eviction. Similarity is a table of the instance.

### NatsBus

`call[c]` is where `resilient_call` is, `breaker[k]` a breaker with its window,
`job` the messages on the subject, one per attempt, each answered on its own
inbox. `FailFast`, `NotSent`, `Send`, `Reply`, `RequestTimeout`, `RequestRaises`
and `Sleep` are the paths of one attempt; `OuterTimeout` is the turn timeout of
the door; `WorkerTakes`, `WorkerReplies`, `WorkerStart` and `WorkerStop` are
`GraphWorker`. A job may be answered after its caller left. Time is a bounded
clock the windows and the cooldown read.

### Registry, Authz, Utterance, RoutePlan and Router

An envelope has a status per version and a pointer. An operation loads it
(`Load`) and writes it back whole (`Create`, `Update`, `Activate`, `Deprecate`,
`Retire`, `Delete`) because the store's lock is per process. `Create` and `Update`
store the status their caller wrote (`Given`; the record's default is draft);
`given` remembers which versions still have it.

| Code | Actions of `Router` |
|---|---|
| focus resolution and its intent label | `Begin`, `UpdateFocus` |
| control gate | `ControlGate` |
| fast path, forced agent | `FastPath`, `ForcedDispatch` |
| `route`: malformed ids, route cache | `EnterRoute`, `RouteCacheStore` |
| decompose or unified split; rewrite and its guards | `Split`, `Rewrite`, `RewriteFails` |
| stage 2: retrieval | `Retrieve`, `RetrieveFails` |
| stage 3: conditions and access, one step per candidate, each being an await | `Filter` |
| stage 4 | `Disambiguates` |
| assembly, time filter | `FinalizeRoute`, `TimeFilter` |
| TTLs | `CacheExpires` |

A text is the ids in it, the references it makes, its other words and its
length. The cards are read again at each stage, as in the code, so an operator
may edit them in between. A condition is the list of its nodes, root first, each
naming its clauses by position, and `Evaluate` and the depth-first walks of plan
assembly are recursive functions: the prover takes no recursive operator.

### TriageAdvice and Triage

`TriageAdvice` is the arithmetic: rank fusion, rerank, de-duplication, votes,
the priority matrix, confidence, the proposal; scores are ten-thousandths.
`Triage` is the order of things: `ProposeRead`, `CheckStep`, `AdviseSteps`,
`AssembleStep` for a proposal, `DecideRead`, `DecideDirect` or, over the bus,
`OnDecide`, `DispatchReturns`, `DispatchTimeout`, `NoResponders`, then
`DecideReply`; `StepFails` is an exception, except in the assignment step, where
the handler goes on with an empty assignment; `ApplyFails` is a store that fails
before or after it wrote the row; `CloseTicket` is what others do to a ticket,
`QueueSummary` the queue. `Apply` is the conditional UPDATE. The assignee is voted
on the candidates as they were when the search read them.

### RecordStores, Summaries, SimilarTickets, KbLookup and Readers

A ticket's column is a set of items, each public or internal, so that a view for
a role is a set and "was told no more than" is inclusion. One `Readers` job is
one request of UC-1 (`FetchRecord` to `SummaryCachePut`), UC-2
(`SimilarTicketsRoute` to `KeepAnswer`) or UC-3 (`SearchKb` to `ScoreLinked`), or
one call of the registered cache tools (`GetCachedSummary`, `PutCachedSummary`),
which work on the same store under a fingerprint their caller names. Meanwhile
tickets and articles are edited, a ticket is handed to another user, stores and
models fail. `note` is what UC-2 echoes of the source ticket.

### LlmGateway, ToolChoice and ToolSteps

The gateway's caller charges the quota (`StartCall`, `StartStream`,
`StartEmbed`), then the provider answers, streams, fails transiently (retried,
then the fallback model) or unreadably. Every request that leaves is recorded in
`wire` and counted in `sent`. A `ToolSteps` job is one delivery of a step:
through `HandlerStepExecutor` (one tool, with `ElicitEntity` when its record is
missing), through `ToolStepExecutor` and `ToolRunner` (every tool of the agent,
with `Lookup` and `StoreResult` around `Invoke`, either of which may fail), or to
the boundary responder. An exception that leaves a tool step is turned into a
failed result by the node that runs it (`StepRaises`); a boundary turn has no such
net. `WriteRecord` opens a record or hands one over; `RecentOf` are the latest
`RecentLimit` records with the user in any owner column, read when the question is
put and again when the answer comes, and `mine` remembers what was the user's at
that second moment.

Two of these parts are not wired in the repository as it stands.
`ToolStepExecutor` and `ToolRunner` are constructed only in the tests: what is said
of replay is about them, not about the deployed `HandlerStepExecutor`. And
`_build_llm_gateway` (`api/app.py:130-134`) passes no `quota_guard`: the deployed
gateway has no budget (`limit[t] = 0` for every tenant), and
`ProviderCallsBounded` is about a gateway that is given one. Where there is one, it
counts per process.

## 3. The runs

Eleven runs pass (every listed property holds on the whole state space); the
twelfth, `fulfillment_retry`, ends in a violation and is in section 5.

| Run | Instance | Properties |
|---|---|---|
| `fulfillment_race` | 2 workers with *different* lock keys, tasks 1 → 2, one crash, one extra dispatch, timeouts, exceptions, recovery, approvals decided and withdrawn | `TypeOK`, `StartedAfterDeps`, `FulfilledMeansAllDone`, `OutputIsCurrentAttempt`, `BlockedOnOwnApproval`, `ImplementsTaskDag` |
| `fulfillment_live` | 2 workers of one process, 4 tasks of all kinds, an extra dispatch, a cancellation, an approver | `NoRunDownstreamOfFailure`, `ReachesTerminal` |
| `service_request_gate` | 2 calls with one key, a plan of 2 tasks, 3 users, all policies and rosters, 2 concurrent decisions | `NoUnapprovedRun`, `ReleasedOnce`, `RunHasPlan` |
| `session_store` | 2 writers of 2 events, a reader, both cold logs, one event that ages, failed appends, expiry at any time | `AckedIsKept`, `StoredBeforeShown`, `ShownInOrder` |
| `turn_executor` | 1 turn, 2 answers that may race, three plans, follow-ups with every defect | `OneActionPerApproval`, `StepsAfterDeps`, `ExecutedIsComplete`, `EveryRequestEnds` |
| `chat_door` | 2 requests of seven kinds at every door, 2 users of 2 roles, one session id and one the lifecycle refuses, one expiry, deletion or failed Redis call | `CachedReplyInScope`, `StatefulReplyNeverReplayed`, `ResumeStaysInSession`, `EveryRequestAnswered` |
| `nats_bus` | 2 turns of 2 tenants, 2 attempts each, a worker and a link that come and go, 2 ticks | `OwnFailuresOpen`, `EveryCallEnds` |
| `router` | 2 turns, 3 cards, 2 operators who change dependencies, exclusions and audiences of 2 of them, eight kinds of message, every model reply of the instance, both retrievers, three events (an edit, an expiry, the second turn) | `OneLiveVersion`, `PlanIsRunnable`, `KnownRecords`, `SurvivorsAllowed` |
| `triage` | 2 proposals (or a queue read) and 2 decisions, 2 tenants, 4 tickets, one closed meanwhile, failing steps and writes | `DecisionIsKept`, `SlaFollowsPriority`, `StaffOfTenant`, `DuplicateIsAnother` |
| `readers` | 2 requests of all use cases and 2 roles, 5 tickets, 4 articles, edits and a ticket that changes hands, failing models and stores | `ToldAsRead`, `OwnTicketsOnly`, `ReadableArticles` |
| `tool_steps` | 2 deliveries over 2 tenants (the same step twice, two steps of one turn, a missing record, a boundary turn, a delivery that brings an idempotency key of its own), a record that changes hands, failing stores, quota 1, 1 retry and a fallback | `ProviderCallsBounded`, `PromptsAreRedacted`, `ReplayIsOwn`, `PickedIsOwn`, `EveryStepEnds` |

**Bounds, and why they are enough.** Two workers suffice for a stale listing, a
lost claim and a task taken from a live worker; `MaxRetries = 2` gives a first
attempt and one retry, and recovery adds a third key; two dependent tasks give
"starts too early", four give a gate beside a failure with something behind it.
`MaxWaves` is chosen small so that the exhausted loop happens. `MaxEvents`,
`MaxCrashes`, `MaxCancels` and `MaxDecisions` cap what the environment may do;
one of each is what separates the interesting cases, and the proofs have no such
cap. Symmetry is used over the two users who are not the requester, over the
two operators, and over the two workers of `fulfillment_race`, which differ in
nothing but their names. `PlanSize = 2` is the smallest plan of which a part can be missing. For
turns, two answers are needed for a race on one thread; the three plans are two
actions in a row (two approvals, an unrouted fragment), two questions in one
wave, and a guided catalogue request before an action; the follow-up list holds a usable step, one that waits for a step that
does not exist, one for an unknown agent and one beyond the width limit, so that
each rule of `_normalise_generated_steps` applies. The session's four events
exceed both the window and the log's cap, which are 3, so trimming happens.

For the runs with requests (`chat_door`, `router`, `triage`, `readers`,
`tool_steps`) two at a time are enough for one to read what the other writes; the
lists of messages, cards and rows were chosen so that every action and every
disjunct of it is taken, and TLC's coverage shows that each is.
`Reserve` keeps two session ids of `ChatDoor`'s finite set for each request and lets
the session route mint only what is beyond them (`uuid4` never runs out; the set
would, and a request would be stuck).
`MaxChurn`, `MaxEvents`, `MaxTime` and `MaxWindows` cap expiry, edits, ticks and
quota windows: one in most cases is what makes a stale entry; the router needs
three for two operators to load one envelope before either writes it while a turn
is routed. `BucketMax = 1` makes the semantic cache evict. `RecentLimit = 1` (5 in the code)
makes one record push another out of the list. In `router` the rewriter's `changed` flag is true to its text
(`Honest`): what the code does with a reply that lies is in section 5.

What these instances do not reach, and what does: in `nats_bus` each tenant has one
call and `MinRequests` is 1, so that overlapping calls of one breaker are covered
by the two theorems on `NatsBus` only; a first connection that fails and a reply
that is no JSON are not modelled. In `chat_door` the chat messages come from one principal
and session, so that another principal's key is met only in `CachedInScope`; and
there is one tenant. `AckedIsKept` says nothing of Dragonfly's `prune`
(section 2). In `fulfillment_live` the plan has a failing sibling beside its gate.

**Deadlock** is not checked in the runs that say `CHECK_DEADLOCK FALSE`: when the
bounded environment has nothing more to send, the system rests, and that is
correct. A session can always be read, and `session_store` checks it; `router`,
`triage` and `readers` have a step that is enabled only when every request has
ended, so that a request stuck before its end is a deadlock and would be
reported.

**Fairness.** `Fulfillment!Fairness`: a live worker's `execute_plan` keeps being
scheduled by the event loop, and an accepted event is handed to a subscribed
worker. Crashes, cancellations, a second dispatch and the integration's progress
are not promised. `ReachesTerminal` is checked without crashes: after a crash
nothing in the repository dispatches the RITM again, so the property would not
hold, and we do not pretend otherwise. `MayRaise` is off there for the same
reason: a raising coroutine leaves its row `in_progress` and the plan open.
`TurnExecutor`: an accepted request is driven by the event loop (`WF` on
`Handle(q)`); users, timeouts and cache expiry are not promised. `ChatDoor`: `WF`
on a request's own steps, the `wait_for` timeout among them; the graph is
promised nothing. A Redis call is assumed to return or to fail: the client sets no
socket timeout, so a connection that goes silent is outside this assumption. `NatsBus`: `WF` on the caller's steps, whose request and
backoff timers fire; the worker, the link and the outer timeout are promised
nothing. `ToolSteps`: `WF` on a job's steps and on the end of its provider
request, which the transport's own timeout bounds; users are promised nothing.

## 4. The proofs

Eight proof modules. `RuntimeProofs` has three parts, on `TurnExecutor`,
`SessionStore` and `NatsBus`, which share no state; `RouterProofs` covers
`Registry` by itself and as `Router` composes it. The theorems hold for every plan,
policy, table and input list, and for any number of workers, callers, writers,
answers, crashes, retries and operators. They use only the named assumptions of
the modules:

| Assumption | Says |
|---|---|
| `PlanAssumption`, `BoundAssumption` | the plan is finite and typed (not necessarily acyclic), limits are numbers |
| `RequesterAssumption`, `CountAssumption` | the requester is a user; flags, bounds and the plan's size have their types |
| `RequestAssumption`, `RefusalAssumption`, `BudgetAssumption` | a request is a turn or an answer; a refused step is `failed`, `denied` or `canned`; limits are numbers |
| `BackendAssumption`, `SizeAssumption` | one of the two logs; the window has room for one event |
| `DoorAssumption`, `ThreadAssumption`, `BucketAssumption` | inputs are typed; generated session ids are not among the client's; a thread's id is not the empty marker |
| `BusAssumption` | every call has a tenant; attempts, thresholds and times are positive numbers |
| `RegistryAssumption` | the envelopes installed at start-up are coherent; bounds, edited cards and the statuses callers write have their types |
| `RouterAssumption` | messages, conversations and the models' replies are typed |
| `ReadersAssumption`, `PolicyAssumption` | classifications are of the vocabulary; the tables are finite and have the parts the reading tools show; the field policy does not withhold `timeline`, as in `registries/v2/platform/field_policy.json` (`get_ticket_timeline` does not ask it); a request has the fields of its kind; a caller of the cache tools names no fingerprint of a record's content (the tools take any) |
| `TicketAssumption`, `AskAssumption` | the tables hold what the service writes (a deadline that follows its priority, an assignee of the tenant; the seed script `generate_itsm_data.py` sets deadlines of its own, of which nothing is said); searches return tickets there are |
| `GatewayAssumption` | finitely many calls, limits are numbers |
| `KeysAssumption`, `WorkAssumption` | an idempotency key is minted for one request of one tenant; works are typed |

`KeysAssumption` is about the key a delivery really uses (`KeyBase`: the plan's own
key, or else request and step). An assumption about request ids alone is not
enough: a plan that brought another request's key would be served that request's
result.

| Module | Theorem | States |
|---|---|---|
| `FulfillmentProofs` | `TypeCorrect` | `Spec => []TypeOK` |
| | `DagOrderSafe` | `Spec => []StartedAfterDeps` |
| | `FulfilledSafe` | `Spec => []FulfilledMeansAllDone` |
| | `OutputSafe` | `Spec => []OutputIsCurrentAttempt` |
| | `GateIsOwn` | `Spec => []BlockedOnOwnApproval` |
| | `Refinement` | `Spec => ImplementsTaskDag` |
| | `CascadeSafe` | `OneKey => (Spec => []NoRunDownstreamOfFailure)` |
| `ServiceRequestProofs` | `GateFailsClosed` | `Spec => []NoUnapprovedRun` |
| | `GateReleasesOnce` | `Spec => []ReleasedOnce` |
| | `PlanBeforeRun` | `Spec => []RunHasPlan` |
| `RuntimeProofs` | `ApprovalSafe` | `Spec => []OneActionPerApproval` |
| | `WavesFollowData` | `Spec => []StepsAfterDeps` |
| | `ExecutedMeansDone` | `Spec => []ExecutedIsComplete` |
| | `LogKeepsAcked` | `StoreSpec => []AckedIsKept` |
| | `DurableFirst` | `StoreSpec => []StoredBeforeShown` |
| | `HistoryInOrder` | `StoreSpec => []ShownInOrder` |
| | `OwnFailuresOpenTheorem` | `BusSpec => []OwnFailuresOpen` |
| | `WindowIsOwnTheorem` | `BusSpec => [](WindowIsOwn /\ OneFailurePerAttempt)` |
| `ChatDoorProofs` | `CachedInScope` | `Spec => []CachedReplyInScope` |
| | `StatefulStays` | `Spec => []StatefulReplyNeverReplayed` |
| | `ResumeInSession` | `Spec => []ResumeStaysInSession` |
| `RouterProofs` | `OneLiveVersionSafe` | `RegSpec => []OneLiveVersion` |
| | `OneLiveVersionWhileRouting` | `Spec => []OneLiveVersion` |
| | `SurvivorsAllowedTheorem` | `Spec => []SurvivorsAllowed` |
| | `KnownRecordsTheorem` | `RepliesOwnUp => (Spec => []KnownRecords)` |
| `TriageProofs` | `AppliedIsKept` | `Spec => []DecisionIsKept` |
| | `DeadlineFollows` | `Spec => []SlaFollowsPriority` |
| | `DuplicateInTenant` | `Spec => []DuplicateIsAnother` |
| | `StaffOfOwnTenant` | `OwnEdits => (Spec => []StaffOfTenant)` |
| `ReadersProofs` | `ToldAsReadTheorem` | `Spec => []ToldAsRead` |
| | `OwnTicketsOnlyTheorem` | `Spec => []OwnTicketsOnly` |
| | `ReadableArticlesTheorem` | `Spec => []ReadableArticles` |
| `ToolStepsProofs` | `TrafficBounded` | `Spec => []ProviderCallsBounded` |
| | `WireIsRedacted` | `Spec => []PromptsAreRedacted` |
| | `ReplayBelongs` | `Spec => []ReplayIsOwn` |
| | `PickBelongs` | `Spec => []PickedIsOwn` |

Three theorems have a hypothesis. `OneKey`: all workers hash a RITM to the same lock
key, which is so inside one process; without it the property is false (section 5).
`OwnEdits`: users edit in only staff of their own tenant; the endpoint checks which
fields are edited and takes their values as they come. `RepliesOwnUp`: a reply of
the rewriter that changes the words says so; the guards look at no other reply
(section 5), and without it the property is false.

**The executor's invariant.** `StartedAfterDeps` is not inductive: a worker
starts a task because of a listing, and the listing may be old. The invariant
therefore relates snapshots to rows:

- `SnapSound`: a snapshot's version is at most the row's; equal versions are
  equal rows; a final state in a snapshot is still the row's state. This is what
  the optimistic lock buys, and the reason none of the theorems but `CascadeSafe`
  uses the advisory lock.
- `QueuedReady`, `ClaimSound`: a coroutine exists only for a task its listing made
  ready, and after its claim the row is its own until the version moves on.
- `ToSkipPoisoned`, `SkippedPoisoned`: the cascade marks only what is downstream
  of a failure, and a skipped task has a failed ancestor, now and for ever.
- `FulfilledOutcomeTrue`: a worker holding the outcome "fulfilled" is right, however
  late it writes it.
- `AskedHasApproval`: between its INSERT and the move to `blocked` a coroutine has
  the row of its own attempt, whatever was decided or withdrawn meanwhile; rows
  change their state and are never removed. With `ClaimSound` this gives
  `BlockedOnOwnApproval`.
- `FirstVersion`, `LocalPhases`, `FinalisingHasOutcome`: the remaining bookkeeping.

The lemma `TaskMotion` collects what any step may do to a row (the version grows
when the row changes; final states stay), so that each conjunct about snapshots
is proved once and not once per action. `Refinement` uses the invariant for two
steps: `Claim`, whose dependencies were settled in the snapshot and hence are,
and `SkipTask`, whose cause was a failure in the snapshot and hence is.

**The cascade's invariant.** `CascadeSafe` is the one theorem about the advisory
lock. `LockInv` adds to the above: at most one worker is between `TryLock` and
`Unlock` (`Exclusive`); that worker's cascade list holds, with current rows, all
that is downstream of a failure, and past the cascade nothing pending is left there
(`CascadeOf`); a queued task's dependencies are done, not merely settled
(`QueuedAfterDone`). The point of the argument is `Relist`, which does not apply
the cascade again: this is sound only because nobody else wrote meanwhile. A
crash in the middle of a cascade releases the lock, and the next owner computes
the list anew. `compensate_ritm` takes no lock, but writes no task row.

**The turn's invariant.** Which steps a "yes" can still pay for is decided when
the answer is delivered. The invariant adds to `OneActionPerApproval` that an
invocation carries the answer for at most one step (a thread with several
pending questions refuses a bare answer; this is where finiteness and
`AtMostOne` are used), that a new turn carries none, and that an action that took
place belongs to the step the answer is for, and to a yes to an approval or a
confirmation, until the request has ended.
`MotionKeepsInv` and `SaveKeepsInv` reduce each action to what it makes of one
invocation; `WorkInv` and `CatalogInv`, about the two that carry out an action, are
proved on their own and share `ActionInv`. That the agent with `manages_own_approval`
is exempt from the executor's gate (`nodes.py:969`; `tests/unit/executor/test_graph.py:454`
`test_manages_own_approval_skips_the_upfront_gate`) does not exempt it from the
property: its own confirmation is the yes.

**The turn's data flow.** `StepsAfterDeps` and `ExecutedIsComplete` speak of an
invocation, and an invocation may start from a checkpoint another one left, at any
node. So `FlowOK` demands the same of both (`Sound`): results are closed under
dependencies (`ResultsSound`), what is in the wave is ready (`WaveSound`), and a
state that waits in `persist` with the status `executed` is complete. The step that
needs care is `Generate`: follow-ups enter a plan that is being run, and
`MergePlan` must neither replace a step that has a result nor make one depend on
something new.

**The gate's invariant.** `NoUnapprovedRun` talks about events, and an event may
come from a call, a retry of it, or a decider that committed long ago. `IntakeOK`
says what a call knows where it stands; `RowsOK` that approval rows exist only
for people the policy names, behind a written plan; `DecidersOK` that row locks
exclude each other and a decider about to release holds an approved row;
`ReleaseOK` that the right to release a RITM is held by at most one decider, only
after the RITM left `requested`, and never once it was used. The last gives
`ReleasedOnce`: the conditional UPDATE in `ApplyOutcome` succeeds for one decider.

**The session's invariant.** Windows, answers and the pruner's list are copies of
the log taken at different times. `CopiesOK` says of every copy that it holds stored
events in each writer's order; it survives because every operation on a copy is
an append of a writer's newest event, a suffix or a sub-sequence. `WritersOK` says
that the event about to be pushed is stored and newest; `RecordOK` that only
Dragonfly's log is ever rewritten from a copy, from which `AckedIsKept` follows for
Postgres.

**The door's invariant.** A reply is replayed long after it was made, so the caches
have to remember enough: `CachesOK` says every entry sits under the key of the
request that made it, that request is finished and its reply was allowed into a
cache; `ThreadsOK` that a marker names a thread of its own tenant and session that
has paused; `StageOK` that what a request knows of itself stays fixed after the
session step.

**Triage.** `RowsOK` carries the deadline; `AppliedOK` says that a decision whose
UPDATE succeeded is in its row, also while its reply is still on the bus;
`StageOK` that a decision carries the proposal it read and `PropsOK` that a proposal
is about a ticket of its tenant. `PeopleOK` adds where names come from, for
`StaffOfOwnTenant`. The searches' sorting and filtering are defined by rank, the
number of elements before one (`RankedLists`), and rest on `OrderRanks`: in a
finite strict total order every rank is taken, so a sorted or filtered sequence
has exactly the elements of its set.

**Tool steps and the gateway.** A budget is charged once per call and a call may
send several times, at moments interleaved with everyone else's and with a new
window. `BudgetOK` therefore counts what was sent *and* what is still owed
(`Credit`, a set with one element per retry left and one for the fallback) against
what has been paid; each send moves one element from owed to sent. `CleanOK`
extends redaction to the bodies kept for a retry; `IdemOK` ties each stored result
to a work with its key; `StageOK` ties outputs to the job and, once an answer was
taken, the candidates to the records that were the user's at that moment.

**The registry's invariant.** Stored envelopes alone are not enough: what an
operator writes is computed from a copy that may be old. `RegInv` therefore says
that every copy under edit is coherent too. One lemma per operation shows that it
maps a coherent envelope to a coherent one, `WriteKeeps` that writing one back
disturbs nobody else's copy; what the stored envelope has become meanwhile never
matters. Coherent means that the pointer names a version in service (never a draft
or a retired one) and that of the versions `activate` put in service no other is still
active; a version that a caller of `create` or `update` wrote as active may stand
beside it, without being served (section 5). A lost update is possible, an
incoherent card is not. In `Router` the
steps of a turn leave envelopes and copies alone (`TurnsReadOnly`), so the same
invariant carries over.

**The breakers' invariant.** `OwnFailuresOpen` speaks of a breaker that is open;
why it opened is in its window at that moment, and the window may be pruned since.
`BusInv` therefore counts: a window holds no more failures than the calls of its
tenant have recorded (`WindowIsOwn`), and a call records at most one failure per
attempt (`OneFailurePerAttempt`), so that what is recorded is finite and never
shrinks. `PoppedFacts` shows that the loop that drops old events ends and drops only
old ones (by the least position at which it can stop); pruning then only lowers the
count, and recording adds one on both sides.

**The router's invariants.** `AccessInv`, for `SurvivorsAllowed`, is about the
decision cache: a cached "allow" is what the policy says of the attributes its key
holds. Two versions of a card with one key are alike to the policy, so a hit is as
good as a decision on the card that was read. `RecordsInv`, for `KnownRecords`,
follows a record from the words to the plan: the ids of a rewritten text have a
source, which is what the chain of guards gives (`GuardedGood`, one lemma per
guard); so have the entities scoped from it, the parameters bound from these
(`BindFacts`), the routes found so far and the routes in the cache, where the
sources are those the *key* names, since another turn will be served from it. The
proof showed that `KnownRecords` had been stated too strongly: the focus of a turn
may be an id of one part of the message, and a pronoun in another part is then
resolved to it, so the ids of the whole message count as named. `router` has a
splitter reply that does this.

**The readers' invariant.** `Stage` says of each await what the request has read
and may still show: nothing is told before the summary is at hand, and that is all
of the reader's view (`ToldOK`); candidates are the reader's own from the SQL
statement on, through rerank, diagnosis and the relevance filter (`SimilarOK`);
hits are readable from the search on, through fusion, gates and rerank (`KbOK`).
The caches have to say the same for requests to come: a cached summary tells all of
the view in its fingerprint (`SummariesOK`), a cached answer suits the tenant, user
and role of its key (`AnswersOK`), and what it echoes is of the ticket in its key
(`EchoesOK`). The cache tools write under fingerprints of their callers' choosing;
`OfContent` is about those that are computed from a record, and the assumption
keeps callers from naming one of them.

**How the invariants were found.** Each was checked with TLC on the instances of
section 3 before it was proved (`LockInv` with two workers of one key and a crash).
Induction theorems that take an operator as parameter cannot be used here. Where
an argument needs induction it is put as a statement about sets: `Least` (a
non-empty set of numbers has a least element, from well-foundedness) and
`OrderRanks`, which counts.

**Only model-checked.** All liveness properties (`ReachesTerminal`,
`EveryRequestEnds`, `EveryRequestAnswered`, `EveryCallEnds`, `EveryStepEnds`):
fairness and `ENABLED` are outside this prover. And one action property,
`PlanIsRunnable` of `Router`, about the moment a plan is handed over: a plan is made by folds over depth-first walks of the
dependencies (`Visit`, `VisitSq`, `AddRoute`), and that their result is numbered in
order is an induction over the length of the fold and the depth of the walk, which
needs the existence of recursively defined functions; the theorems that give it
take operators as parameters, which none of the provers instantiates.

## 5. Where code and text disagree

`fulfillment_retry` is kept as a run: `adapters/protocol.py` says keys make
"retries provably safe"; the key contains the retry count, so a call that lands
late and its retry both provision (`ProvisionedOnce`).

The following were met while modelling. The models do what the code does in each
of them; they are the reason some properties above are stated as they are.

| Where | What the text says | What the code does |
|---|---|---|
| `executor.py:168` | a gated plan "is blocked awaiting approval" and maps to `in_progress` | `_is_terminal`'s blocked branch is unsatisfiable; the RITM is finalised `failed` |
| `executor.py:437` | the advisory lock "serialises two workers"; dependents of a failure are skipped | the lock key is a salted hash; across processes a task behind a failure can start |
| `api/uc08_approval_routes.py:52` | `approval.py`: "never a half-release" | the release follows the commit and is not repeated when it fails |
| `api/app.py:1853` | `nodes.py`: executed means all good | a resume that fails is answered `executed`, with the marker already cleared |
| `executor/nodes.py:1403` | on resume the user message is not appended again | the dedup looks at two events; a turn in between defeats it |
| `api/app.py:2612` | a resume runs on the exact thread that paused | the marker belongs to the session; a second pause takes the first one's answer |
| `adapters/nats_resilience.py:162` | "lets ONE probe through" | half-open refuses nobody: every caller passes until one outcome is recorded |
| `api/chat_turn_cache.py:153` | "Refusals and errors are never cached." | a turn that timed out (`service_degraded`) or raised in a stream (`failed`) is stored and replayed |
| `router/rewrite.py:371` | any invented record id is rejected | the guards look only at replies that say `changed`; one that changes the text and says it did not keeps its id |
| `uc05_triage/stores/db_store.py:221` | `category IS NULL` is the "not yet triaged" sentinel | a decision that sets no category leaves it NULL, and a second decision is applied too |
| `llm/gateway.py:331` | `embed` has "the same egress discipline" | `embed` sends its text unredacted and does not retry |
| `executor/boundary.py:351`, `:424` | `:306`: "the user always gets a reply" | only `LLMGatewayError` is caught, and JSON that is no object fails at the first field: the turn ends without a reply. `EveryStepEnds` excepts these two (`Uncaught`). Text that is no JSON is shown as it is |
| `registry/store.py:196` | "create — version 1, status DRAFT" | create and update store the status of the record they are given |
| `router/plan.py:166` | "registry integrity check guarantees the graph is acyclic" | the check runs at start-up; a card put in service later can close a cycle, and plan assembly then raises |
| `router/plan.py:142` | "Higher priority wins" | at equal priority two agents that exclude each other are both dropped, and the plan may be empty |
| `uc02_similar_tickets/core.py:429`, `:943` | `api/uc02_routes.py:218`: one 404 message for missing and forbidden tickets "to avoid existence leaks"; `core.py:153`: the default predicate is there "so the core never silently leaks data" | the source ticket's title, status, priority and assignee are echoed without asking whether the caller may see it; only the candidates are filtered. The run `readers` reaches this (an end user asks about a colleague's ticket); `OwnTicketsOnly` says of the echo that it is of the ticket asked about, in the caller's tenant, and not more |
| `uc03_kb_lookup/kb_embed.py:198` | on a gateway outage the handler falls through | the scorer catches the error and returns zeros, so that every linked article falls under the gate: no match |
| `uc08_fulfillment/db.py:381` | `insert_tasks`: "Single transaction per call" | one INSERT statement per task, each committed by itself |

The lock example (`executor.py:437`) needs two failures, one of them with a chain
of two tasks behind it. Worker B is in the middle of its cascade for the first
failure when worker A records the second and begins to skip its chain. B then
refreshes its listing, to which the cascade is not applied again: the first task
of the chain is already `skipped`, which counts as settled, the second is still
`pending`, and B starts it before A reaches it.

Hazards for which no property can be stated because the code gives no guarantee:

- `executor.py:835`: `compensate_ritm` takes no lock; a finalising worker can
  overwrite `cancelled`. `:820`: the undo order is the string order of template
  ids. `core.py:217`: two create calls without a key both pass the duplicate
  check.
- `executor.py`: nothing in the repository resumes a blocked task when its approval
  is decided. `db.py:718`: approving one gate withdraws the pending rows of the
  RITM's other gates.
- `api/app.py:1800`: two yes-answers that both read the marker before either clears
  it both run the action they approve. A yes that was meant for one step's gate is
  taken by the next gate of the thread if it arrives after the first was answered.
  `create_service_request` named as a step's tool has neither gate nor confirmation.
- `session/store.py:108`: a window that missed an event is served for as long as
  the session is used.
- `session/lifecycle.py`: `touch` can recreate a session deleted meanwhile, and
  the pruning of a listing can drop an entry created since it looked.
- `api/app.py:1823`: a cleared marker is `{}`, which is not `None`, for the
  cache's whole TTL; the streaming door never clears it.
- `router/route_cache.py:19`: a decision taken while the model was failing is
  kept as long as a good one; `registry/service.py:67`: the fingerprint is
  computed once per process, so an edit does not change the key of a cached
  route.
- `uc05_triage/apply.py:142`: an edited priority outside the vocabulary gets the
  8-hour default; `db_store.py:214`: a decision re-opens a ticket closed
  meanwhile; `:239`: an update that failed may have written the row, and the retry
  is then told that the ticket is already triaged.
- `uc01_summarization/cache.py:261`: the cache tools overwrite what is under the
  fingerprint they are given. `api/uc02_routes.py:285`: a cached list of similar
  tickets outlives a ticket's change of hands until its TTL.
  `uc03_kb_lookup/answer_composer.py:381`: streamed tokens leave before the citation
  guard, and an article retired between search and answer is still shown.
- `toolrunner/runner.py:88`: two overlapping deliveries of one step both run the
  tool, since the key is looked up before and stored after it, and so does a redelivery
  after a store that failed (`:130`); `runner.py:98`: a handler that cannot be
  resolved raises outside the fault containment, the tools left are not run, and
  the node makes a failed step of it.
- `llm/redaction.py:44`: a phone number written against a date is not redacted;
  `PromptsAreRedacted` says so.
- A turn retried over the bus after a timeout may still be running at the worker:
  it then runs twice (`runs` in `NatsBus`).

## 6. What is not modelled, and why

- *UC-8 catalog search and request drafting*: ranking over catalog text; the
  outcome is an order of items, not a state change.
- *Policy engine and composer*: pure; a table, not a protocol.
- *Embeddings, codec, observability, tenancy, configuration*: text preparation,
  serialisation, metrics and settings; no state the properties read.
- *Text*: prompts, wording, formatting, similarity scores. A text is what the
  code's branches tell apart; a score is a number of the instance.
- *Profiles* (`profile_store.py`): a hash whose last writer wins and on which
  nothing modelled depends.
- *Tokens* (`authz/tokens.py`): cryptography without state.
- *Workers other than the graph worker*, and `NatsStepExecutor`: the same request
  and reply around one step.
- *The remaining HTTP routes*: start-up wiring, health, metrics, catalog, admin.
- *In the modelled parts*: display text and snapshots returned to callers, the mock
  adapter's substitution table, the HTTP client behind the gateway, the wording and
  categories of boundary replies, the in-memory fixtures. The stores around the tool
  runner are the in-memory ones, whose calls may fail as the Dragonfly variants' do.

## 7. Plan

Done, in this order: `Fulfillment` with `TaskDag` (the durable work),
`ServiceRequest` (what may start it), `TurnExecutor` (what a user approves),
`SessionStore` (what is remembered), `NatsBus`, `ChatDoor`, `Router` with
`Registry` and `Authz`, `Triage`, `Readers`, `ToolSteps` with `LlmGateway`, and
the proofs of section 4: every safety property of a passing run but `PlanIsRunnable`
is a theorem.

Next: the composition of `ServiceRequest` with `Fulfillment`, so that
`ExecuteStart` and `ExecuteEnd` become the executor's steps; an undo-order
property for compensation with two-digit template ids.

Checking by hand, in this directory: `tlc -config FulfillmentRace.cfg
MCFulfillment` for a run, `tlapm FulfillmentProofs.tla` for the proofs.
