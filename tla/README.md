# A TLA+ development of the procurement platform

The repository is a platform of independent Python services: an input
processor, an access gateway, and a decision hub that drives four stage
services (intent, decision, llm, report).  Much of their code is sequential;
what is hard to test is what they share between requests: circuit breakers,
token buckets, caches, stores, sessions, sockets, revocation lists, a model
loaded on first use, and deadlines.  The modules here model that part and the
rules that decide what a client is told; TLC checks them on small instances,
and TLAPS proves the most important invariants for every instance.

## 1. Inventory

| Component | State it keeps | Operations | Interacts with | Model |
|---|---|---|---|---|
| Gateway breaker and forwarder (`gateway/circuit_breaker`, `gateway/routing`) | per upstream: state, failure count, opening time, probes handed out, current backoff | `allow`, `record_success`, `record_failure`, `reset`; `forward` with retries | awaits the upstream service; admin route resets | `GatewayForwarder` |
| Gateway authentication (`gateway/auth`, `auth_routes.py`) | revocation list in Redis and in memory | log in, verify, refresh, revoke; policy of the proxied routes | Redis | `GatewayAccess`, `GatewayTasks` |
| Gateway rate limiting (`gateway/rate_limiting`) | one bucket per client, in memory or in Redis | `consume` | Redis script; in front of `forward` | `GatewayAccess` (partly) |
| Gateway WebSocket hub (`gateway/websocket`, `ws_routes.py`) | connections, rooms, the rooms of every connection | connect, join, leave, broadcast, disconnect | one receive loop per socket | `GatewaySockets`, `GatewayTasks` |
| Hub stage clients (`hub/clients`) | per stage: breaker | `call`: ask the breaker, send, retry with pauses | awaits a stage service | `StageClient` (HTTP mode) |
| Hub pipeline and service (`hub/pipeline.py`, `hub/service.py`) | none between requests; the outcomes of a run | `run`, `run_pipeline` with a deadline, `run_batch` | calls the stage clients one after the other | `HubPipeline` |
| LLM router (`llm/router.py`) | per provider: breaker and token bucket | five strategies: single, fallback, parallel_any, parallel_vote, confidence | awaits providers, cancels the losers | `LlmRouter` |
| LLM service (`llm/service.py`, `llm/cache.py`) | two-tier cache of responses | `complete`, `complete_batch` | router, cache | `LlmService` |
| Intent service (`intent/service.py`, `classifier.py`) | two-tier cache of answers, breaker around the model | `predict`, `predict_batch` | worker threads share both; model, rules fallback | `IntentService` |
| Intent rules (`intent/rules.py`, `taxonomy.py`) | none | votes, ranking, blend with the model | called by the classifier | `IntentRules` |
| Decision service (`decision/service.py`, `engine.py`, `strategies/ml.py`) | cache, breaker, the model once it is loaded | `decide`, `decide_batch`, `ensure_loaded` | worker threads share all of it | `DecisionService` |
| Decision strategies (`decision/strategies`, `catalog.py`, `features.py`) | none | features, rules, thresholds, blend, review | called by the engine | `DecisionPolicy`, `DecisionEngine` |
| Report service (`report/service.py`, `engine.py`, `storage`) | response cache; per backend a breaker and a store (memory LRU, two files on disk, objects in a bucket) | `generate`, `get_report`, `delete_report` | worker threads share all of it | `ReportService`, `ReportStores` |
| Report rendering (`report/renderers`, `catalog.py`) | none | four renderers, templates, cache key | called by the engine | `ReportContent` |
| Input and session managers (`managers`, `entities/session.py`, `cache`) | sessions in memory, mirrored to a cache; breaker and limiter of the input path | `get_session`, `add_input`, `end_session`, `process` | cache, processors | `SessionStore`, `InputManager`, `InputGates` |
| Processors, object storage, vendor adapters, HTTP shells | none, or files under fresh names | one-shot I/O, routes, settings | called by the above | none |

What is hard about each, and what makes it correct:

* **Breakers.**  A request asks once and reports later, possibly in another
  state of the circuit: late successes and late failures, probes that never
  report, several probes at once.  The state, the count, the stamp and the
  backoff must agree whatever the order, a half-open circuit must hand out no
  more probes than its quota, and an open circuit must not stay open for ever.
* **Gateway tasks.**  A token is verified, then the limiter and the policy are
  asked, with an await in between; Redis, which knows the revoked tokens, comes
  and goes.  Connections and rooms are two tables, and a session may end at any
  await.  Whoever is verified with a revoked token goes no further; rooms hold
  live connections, the capacity is kept and nothing is left behind.
* **Stage clients and pipeline.**  Retries with pauses, cancellation by a
  deadline, stages that fail or answer with nothing.  A call returns exactly
  one result; a response tells the truth about every stage; a batch returns
  even if no stage ever answers.
* **Router and its cache.**  Concurrent attempts share breakers and buckets, the
  first success cancels the others, and several may succeed before the request
  wakes up.  No call outlives its request, every call costs one token, the
  winner is the one the strategy promises, the error raised is the right one,
  and a cached response answers the request that gets it.
* **Intent and decision services.**  Threads share a breaker and an unlocked
  cache, batches mix hits and misses, a failed batch falls back, and threads
  find the model missing at once.  Every item gets the answer to its own
  question, one bad item costs the others nothing, an answer says so when it is
  not the model's, and the model is loaded once.
* **Decisions.**  Votes of some two dozen rules add up, are capped, compete with a
  model's and meet limits.  No order beyond a limit is put forward unseen.
* **Report service.**  The fan-out may fail half-way, the cache has no lock,
  disk writes are two files, `exists` and `get` are two calls.  What was said to
  be stored is stored, what was said to be removed is not served.  The four
  formats must tell the same.
* **Sessions.**  A session lives in the process and in Redis, and every task
  that deals with it awaits Redis in the middle.  No accepted input is lost and
  an ended session stays ended, through timeouts, reloads, cleanups and
  restarts, as long as no two tasks deal with the session at once.

`PROJECT.json` lists every hazard at its line with the properties that watch it.

## 2. Modules and how they compose

| Module | Models |
|---|---|
| `GatewayForwarder` | the gateway's breaker and the requests of `forward` |
| `GatewayAccess` | tokens, revocation list, policy, bucket |
| `GatewaySockets` | connections and rooms of the WebSocket hub |
| `GatewayTasks` (`MCGatewayTasks`) | the gateway's tasks over these two: log in and out, refresh, requests, sessions |
| `GatewayProofs` | proofs about the breaker and the tasks |
| `StageCall` | what a stage call promises the pipeline (abstract) |
| `StageClient` | `BaseStageClient` in http mode with its breaker; refines `StageCall` |
| `HubPipeline` | the pipeline, its deadline and its batches, over stages that answer as `StageCall` says |
| `HubProofs` | proofs about the stage client and the pipeline |
| `LlmRouter` (`MCLlmRouter`) | the router's five strategies over shared breakers and buckets |
| `LlmService` (`MCLlmService`), `LlmServiceProofs` | the completion service with its cache over the router; proofs about both |
| `ModelGuard` | the breaker and the cache around a model, which two services share line for line |
| `IntentService` (`MCIntentService`), `IntentServiceProofs` | single and batch requests of worker threads over `ModelGuard` |
| `Rankings` | sorting by what is ahead of what, and sums |
| `IntentRules` | votes, ranking and blend of one text |
| `DecisionPolicy` | catalogue, features, rules, thresholds, ensemble, response |
| `DecisionEngine` | one request through `DecisionPolicy`, by any strategy or fallback |
| `RulesProofs` | proofs about the rankings of intents and about decisions |
| `DecisionService` (`MCDecisionService`), `DecisionServiceProofs` | the threads, cache, breaker and lazily loaded model of the decision service |
| `ReportStores` | the three storage backends |
| `ReportService` (`MCReportService`) | the service's worker threads over `ReportStores` |
| `ReportContent` | what the renderers tell, and the cache key |
| `ReportProofs` | proofs about the report service and about what the renderers tell |
| `SessionStore` | `SessionManager`: sessions in the process, mirrored to Redis, and the cleanup task |
| `InputManager` (`MCInputManager`) | `process` and the session routes over `SessionStore`, with restarts |
| `InputGates` | rate limiter and breaker of the input path |
| `InputProofs` | proofs about the sessions and the gates |

```
 StageClient --refines--> StageCall <--assumed by-- HubPipeline
 GatewayTasks --extends--> GatewayAccess, GatewaySockets
 LlmService --extends--> LlmRouter
 IntentService, DecisionService --extend--> ModelGuard
 DecisionEngine --extends--> DecisionPolicy --extends--> Rankings <--extends-- IntentRules
 ReportService --extends--> ReportStores
 InputManager --extends--> SessionStore
```

`MCReportService`, `MCIntentService`, `MCInputManager` and `MCDecisionService`
put a second machine beside the first: `ReportContent`, `IntentRules`,
`InputGates`, `DecisionEngine`.  The two share no variable, so their interleavings show no more than each alone: in a
behaviour one moves, or the other.

**Grain of a step.**  In the asyncio services (gateway, hub, llm, input) a task
yields only at an `await`, so what it does between two awaits is one step.
Breakers, buckets and the hub's tables hold their lock without awaiting inside
it (but to close a socket that is turned away at capacity, which changes no
table) and are part of the step that calls them.  The routes of the report, the
intent and the decision service are plain functions and run on worker threads,
so there a step ends wherever another thread may see or change what it touches:
each operation under a lock, and each single operation on an unlocked cache.

### GatewayForwarder

`state failureCount age halfOpenCalls recovery` are the breaker's fields;
`age` is the time since `_opened_at` in ticks, `NotOpened` while it is `None`.
`place` and `attempt` say where each request is.  `probes` and `trips` are history
variables that only the properties read.  `Arrive` is `forward` up to the first
await (`allow`), `AnswerOk` and `AnswerFailure` are what follows an answer,
including the retry decision; `Escape` is a try that ends with an exception the
loop does not catch, cancellation included; `AdminReset` and `Tick` are the
reset route and the clock.  A refused request changes nothing and is no step.

### GatewayAccess, GatewaySockets, GatewayTasks

`pairs` are the tokens issued, each with its principal; `expired`, `inRedis`,
`inMemory` and `redisUp` say what a verification can find out about one.
`revoked` is history: what was revoked since Redis last came or went, that is,
what the code could know.  `connections`, `rooms` and `joined` are the hub's
tables, `open` and `gone` the sockets; `capacity` is `max_connections`.  A task
is idle or awaits in the middle of a login, a refresh, a logout, a request
(verify, limiter, policy, proxy) or a session (verify, welcome, loop, sends,
end); `held` is its token, `queue` the peers a broadcast still has to send to.
`Environment` lets tokens expire, peers leave and the bucket refill, `RedisFault`
and `Restart` are the faults.  `orphans` is history: connections whose welcome
failed, which the code never disconnects.

### StageCall, StageClient

`StageCall` has a status and a send count per caller.  `StageClient` has the
breaker's fields, the place of each call and its try.  `StartCall`/`Refuse` are the
question to the breaker, `AnswerOk`, `AnswerRejected` (4xx), `AnswerFailure`
(timeout, 5xx, transport or JSON error), `Retry` (after the pause, without
asking again), `Unhandled` and `Cancel` the ways a try goes on.  The refinement
maps a call that sends or sleeps to "running".

### HubPipeline

Per item the stage it awaits, the outcomes, what each stage was fed, the call
sequence, the warnings and the overall status; for the batch, how `gather`
stands.  `Answer` is everything between one stage's answer and the next call,
skipping included; `Deadline` is `asyncio.wait_for`; `Reject` the language check.

### LlmRouter, LlmService

Per request the strategy, targets and attempts; per target task its place; per
provider the breaker and the bucket.  An attempt asks the breaker, then the
bucket, then calls, then records; losers are cancelled in the middle of a call.
Costs are left out: they are logged and decide nothing.  `LlmService` adds what
a request asks (prompt, strategy, a model or none, targets or none), how the
router makes targets of it (`Resolve`), the cache under the code's key, which has
the default model where a request names none, and in which an entry may be
missing at any time, and `source`, the request whose response another was
answered with.  `Invalid` and `Overlong` are the requests that are refused before
and behind the cache.  `Route` is a step of the router together with the write
that follows a success.

### ModelGuard, IntentService, DecisionService

`circuit`, `failures` and `cooled` are the breaker's fields and clock; `cached`
is the last answer put under each key, which a lookup may miss at any time
(pushed out, expired, Redis down) and find again; `Pushed` is the KeyError of
the unlocked LRU.  An answer is known by what it was computed for and by whom.

In `IntentService`, `Hit`, `Miss`, `Blank` and `Foreign` are one round of the
lookup loop; `Ask`, `Answered` and `Failed` are `classify`, `Choose`, `AskAll`,
`AllAnswered` and `AllFailed` `classify_batch`, which reads the circuit's state
before it asks; `Store` is one `cache.set`.  `mixed` is history: the keys under
which a batch has put an answer that was computed for another profile.
`OwnAnswers` excuses these keys, and no other.

In `DecisionService` a job is looked up item by item, its misses are decided
together, if they all ask for one strategy, or one after the other, and then
stored.  `Ask` asks the strategy that `_resolve_strategy` names; `TakeLock`,
`Loaded` and `LoadFails` are `ensure_loaded`, which looks at `_loaded` before it
takes the lock and again under it; `Predicted` and `PredictFails` end a model
call.  Features are compared for equality, but for three flags that may be
unknown: `Fingerprint` files an unknown one as one that is not set, as `int(0.5)`
does.  Which action a decision names is left to `DecisionPolicy`.

### IntentRules, DecisionPolicy, DecisionEngine

A text is known by the intents whose terms it contains and by how many; scores
are in ten-thousandths.  An intent for businesses and for consumers is for
anybody; what is for businesses alone is an outsider to a consumer.  A sort is
`Arranged`: each element has the place that the number of those ahead of it
gives, so that a sort is known by what is ahead of what, ties included.  `DecisionPolicy` has the catalogue by sections, the
features, the rules in their sections, each a condition with an action, a score
and a risk, the caps, the model's risk, the blend and the review; scores are in hundredths, rounded down.
`DecisionEngine` resolves one request: by rules, by what a model says, by rules
in its place, by the blend or by an ensemble without a model; then `Respond` is
`_materialize`.

### ReportStores, ReportService, ReportContent

The memory LRU in order; for every file name the body per format and the
sidecar that names one; for every id the bucket's objects.  `FileOf` is
`_safe_id`: what is on disk belongs to a file name, which several ids may share.
Worker threads take jobs (generate, get, delete) and go through them step by
step: cache lookup and promotion, rendering, `allow`/`put`/record per backend, the
three operations of the unlocked `cache.set`, `exists` and `get` per backend.  A
put on disk opens the body, writes it, opens the sidecar and writes that; a file
that is open is `Damaged`, and stays so if the write fails or the process ends.
A get reads the sidecar and then the body, under no lock; a deletion looks for the
sidecar, takes the lock, reads it and unlinks two files, or one.  `Restart` ends the process at
any moment and leaves disk and bucket.  `touched` and `unsettled` are history:
what others have changed of a worker's report, and the file names whose last put
did not end.
`ReportContent` takes a report for the set of facts a reader finds in it, for
each renderer which slices and details it writes, of those the template selects,
and for what it says of whose it is (`Personal`): the report id and, in JSON, the
request id, the session id and the metadata.

### SessionStore, InputManager, InputGates

`memory` is `_sessions`, `mirror` what Redis holds; a session is its status,
its inputs and the period of its last activity.  `clock` counts periods of
`max_inactivity_minutes`.  For each task (an input, a client of the session
routes, the cleanup) `step`, `goal`, `sid`, `held` and `after` say what it does
next, why, with which session, with which copy, and what follows.  A task yields
only while it awaits Redis, so the steps are the GET (`Fetch`), what the caller
does with the answer (`Install`), and the SET (`Set`); `Get` is `get_session` up
to its first await, together with what its caller does when it needs none.
`_persist` pickles before it awaits, which `held` stands for, so a SET may
arrive after a later one.  Sessions bear the name of the input that creates
them.  `Arrive`, `Lookup`, `Processed`, `Rejected` and `Store` are `process`
from one await to the next; `Ask` is a get or a delete; `Clean` is the cleanup
task; `Restart` empties the process and leaves Redis.  An input that the gates
refuse changes nothing there; `InputGates` has the gates themselves and a log of
what they answered and were told.

The history variable `disturbed` collects the sessions that two tasks dealt
with at once, or whose mirroring failed.  The code makes no provision for these
(hazards at `session_manager.py:84`, `:93` and `:122`): such a session does lose
inputs and does come back to life.  The properties speak of all others.

## 3. Runs

| Run | Properties | Shows |
|---|---|---|
| `forwarder` | `Consistent` `ProbeQuota` `BackoffFollowsTrips` `OutageBackoff` `RecoversOrExhausted` | three requests with retries, escapes and resets: stamp, quota, count and backoff stay consistent, an open circuit half-opens, a half-open one is decided by its probes unless they ran out unrecorded |
| `forwarder_escape` (violation) | `AutoRecovery` | a probe that ends without a record uses up the quota: the half-open circuit refuses for ever |
| `gateway` | `TypeOK` `HubIsSound` `NobodyPassesRevoked` | two tasks, Redis coming or going, a restart: a revoked token passes no later check, the hub's tables agree, only a failed welcome leaves a connection behind |
| `stage` | `ClientConsistent` `OpenIsTemporary` `ImplementsStageCall` `EveryCallEnds` | three calls, one retry each: breaker consistent, refinement of `StageCall`, every call ends, an open circuit does not stay open |
| `pipeline` | `Consistent` `HonestResponse` `OnlyResultsFlow` `BatchAllOrNothing` `BatchReturns` | every mix of options, answers and deadlines for a batch of two |
| `router_shared` | `Consistent` `ErrorsAreHonest` `OwnResponses` | two requests to the completion service, two providers, shared cache, breakers and buckets; models named or not, prompts too long |
| `llm_model` (violation) | `NamedModelAnswers` | a request that names the default model is given the answer of another model, which a request without a model has left in the cache |
| `router_choice` | `WinnerByStrategy` `EveryRequestEnds` | one request, every strategy, a list of five targets of which four are tried, one of them unconfigured: the winner is the promised one, every request ends |
| `report` | `TypeOK` `AnswersAreTrue` `FormatsAgree` `KeyDecidesContent` | two threads, any three jobs over memory, disk and bucket, two ids with one file name, the disk failing in the middle of a file, restarts; every request through every renderer |
| `inputs` | `TypeOK` `SessionsKeep` `GatesAreExact` `ExpiredLeavesMemory` | two inputs of the same content, a client, the cleanup, one fault; every sequence of up to five calls of the gates |
| `intent` | `Consistent` `AnswersArePerItem` `RankingIsSound` | two threads, single requests and mixed batches, with and without fallback; every ranking of up to three intents |
| `decision` | `TypeOK` `DecisionsAreTrue` `LoadedOnce` `ProperResponse` `RulesKeepTheLimits` `UnsureModelsOnlyRank` `NothingIsApprovedUnseen` | two threads, a request and two kinds of batch, three configurations; beside it some 3,700 requests on both sides of every condition, through rules, models, blend and fallbacks |

Each violation run checks a sentence of the repository's documentation;
`findings` in `PROJECT.json` quotes it.

**Bounds, and why they are enough.**

* Three concurrent requests or calls: one that trips the breaker, one admitted
  before with a late result, one that probes.  `Threshold = 2` tells the first
  failure from the one that trips; one retry tells the first try from the last.
  A half-open quota of 3 equals the requests, so a full quota in flight occurs.
  `MaxRecovery = 3` with base 1 makes the doubling reach its cap inside a step.
* Counters are saturated where the code compares them and no further
  (`failureCount` at the threshold, `age` at the longest wait); `trips`
  is history and stops at `TripCap`.
* `gateway`: two tasks are one that revokes and one in the middle of a check, or
  two sessions that share a room; with capacity 1 the second is turned away,
  with 2 both are in.  `MaxPairs = 2` lets a pair be refreshed, `MaxJobs = 3` one
  task work twice, `MaxFaults = 1` Redis go, or come, or the process restart at
  any moment.  One kind of user is enough there: the policy is a fixed table.
* Two items in a batch: gather's first exception with another item in any state.
* Two requests over two providers with two tokens in each bucket, so the bucket
  runs dry and the two meet at the last token; in `router_choice` four targets
  are tried, so that votes can tie, agree and be outvoted, and two share a
  bucket of one token.
* Two threads, two ids, two contents in two formats, a memory store and a cache
  of one entry each: every insertion evicts.  `MaxJobs = 3` is the bound on
  accepted jobs: one that sets the scene and two that race.  The two ids share a
  file name, which is the harder case: each is the other's stranger.  Only the disk
  fails at will in `report`; the bucket's failures, a partial delete among them,
  are in the model and the theorems, and reachable by setting `Faulty`.
  Requests to the renderers have one of three sets of slices, with any of two
  details, and one of three owners: two with the same request id in different
  sessions, and one without a request id.
* Two inputs, one of which may go to the session of the other, a client that
  gets and deletes as often as it likes, and the cleanup: every pair of them can
  meet at one session.  `InputCap = 1` makes the second input push out the first
  (500 in the code); `MaxClock = 1` is one period of inactivity, at any moment;
  `MaxFaults = 1` is one restart, failed call or lost entry, anywhere.  The gates'
  `MaxCalls = 5` within `MaxTime = 4` fill a window of two requests, let it slide,
  open the breaker with two failures and have its probe fail.
* Two threads in `intent` and `decision`: one that fails, loads or looks up while
  the other reports, stores, waits for the lock or opens the circuit.  The batch
  of three in `intent` has an item that is refused, a first item and one of
  another profile; in `decision` one batch is evaluated as a whole and another
  item by item.  Profiles and features are compared for equality only, so two
  tell all of them apart.
* The other half of `decision`: amounts on both sides of the budget, the floor and the
  ceiling; risk, rating and confidence on both sides of their limits; every
  intent that a rule names and one that none does; five models, sure, unsure and
  at odds with the rules.

`CHECK_DEADLOCK FALSE` is set where the system may stop because the jobs, inputs
or requests run out (`gateway`, the router's three, `report`, `inputs`) or the one
request to the engine is answered (`decision`).

**Fairness.**  Liveness is checked where the code's scheduling justifies it:
the event loop runs every task that is ready, time passes, every try is answered
or times out (each has a client timeout), pauses end, deadlines come, and
clients keep calling.  No admin reset, escape or cancellation is ever assumed, and
`pipeline` assumes no answer from any stage.  `inputs` assumes only that the
cleanup task comes round and that Redis answers it or its client gives up.
`gateway`, `router_shared`, `report`, `intent` and `decision` are checked for safety only; symmetry is used only in runs without liveness.

Every property has a mutant of the code's model under `mutants`, with which TLC
finds it violated.

## 4. What is proved

Each theorem holds for every value of the constants that the named assumptions
allow.  All of them follow one scheme: an inductive invariant, one lemma per
method or action that shows what it keeps, and a last temporal step.

**Gateway breaker** (`GatewayProofs`; `ForwarderAssumption`), any finite
set of requests, any threshold, quota, backoff and retries.
`ConsistentAlways`: every counter keeps its bound, exactly the open circuit has
an opening time, so that the assertion in `allow` never fails, and a closed
circuit has the base backoff and fewer failures than the threshold.
`QuotaIsKept`: probes in flight are at most those handed out, and these at most
the quota.  `BackoffNeverShrinks`: with a base no larger than the maximum (a
hypothesis: without it the first trip shortens the wait) no step of an outage
shortens it.
`ProbeQuota` is not inductive alone: a call that leaves while the circuit is not
half-open must not be a probe.  The invariant adds `NoStrayProbes`: outside a
half-open episode no probe is in flight and none is counted.
`WaitsDouble`: after k trips the wait is the base doubled k times, or the maximum.
Doubling is a recursive function, so its equations are proved first, from the
least number at which they could fail.  `WaitInv` adds that a circuit without trips
waits the base; where the model stops to count trips the maximum is reached.

**Gateway tasks** (`GatewayProofs`; `SocketsAssumption`, `AccessAssumption`),
any number of tasks, rooms, tokens and restarts.  `HubStaysSound`: rooms and
connections agree, the capacity is kept, and a connection has a session that will
disconnect it, or its welcome failed.  `HubInv` joins the tables' agreement with
the finiteness of the set of connections, which nothing else bounds, and `Homes`,
which says of every connection where its task is; one lemma per method of the hub.
`RevocationHolds`: nobody who is verified with a revoked token goes further.  This
one rests on `RevokedAreListed`: what was revoked since Redis last came or went is
listed where a verification looks.  `TokensAreTyped`: what is listed as revoked
was issued and is not over.  `RoomInv` keeps the bound on pairs: a task about to
issue one was counted before it awaited.

**Stage client** (`HubProofs`; `StageAssumption`).  `ClientIsConsistent`:
tries, count and stamp.  `ClientImplements`: every behaviour of the client is one
of `StageCall`.  The invariant adds that a sending call has sent exactly one
request more than its try's index, which bounds the sends and gives "a success has
sent something"; a sleeping call is not at its last try, so a retry is never one
too many.

**Pipeline** (`HubProofs`; `BatchAssumption`), a batch of any size.
`OnlyResultsAlwaysFlow`, `ResponsesAreHonest`, `BatchIsWhole` and
`SequencesAreCallOrders`.  `ItemInv` says which stages have an outcome by the time
a stage is awaited (those that were due before it), that the warnings are exactly
the stages that failed or were skipped, and that the overall status was computed
from the final outcomes: the three stories that the code keeps apart.
`SequenceInv` is the fourth: the sequence names the stages called, in order.

**Router and completion service** (`LlmServiceProofs`; `RouterAssumption`), any
number of requests, providers and targets.
`RouterIsConsistent`, `RouterErrors` and `RouterWinners` are about the router
alone, `ServiceIsConsistent` and `ServiceResponses` about the router behind the
cache.  `RequestInv` says of one request which of its tasks may be in which state
where it is (`Phase`), that a sequential strategy has lost all targets before the
current one and a parallel one has no more than the fanout (`Paced`), that the
entries are those of the tasks that have ended, one each (`Accounts`), and what
the request is about to end with (`Result`); `TokensInv` that what is left in a
bucket and what its calls have cost is the burst and the refills.  Each step is
one of a single request, so the others keep theirs.  `ServiceInv` follows an
answer, also one from the cache, to the request that won it, and says of every
cache entry that it is for a request with that key; that two requests with one key
are tried on the same targets, or are `Confused`, is a lemma about the key.

**Report service** (`ReportProofs`; `ServiceAssumption`, `StoresAssumption`), any
number of worker threads, jobs and reports.  `ServiceTables`: the types, the capacities of memory
and disk, and a bound on the unlocked cache, which is too long by no more than
the threads that have yet to trim it.  That needs two more things to be counted:
an entry whose key a thread has yet to refresh may be inserted once more
(`Fresh`).  `ServiceAnswers`: what is said to be stored is stored, and what is
said to be removed is gone, until somebody else changes it under that id or, on
disk, under one with the same file name; and what is found has the content that
its checksum says, or was overtaken, or its last put did not end.  `HeldInv` says
the first of every outcome of a worker under way.  On disk it rests on `OneWriter`,
the lock over both files of a put; `HalfInv`, what a worker in the middle of a put
has written; and `Settled`: where no put is unfinished, the sidecar and the body it
names are of one report, or one of them is missing.  `DiskInv` is `Settled` for
every file name; a restart keeps it because a file that was open is unsettled.  Each action of a
worker touches one id, or one file name, in one backend; all others keep theirs
by one lemma.

**Report contents** (`ReportProofs`; `ContentAssumption`).
`FormatsAgreeAlways`: the four renderers tell the same of what matters, for every
template and every request.  `KeysDecideContent`: two requests with the same key
are told the same, also where one leaves to the defaults what the other says, in
reports that differ only in whose they are; with the same ids, and in JSON the
same metadata, they are the same report.

**Sessions** (`InputProofs`; `StoreAssumption`, `InputAssumption`), any number of inputs and
clients, any cap and any number of faults.  `SessionsAreTyped` and
`SessionsKeepAlways`.  Of an undisturbed session that has been created, `Sound`
says: one task at most deals with it; what that task is about to write has the
recent inputs and the right end, and the process has the same copy or none; or
else what Redis holds has them, and the process has the same copy or none.  So a
task that reads may drop the copy in the process and a restart may at any time,
and a session must be disturbed as soon as a second task comes in between.
`TaskInv` says why a task deals with a session, which tells what it does next, and
`UncreatedInv` that nobody has heard of a session that no input has created.  Each
method of the manager is one lemma, whose conclusion (`Turn`) says what a single
task has done to a single session.

**Gates** (`InputProofs`; `GatesAssumption`), any limits and any number of calls.
`GatesStayExact`.  For the limiter `BucketInv` says that, however far one looks back
within the window, the bucket has as many requests as the log says were allowed:
counting by a bijection between the places in the old bucket and in the one that
is kept.  For the breaker `BreakerInv` says that it has counted the failures in a
row and is stamped with the time of the one that was one too many, which is unique.

**Decision service** (`DecisionServiceProofs`; `DecisionAssumption`), any number
of threads, any jobs, features, names and settings.  `LoadsOnce`: one thread at a
time loads the model, and none once it is loaded; inductive with the type of
`pc`.  `AnswersAreHonest`: whose a decision is and how it was made: for exactly
the item's features if it is fresh, and up to a flag that one of the two does not
know and the other has not set if it comes from the cache.  `AnswersInv`
says of every cache entry that it suits its key, and of every job under way that
each position has a decision that fits its item, or was missed, or is still to be
looked up; the lowest missed position is where the work goes on, for which the
library's well-foundedness of `<` stands in for an induction.
`DecisionsAreTyped`: breaker, cache and answers.

**Intent service** (`IntentServiceProofs`; `IntentAssumption`), any number of
threads and any jobs.  `ItemsAreAnsweredApart`: whose text and whose profile an
answer is for, and what makes a batch be rejected.  Until they are stored, the
missed items of a batch have answers for the profile of the first of them
(`HasFirsts`); storing one makes it the item's own, and mixes up its key when
the two profiles differ.  `CacheInv` says the same of the cache: an entry suits
its key unless the key was mixed up.  `ModelRunsAreFew` bounds the runs of a model
that fails: `RunsInv` counts those a job has made against the items that are
decided, and one more for a batch that has failed as a whole.

**Intents and decisions** (`RulesProofs`; `RulesAssumption`, `QuestionsAssumption`,
`PolicyAssumption`, `RequestsAssumption`, `VotesAssumption`), any texts and
scores, any requests, limits, thresholds and weights, and whatever a model says.
Two lemmas carry both: where `ahead` is a strict total order of a finite set, the
number of those ahead maps the set one to one to its places, so that `Arranged`
has every element once and in order (`ArrangedInOrder`); and a sum, a recursive
function, is defined, is no less than any of its parts and equals the only one
that is not zero (`TotalBounds`).  For the latter the shortest prefix for which
it fails leads back to a shorter one, which stands in for an induction.

`RankingsAreSound`: what the rules and the ensemble say of a text is a ranking, and
fair.  Its hypothesis, that the bar for "confident" is above the 0.5334 that an
outsider can get at all, is needed: it is 0.7 by default and may be set to
anything.  `DecisionsAreWellFormed` follows an outcome, which is always one of a
strategy for the request (`OutcomeInv`), through caps, weights and divisions.
`LimitsHold`: of an order or request for a quote no two rules vote for the same
action, but two that escalate, so that nothing can gather more than a guard that
fires and speaks louder; the table of the two dozen rules is gone through one by
one (`OrdersFireOnce`, `GuardsAreHeard`).  `NothingGoesUnseen` follows from the
answer alone (`AnswerInv`).  `UnsureModelsRank`: some rule always fires or is made up for,
it suits the caller, and its action gathers 0.45 at least (`RulesAreLoud`), while
what only the model names has no more than 0.33 times its weight times the
threshold; that the first exceeds the second is the hypothesis `Outweighed`, which
the default weights and threshold meet by far and which a model with all the
weight does not.

**Only model-checked:** liveness (`RecoversOrExhausted`, `OpenIsTemporary`,
`EveryCallEnds`, `BatchReturns`, `EveryRequestEnds`, `ExpiredLeavesMemory`), which
is out of this prover's reach under fairness.  Every other property of a passing
run is a theorem.

## 5. Where the code and its description differ

`forwarder_escape`: the gateway's breaker is described as recovering by itself,
but probes that are cancelled or end with an uncaught exception are never
recorded, and once they have used up the quota the half-open circuit stays shut.

`llm_model`: strategy "single" is described as calling exactly one model, and a
request without a model as one for the default (`llm/config.py:24`,
`llm/schemas.py:50`).  The router serves such a request from the fallback chain,
and the cache files its response under the default model (`llm/service.py:179`).
`OwnResponses` excuses this pair of requests (`Confused`) and no other.

Met while modelling, in code that the models follow as it is:

* *Gateway.*  A refreshed token carries no roles or permissions although
  `auth_routes.py:129-131` speaks of leaving permissions as they are, so that
  its bearer is forbidden what the first token allowed.  Two refreshes with one
  token at once both get a pair.  Logout revokes the one token it is given; a
  revoked token does not close an open socket.  What was revoked in memory while
  Redis was away is forgotten when it returns.  A failed welcome leaks a
  connection and its slot (`NoOtherOrphans` allows these and no others).  The
  limiter runs before the policy although `proxy_routes.py:3-5` has it the other
  way round, and a limiter that was built on Redis answers 500 when Redis goes.
* *Report.*  The cache key leaves out the `store` flag (`report/service.py:140`;
  `schemas.py:120`), so a storing request may store nothing; it also leaves out
  ids and metadata, which the JSON renderer writes, and the report id, which all
  do, so that a cached report bears the report id of the request it was made for,
  and in JSON its request id, session and metadata (`json.py:25-27`, `:51`); the
  response around it has the new request's request and session id
  (`service.py:144`).  Nothing catches this, as nothing is said against it.  Report
  ids that differ in a character that is no letter, digit, dash or underscore, or
  after the 128th, share their files on disk (`local.py:181-185`; `schemas.py:93`
  bounds neither): one overwrites the other, and a get of the one answers the
  other's report under the wrong id.  A put that fails, or a crash, leaves the file
  it had opened empty or cut short, with the old sidecar (`local.py:80-81`): until the next put the
  content does not match its checksum, which nobody compares, or the sidecar cannot be
  read, which makes a get fail and a deletion end with an error (`:162`).  JSON writes the trace into every template and omits the
  closing.  The language of a stored report is not written down, so that
  `get_report` answers the default one.  An eviction between `exists` and `get`
  (`service.py:217`, `:230`) hides a report that other backends hold.
* *Intent.*  When the rules disagree with an unsure model, `config.py:55-57` keeps
  the model's pick and demotes its confidence.  `classifier.py:252-264` puts the
  rules' pick first if its score is the higher, and otherwise leaves the model's
  confidence as it is (`:266-271`); `RankingIsSound` says what the code does.
  With a `low_confidence_threshold` of zero, which the settings allow,
  a model that says nothing is not unsure: the answer is the fallback, and the
  rules are not asked (`classifier.py:229-241`).  A batch is classified for its first item's audience
  (`service.py:189`) and cached under each item's own (`:238`).  Equal scores keep
  the order of the index.
* *LLM.*  `max_request_cost_usd` is compared after the call and only logged
  (`router.py:427`; `config.py:111`).  The memory tier
  keeps no time to live.  In a batch a provider's failure is reported as
  INTERNAL_ERROR (`service.py:147-158`).
* *Decision.*  The fingerprint, a "stable key for caching identical decision
  requests" (`features.py:69`), turns the 0.5 of an unknown stock, promotion or
  alternatives flag into 0 (`:88-90`): a request that does not know is answered from the
  cache with the decision of one that knows it is not so, and the other way round,
  though the rules tell them apart (`rules.py:150`, `:190`).  `DecisionsAreTrue`
  allows this of cached decisions, and of no fresh one.  The severity of an action
  is described as part of the review gate (`catalog.py:11-13`) and is not looked at
  (`service.py:275-287`).  An action that wins the blend without being anybody's favourite is
  returned with another action's steps (`ensemble.py:183-187`), unless it was
  asked for in a batch; the top confidence of a blend is always 1.  An open breaker falls back to the rules even if
  `allow_rules_fallback` is off (`engine.py:154`); a batch that falls back does not
  say why.  A cached answer for an unnamed request bears another's name, and a
  fallback's answer is served as `auto` for as long as it is cached.  With a review limit
  of zero every order needs a reviewer but one that costs nothing
  (`service.py:280`).  Rule order
  decides ties (`rules.py:77-80` says it does not matter).  A model's actions are
  not filtered by audience.  One item that asks for the model where there is none
  fails its batch.
* *Input path.*  The breaker's "half-open: allow the next call through"
  (`input_manager.py:152`) lets everybody through until a success, and a failed
  probe does not start the wait anew.  `AsyncRateLimiter` calls itself
  fixed-window (`:170`) and is a sliding log.
* *Caches of intent, decision and llm.*  Worker threads read, reorder and trim an
  `OrderedDict` without a lock: a KeyError (`Pushed`) may end a request.

## 6. What is not modelled

* Vendor adapters, OCR, speech and link fetching: one call in, one result or
  error out; they appear as a nondeterministic answer.
* HTTP shells, settings, metrics and logging: no state of their own.
* Text: tokenisation, language detection and regular expressions in the intent
  service, wording and layout in the renderers.  What a trained model scores.
* In modelled parts: headers and URLs in the forwarder; signatures and password
  hashes in the gateway; the clocks of several gateways, which the Redis bucket
  trusts (`token_bucket.py:140`); the embedded mode of the stage clients; costs in
  the router; the Redis tier of the report cache (an optional second copy) and the
  batch endpoint of the report service, a loop over `generate`; the limits of five
  candidates and twenty rules in the renderers; next steps, labels and rationales
  of decisions; the in-memory cache backend of the input path; the size limit of a
  batch, which is checked before anything starts (`hub/service.py:110`); a budget
  so small that its ratio to the amount is infinite, which `_clip` takes for
  nothing spent (`features.py:158-160`): amounts are whole numbers of a unit.

## 7. Plan

Done, in this order: gateway breaker and forwarder with proofs; stage contract,
stage client and refinement proof; pipeline; router; report stores and service;
session store and input path; model guard and intent service.  Then decision
service, policy and engine; gateway access, sockets and tasks; the completion
service; renderers, intent rules and input gates; proofs about the gateway's
tasks, the pipeline, the decision and intent services and the renderers; then
about the router and its cache, the report service, the sessions and the gates,
the rankings of intents and decisions, and the decision engine's limits.

Next:

1. The Redis bucket with each gateway's clock; the embedded mode of the stage
   clients, in which a cancelled call leaves its thread running.
2. A listing of a user's sessions against the cleanup; the Redis tier of the report
   cache.

## 8. Running it

```
tlc -workers 2 -config ReportService.cfg MCReportService
tlapm GatewayProofs.tla
```

Each `.cfg` is named after its module, or after the module and the question.
The longest run takes about three minutes, the longest proof about four.
