# UniGateway in TLA+

UniGateway is a Rust library that puts one front door before many LLM providers.
A host builds an engine, registers pools of endpoints in it, and sends chat,
responses and embeddings requests to a pool or to an explicit plan; the engine picks
endpoints, runs a protocol driver against the upstream, retries, streams, and tells
the host what happened through hooks. Around the engine stand the configuration and its
projection into pools, the limits per API key, the conversion between the OpenAI and the
Anthropic protocol, and a store of conversations. This directory models the parts of it where
order, concurrency and failure decide, checks them with TLC and proves the central
invariants with TLAPS.

Paths below are relative to `unigateway-core/src` unless they say otherwise.

## 1. Inventory

| Part | State | Operations | Talks to |
|---|---|---|---|
| Adaptive concurrency controller (`engine/aimd.rs`) | four atomics: limit, slow-start threshold, active count, cooldown deadline | `acquire`, `on_success`, `on_saturation`, the guard's drop | shared by all attempts on an endpoint |
| Routing (`routing.rs`, `feedback.rs`) | none of its own | pool and plan snapshots, suppression, scores, rotation, truncation | reads the registry, advances its counters |
| Pool registry (`engine/mod.rs`) | pools (RwLock), round-robin counters (Mutex), controllers | upsert, remove, update, snapshot, order | config sync upserts, requests select |
| Execution loop (`engine/execution/fallback.rs`) | per request: candidate index, attempts, skips, last error, guard | admit or skip, attempt, retry, finish, return a stream; dropped at any await | controller, driver, hooks |
| Reports and hooks (`engine/reporting.rs`, `hooks.rs`) | reports under construction | eight hook events | host |
| Stream observation (`engine/execution/support.rs`, `engine/reporting.rs`, `response.rs`) | two channels, two oneshots, drain flag and `Notify`, chunk count | driver, forwarding and completion tasks, `into_completion` | hooks, caller, controller |
| OpenAI and Anthropic drivers (`protocol/`) | frame buffers, tool-call accumulators | start, stream, finish; the reactive tool_choice retry | upstream over HTTP |
| SGLang backend (`protocol/sglang_lite/`) | a subprocess under a mutex | start, health wait, gRPC call | subprocess |
| Conversion (`conversion/`), capabilities, requests, metadata headers | none | JSON to JSON | drivers |
| Configuration store (`unigateway-config/src/store.rs`, `admin/`) | state (RwLock), dirty flag, file | mutations, persist with rename | core sync |
| Core sync (`unigateway-config/src/core_sync.rs`) | none: a snapshot per run | snapshot, build pools, upsert or remove each | store to engine |
| Runtime limits (`unigateway-config/src/runtime.rs`) | per key: tokens, in-flight, queue, `Notify`; a global sleeper count | check and enter, release | every host request |
| Host dispatch (`unigateway-host/src`) | none | resolve target, call the engine, map status, fall back from responses to chat | engine, config |
| Protocol rendering (`unigateway-protocol/src`) | per stream: open block, indices, pending tool calls | event in, events out | host |
| Session stores (`unigateway-session`, `unigateway-session-redis`) | records with epoch, revision, creation and access times | publish by epoch, get, touch, remove, purge | delta middleware |
| Delta middleware (`unigateway-session/src/middleware.rs`) | none: a request in progress | assemble messages from a stored prefix | session store, host |
| SDK (`unigateway-sdk`) | none | re-exports | |

What is hard in each, and what makes it correct:

* **Controller.** Lock-free read-modify-write loops from stale copies. The count must
  equal the live guards, the limit must stay in range and every change of it must be one
  rule applied to the value it replaces.
* **Routing and registry.** A snapshot is taken under one lock and ordered under another;
  counters outlive the lists they count in. Rotation must starve nobody, reordering must
  lose nobody, feedback must decide who comes first.
* **Execution loop.** Ten ways out of an attempt, each with a slot to give back and reports
  to make, and cancellation at every await. Every request ends; its reports describe what
  happened; slots follow attempts.
* **Streams.** Four actors and a hand-rolled drain handshake. No chunk is lost, the final
  events come last and count what was told, the slot is released in the end.
* **Configuration.** Memory, disk and engine are three copies of one state, brought
  together by steps that interleave with mutations. What was saved is what was set, and the
  engine converges to it.
* **Runtime limits.** Counters guarded by locks, waiters by a `Notify` that stores one
  permit; futures are dropped while they wait. Capacity must not leak and waiters must
  not be stranded.
* **Sessions.** A cache with compare-and-set by epoch, lazy expiry and, on Redis, several
  commands per operation. No reader sees half a record, no stale writer wins.
* **Requests.** A request is parsed, enriched, converted and retried by four parties that
  share its metadata. A sound conversation must arrive as a sound one, a retry must ask for
  less and only once.
* **Renderers.** Stateful translations whose output must be a well-formed event sequence
  and say the same as the answer that is not streamed.

`PROJECT.json` lists the hazards, each at its line.

## 2. Plan

The core of the engine came first, bottom-up, because every request goes through it;
then its surroundings:

1. `ConcurrencyGate` (abstract), `Aimd` (implements it), `AimdProofs`
2. `Lists`, `Routing` (operators), `EnginePools` (the registry and selection), `PoolProofs`
3. `StreamLifecycle` (abstract), `StreamObserve` (implements it), `StreamProofs`
4. `Execution` (composes the gate and the lifecycle through refinement), `ExecutionProofs`
5. `RuntimeLimiter` (the limits a host asks for before it calls the engine), `LimiterProofs`
6. `GatewayConfig` (administration, dirty flag, saving, crash) and `CoreSync`, which extends
   it with the projection into the engine's pools; `ConfigProofs` is about both
7. `SessionContract` (abstract), `SessionRules` (operators), `Sessions` (both stores and the
   delta middleware implement the contract), `SessionProofs`
8. `ToolCalls`, `ReasoningText`, `AnthropicRenderer`, `OpenAiAdapter`, `CompletedBodies`,
   `StreamClients` (operators), `Rendering` (a stream through them, against the completed answer)
9. `ToolChoice`, `Conversation`, `UpstreamRequests` (operators), `Requests` (a request through
   parsing, conversion, drivers and the retries around them), `RequestProofs`

The plan is done. What a next step would be is the renderers: their properties relate the folds over
a whole stream on both sides, and are model-checked only (section 5).

## 3. The modules and the code

**`Aimd`** has one action per atomic access of `engine/aimd.rs`. The `pc` of an
attempt is its program counter, `seen_*` are the locals of the Rust functions,
`current_limit`, `ssthresh`, `active_connections` and `cooldown_until` the fields. `Tick`
is the wall clock, bounded by `MaxTime`. `ConcurrencyGate` is what the engine relies on:
a set of holders no larger than a capacity; `GateSpec` is the refinement, with the
attempts that hold a guard as the holders. Memory is taken as sequentially consistent.
The code's relaxed orderings concern single atomics whose read-modify-writes are totally
ordered; relations between two of them (the cooldown and the limit) are claimed by no
passing property.

**`Routing`** gives the pure functions of `routing.rs` as operators; `FullOrders` yields
every order a random strategy may give. **`EnginePools`** is the registry with its
counters and the three steps of a request (snapshot, order, use). Its `turns` is a
history of recent rotations, kept for `RoundRobinFair`. `remove_pool` takes away the counters of the pools
whose id begins with the removed one's and a colon (`Nested`): a registered pool starts its rotation anew then,
in the middle of a turn. The history stays and marks such a place as a `cut`, and `RoundRobinFair` is about the
turns between two cuts. Endpoint ids are numbers because
ties are broken by id. The rotation is fair to the places of a list; that these are different endpoints
is the host's doing (nothing in `upsert_pool` looks at ids), and `RoundRobinFair` says so.
**`Lists`** has the filters and sorts of `Routing` and `GatewayConfig`, written by positions: `Arrange`
puts a set of positions in an order, `Pick` takes the entries there. Recursive ones cannot be reasoned
about. A sort keeps the order of what its comparison does not tell apart, as `sort_by` does.

**`Execution`** is the loop of `execute_with_fallback`. The field `at` names the await or the
point between awaits the request is in; `guard` is the `AimdGuard`; `hooks` is the history of
events told to the host. A controller is seen as the gate with a moving limit: `MayRaise`
and `MayCut` allow what `on_success` and `on_saturation` may do, given the ceiling and cooldown
that `Aimd` details. `Cancel` drops the future at any await. A streaming attempt leaves the
loop with its guard and ends in the four steps `EndStream` to `SettleStream`. `EndStream` is the moment the
completion task is past the drain; it may never come, because the upstream need not end its body and because of
the lost wakeup that `StreamObserve` has. An upstream's error is
never one of `EngineErrors`: drivers do not make those. The story of a request is read by places:
`Told` is where events of a kind stand in it, `UpTo` how many of them there are up to a place.

**`StreamObserve`** opens up one such stream: the driver task, `observe_stream`, the completion
task of `with_streaming_attempt_reports` and the caller. The drain flag, the look at it
and the registration of the waiter are separate steps, as in `mark_drained` and
`wait_until_drained`. **`StreamLifecycle`** is what the host may rely on. Both
`StreamObserve` (`FollowsLifecycle`) and `Execution` (`StreamsFollowLifecycle`) implement it, which
is how the two views of a stream are tied together.

**`RuntimeLimiter`** is `unigateway-config/src/runtime.rs` for one gateway API key: one action per
section under the mutex, and one per await between them. `req[r].at` is where the future of
`acquire_runtime_limit` stands; `permit` and `waiters` are the tokio `Notify`, whose behaviour is
modelled from its documentation as far as the code uses it (one stored permit, waiters served in
order, a dropped waiter passes an unseen notice on). Time is counted in ticks of `1/qps`, so that
the fractional tokens of the code are whole numbers at every instant the model looks at;
`granted` is a history of the instants for which tokens were given, in the order of the grants. The request brings the
definition of its key (`ApiKeys`), because the code reads the limits from the request and not
from the stored state. `Cancel` drops the future at any await.

**`GatewayConfig`** is `GatewayState` of `unigateway-config`: the file in memory (`file`, `dirty`),
each administrator's call, each save and the disk. An operation that takes the lock once is one
step; `bind` takes it twice, and the notice to the sync task comes after the lock (`call[a].at =
"notify"`). A save is copy, truncate, write, rename, clear, each a step, on a temporary file whose
name all saves share. `Crash` keeps the disk only. `slipped` and `overlapped` are histories that
name the two exceptions of `CleanMeansSaved`. `Service` to `Files` are the entries of the schema,
without what decides nothing; an update replaces the fields it is given, where the default model and the
mapping of models, which `core_sync.rs` only copies, are one field, `models`. **`CoreSync`** adds the engine's `pools` and the task
of the embedder that syncs at start-up and once per notice, service by service, from a copy. Of two services with one id the first is built and listed twice, as
the code's `find` does; the run's files include such a pair.

**`Sessions`** is one key in a store. `host` says which backend, with which lifetimes, limits and
policies; `record` is what the store has, `op[c]` each caller's call with the clock it has read. In
memory a call is one step, under the lock; on Redis each command is one. A record whose
`prefix` is `None` is a fragment: an access time that `HSET` wrote after the key was gone.
The clock counts `Second` ticks to a second, because Redis does not: a time is stored as whole seconds
(`Secs`), and the idle lifetime of `EXPIRE` is cut to whole seconds and at least one (`WholeSeconds`), so that a
lifetime of 1.5 s is one of 1 s to Redis, and a session may be judged expired up to a second early.
`TtlFollowsIdleTime` claims just this; of a host without an idle lifetime it says nothing, and a fragment stays there
until somebody deletes it.
**`SessionRules`** holds the decisions both stores take. **`SessionContract`** is the promise to
hosts, with the held prefix as its only state; `KeepsContract` is the refinement.

**`Rendering`** drives a chat stream frame by frame from an upstream of either protocol to a
client of either protocol. `message` is what the upstream has said, from which `CompletedBodies`
computes the body that a client without streaming gets; `StreamClients` puts together what a
streaming client receives, with the library's own aggregator on the Anthropic side, and
notes the first event that the protocol does not allow. One action takes a frame all the way,
because each hand-over is an ordered unbounded channel with one reader. A text is a sequence
of tokens, and a tag two of them, so that a frame may end inside a tag. `ToolCalls` and
`ReasoningText` are `conversion/tool_calls.rs` and `responses/reasoning_text.rs`;
`AnthropicRenderer` and `OpenAiAdapter` are the two stateful renderers. The completed body joins the texts (and the
thoughts) of an Anthropic message by new lines for an OpenAI client (`conversion/response.rs:44,52`) where the stream
just goes on, and a message without blocks gets a fallback body that says `stop` (`FallbackBody`). `StreamedIsCompleted`
compares up to the new lines, and leaves out the second. The aggregator that puts a stream together for an Anthropic
client fails on arguments that are no JSON (`ParsedInput`), which the body turns into `{}`.

**`Requests`** follows one request: parse, target and hint, the engine's call, the driver's build,
the upstream's answer or refusal, the second try with a weaker `tool_choice`, and the host's second
tries of a Responses request. `log` is the history of what was sent to whom, with the answer.
`ToolChoice`, `Conversation` and `UpstreamRequests` are the pure functions that build what is sent;
of a message remain its role, the kinds and order of its blocks, call ids and signatures. A `tool_choice` is
a string or an object (`form`), since the parsers refuse some words in one form and not in the other. Of
`execute_with_fallback` remain any order of the endpoints and any decision to go on, which
`Execution` details.

## 4. Runs

| Run | Configuration | Shows |
|---|---|---|
| `aimd_slots` | `MCAimd` | slots are neither lost nor doubled, caps hold, the gate is implemented: 3 attempts, 2 slots, static cap 1 or none |
| `aimd_limit` | `MCAimdLimit` | the limit stays in 1..4 and moves by one rule at a time: 2 attempts, two cooldowns |
| `pools` | `MCEnginePools` | rotation is fair, the best candidates come first, none is lost and the attempt budget is used, while a pool is resized, reconfigured and removed under two requests with plans and feedback; rotations are fair until a removal takes their counter |
| `execution` | `MCExecution` | reports, slots, gates and stream lifecycles of two requests that retry, skip, stream, meet a missing driver and get cancelled; each of them ends, and its slot comes back, from a stream once the completion task has seen its end |
| `stream` | `MCStreamObserve` | no chunk lost or miscounted, final events last, the completion task ends but for the lost wakeup: up to three chunks |
| `limiter` | `MCRuntimeLimiter` | the rate is shaped, caps are kept, the counters count who is inside, everybody is answered: three requests |
| `config` | `MCGatewayConfig` | a clean store is on disk whole, quotas only grow, deletions leave no binding behind: two administrators, two saves, a crash |
| `core_sync` | `MCCoreSync` | the engine follows the file and catches up, the host's own pools are left alone: two administrators overtake a sync, with a reload or a crash |
| `sessions` | `MCSessions` | the contract, deltas from one publish, no hit refused without cause, Redis's TTL up to the fraction of a second that `EXPIRE` cannot count: two callers on three set-ups |
| `render` | `MCRendering` | each client's protocol is kept, streamed says the same as completed but for line breaks between blocks, a failed stream does not look complete: both protocols on both sides |
| `request` | `MCRequests` | conversations and fields survive conversion, retries ask for less and once, tools leave at most once |
| `request_redirected` | `MCRequestsRedirected` | *violated*: an upstream that says to use `/v1/responses` is asked again without the tools |

The violated run states what `CHANGELOG.md:223` says, and shows what the code does instead: the second try without
tools is made although the upstream named `/v1/responses`. The finding in `PROJECT.json` quotes it.

The models exhibit other disagreements between code and text, or between two paths of the code. No run is spent on
them, and no property claims what they break:

* Controller: a saturation report whose one compare-exchange loses starts the cooldown without a cut
  (`engine/aimd.rs:159`; `docs/design/scheduling.md:21` says the window is halved at once), and two
  reports that pass the cooldown check together both cut (`engine/aimd.rs:147`).
* Registry: `remove_pool` "drops a pool and its related counters" (`engine/mod.rs:90`), but the prefix it
  compares is `pool:<id>:` (`engine/mod.rs:96`) and a pool's key is `pool:<id>` (`routing.rs:110`): the pool's own
  counter stays, so that a later pool of that name starts in the middle of its rotation, and a registered pool
  `<id>:eu` loses its own. `RoundRobinFair` excludes the turn in which that happens. An excluded endpoint stays a
  candidate at the end of the order (`feedback.rs:29`).
* Execution: a request that finds every endpoint saturated ends without `on_request_finished`
  (`engine/execution/fallback.rs:318`, `hooks.rs:60`); `HooksTellTheStory` says that only such
  requests, and cancelled ones, do. `AllEndpointsSaturated` (`error.rs:28`) is also returned when
  `max_attempts` left an endpoint unasked, and a skip event may show a free slot (`hooks.rs:152`).
* Streams: `wait_until_drained` reads the flag before it registers (`engine/reporting.rs:456`); a drain in
  between leaves the completion task, its slot and the caller's completion waiting for ever, which
  `engine/tests/streaming.rs:124` excludes. `HangsOnlyOnLostWakeup` says there is no other
  hang, and `RequestsEnd` claims the slot of a stream only from the moment the completion task is past the drain. `into_completion` keeps the stream, and its unread chunks, until the completion is there
  (`response.rs:72`).
* Limits: a request dropped in the queue keeps its place (`unigateway-config/src/runtime.rs:78`,
  `docs/design/queue.md:36`); a notice is lost with the waiter that got it, and the next one stays
  beside a free slot until its timeout (`runtime.rs:136`, `docs/design/queue.md:9`); the queue timeout
  is 30 s where that document says 5 s; one sleeper more than `MAX_QPS_SLEEPERS` is let in.
* Configuration: `docs/guide/config.md:43` says that a lower `priority` comes first under the fallback
  strategy; `build_core_pool` leaves the endpoints in the order of the bindings
  (`unigateway-config/src/core_sync.rs:101`).
* Sessions: on Redis a touch after the key is gone leaves a fragment, and publishes are then
  answered `Unavailable` (`unigateway-session-redis/src/store.rs:219`), not as the memory store does
  (`unigateway-session-redis/README.md:25`). A fraction of a second is cut from the idle lifetime and from the
  stored times, so that a session may be gone up to a second early (`store.rs:130`).
* Rendering: text that the reasoning parser withholds to the end is emitted twice
  (`responses/anthropic_stream.rs:135`, `docs/guide/reasoning.md:107`); the stream and the completed body treat other
  answers differently too, all of them named at `StreamedIsCompleted`; an `error` event of an Anthropic
  upstream becomes a second `message_start` (`docs/design/protocol-conversion.md:199`); merging cumulative
  arguments drops a fragment that repeats what came before, and `{}` followed by more is joined as it
  is; a reasoning encoding under the policy that omits thinking shows it in a stream and not in the
  body; a frame that cannot be parsed ends an OpenAI stream with `[DONE]` (`responses/render.rs:85`).
* Requests: a rejected `tool_choice` that was sent unchanged is never retried, because the metadata
  records changed choices only (`CHANGELOG.md:239`); a `system` given as an array does not reach an OpenAI
  upstream (`openai/requests.rs:118`); neutral tool messages do not reach Anthropic, and of several
  results in one message OpenAI gets the first; a client's `max_completion_tokens` goes to
  Anthropic beside the default `max_tokens`, and under the think-tag encoding to OpenAI beside the `max_tokens` that the
  driver adds (`openai/requests.rs:79`; `CHANGELOG.md:215` says that only one of them is sent), the one case that
  `FieldsLegal` excepts. `FieldsLegal` is four rules, and not that an upstream knows every
  field it is sent: unknown fields are forwarded on purpose.

**Bounds.** Two attempts are enough for every race on one atomic, a third can see a slot freed
and taken between the two; a limit of 1..4 has a value below, at and above each
threshold after a halving. Two pools over three endpoint ids show sharing, ambiguity and a
disabled endpoint; rotations over two enabled endpoints and a history of two cover a full
turn, and a pool that changes between two lists of that size shows what a changed list does to
the counter. The other pool, `q`, rotates over two endpoints as well and has an id that begins with that of `p`
(`NestedIds`), so that removing `p` resets it in the middle of a turn; one pool has a budget of a single attempt, and the host
may change the retry policy as well as the strategy. In `MCExecution` two requests work through jobs of two candidates out of three
endpoints, one capped at a single slot and one without a driver: refusal, retry on a second
candidate, and a slot handed to a stream meet; a third candidate repeats the second one's step.
The gate of an endpoint has the smaller of `MaxConcurrency` and its static cap as its size.
Three chunks let one be in each channel and one in the task's hand. Three requests under one key
with `Burst = 1`, `ShapingTicks = 1`, `MaxSleepers = 0` and `MaxQueue = 1` make each of the limits
refuse someone while another is inside, a notice meet a newcomer, and a third request wait; the
key's definitions differ in having a rate and in their cap, 1 or 2, as when a host changes them
between two requests.

In `MCGatewayConfig` two operations and two saves are the fewest that overlap in every way, the
first file is hand-written or empty, and one crash is enough because it leaves nothing but the
disk. `MCCoreSync` trades the saves for a second service, so that one of two fails to build,
and for pools of the host and of an earlier configuration. In `MCSessions` the three prefixes give
a higher epoch, an equal one with another content, and a repetition; the delta requests one that fits
and one that names a later epoch; the clock runs to 3 with two ticks to a second; on Redis the idle lifetime is 3 ticks, one and a half seconds,
and the lifetime at most 2, so that either ends before the other and `EXPIRE` cuts the first; in memory they are 0 and 1, and a
third host has no idle lifetime. `MCRendering` bounds the frames of a stream, 9 from Anthropic and 6 from OpenAI:
a tag split over three frames with text around it, or two calls with a late id and two fragments
of arguments, fit. `MCRequests` has five endpoints - an OpenAI one that supports everything, one that
supports less, an Anthropic one, a spare, a disabled one - and varies conversations, choices, fields and
Responses requests one kind at a time, since the code that treats them shares no state; a `tool_choice` comes in both of
its forms, with the words that only one of them knows. The violated run starts from the requests it is about (`Redirected`). Most requests carry a hint
that leaves one or two endpoints, enough for a refusal at the first to be seen by the second.

`MaxTime`, `MaxChunks`, `MaxOps`, `MaxCrashes`, the length of a stream and `HistoryLength` are the bounds that the code
does not have; near `MaxTime` no token is borrowed that would come back after it.

**Fairness.** `Execution!Fairness` says that a started request goes on, which the async
runtime gives it as long as its hooks and backoff return and the upstream answers or
fails; an attempt's start has a timeout. A stream's end has no fairness: the code puts no timeout on
a body, and the completion task may wait for ever in the drain. Once it is past the drain, only the two hooks
and the release are left, which are fair. None is put on the choice to start
or to cancel either. `StreamObserve!Fairness` is weak fairness of the driver, the forwarding
task and the completion task, and none of the caller: it may stop reading at any time.
`RuntimeLimiter!Fairness` lets time pass, the runtime poll whoever can go on and the queue
timeout expire; nothing makes a host release a slot.

**Deadlock** is checked for `Aimd` and `EnginePools`. `Execution` and `StreamObserve` really stop,
when every request or the stream is over, and `RuntimeLimiter` when every request is inside or
was dropped; their liveness properties say that they stop nowhere else. `GatewayConfig`, `CoreSync`,
`Sessions` and `Requests` stop when their bounded operations are done; `Rendering` goes on
stuttering after the end of a stream.

## 5. Proofs

| Theorem | Says |
|---|---|
| `AimdProofs!TypeCorrect` | the counters keep their types: the slot counter never wraps |
| `AimdProofs!SlotsAlwaysAccounted` | the slot counter is the number of live guards |
| `AimdProofs!LimitsAlwaysWithinConfig` | limit and threshold stay in the configured range |
| `AimdProofs!ActiveAlwaysBounded` | at most `max_concurrency` attempts |
| `AimdProofs!HardCapAlwaysRespected` | no admission goes above its static cap |
| `AimdProofs!LimitAlwaysMovesByOneRule` | one increase or one halving at a time |
| `AimdProofs!AimdImplementsGate` | `Aimd` implements `ConcurrencyGate` |
| `ExecutionProofs!SlotsAlwaysFollowCandidates` | a request's slot is that of its candidate, from admission to the end |
| `ExecutionProofs!GatesAlwaysRespected` | `Execution` implements `ConcurrencyGate` at every endpoint |
| `ExecutionProofs!OutcomesAlways` | the invariant behind the next three: results, attempts and the hooks' story agree |
| `ExecutionProofs!HooksAlwaysTellTheStory` | the hooks of a request read as one story with one report, which is right |
| `ExecutionProofs!LastAttemptAlwaysDecides` | the last attempt decides, the others were retried |
| `ExecutionProofs!FallbackAlwaysTriesAll` | under Fallback a request fails after its last candidate |
| `ExecutionProofs!StreamsAlwaysFollowLifecycle` | every stream of `Execution` implements `StreamLifecycle` |
| `StreamProofs!StreamFollowsLifecycle` | `StreamObserve` implements `StreamLifecycle`, for any number of chunks |
| `StreamProofs!NothingEverLost` | a caller that stays gets every chunk, in order and once, and the report counts them |
| `LimiterProofs!LimiterTypeCorrect` | the bucket stays within its size and debt, the `Notify` lists exactly those who wait |
| `LimiterProofs!CountersAlwaysExplained` | the limiter's counters count who is inside |
| `LimiterProofs!LimitsAlwaysKept` | nobody is let in above the limit it came with |
| `LimiterProofs!RateAlwaysShaped` | no stretch of time gets more than a full bucket and what came back in it; sleepers and queue are bounded |
| `SessionProofs!SInvHolds` | the invariant of the stores: what a call in progress knows fits the record |
| `SessionProofs!StoreKeepsContract` | both stores implement `SessionContract`, for any number of clients |
| `SessionProofs!OnePublish` | an answer holds one prefix, held during the call |
| `SessionProofs!RefusedOnlyWhenLost` | an announced hit is refused only for a lost session or connection |
| `SessionProofs!TtlReaches` | Redis's TTL covers the idle lifetime but for less than a second, and a whole second in any case, half touches aside |
| `ConfigProofs!StoreInvHolds` | the invariant of the store: one save at a time, or saves have overlapped |
| `ConfigProofs!CleanSaved` | clean means saved, and only overlapping saves tear the file |
| `ConfigProofs!NoQuotaRefilled` | nothing but a crash gives back quota |
| `ConfigProofs!OrphansByRaceOnly` | a binding loses its provider only to a deletion that overtook a bind |
| `ConfigProofs!SyncInvHolds` | the invariant of the sync task |
| `ConfigProofs!EngineIsInStep` | settled, the engine routes by the file, whatever overtook the syncs |
| `ConfigProofs!HostPoolsLeftAlone` | the host's own pools are left alone |
| `PoolProofs!PoolsInvariant` | the invariant of the registry: well-formed requests, snapshots sorted by feedback, whole budgets, rotations in step |
| `PoolProofs!FeedbackDecidesOrder` | the whole budget is used on different endpoints, the best first |
| `PoolProofs!EveryEndpointHasItsTurn` | between two removals that take its counter, round robin starts at every endpoint of a list once per turn |
| `RequestProofs!RequestsInvariant` | the invariant of a request: its call, what it has sent, the metadata and the stages |
| `RequestProofs!FieldsStayLegal` | four rules for the fields of a request: none of the gateway's own, no reasoning fields to `/v1/responses`, `max_tokens` and one sampling field to Anthropic, and never a client's two token limits to OpenAI |
| `RequestProofs!RetriesWeaken` | an endpoint is asked again once at most in a call, for less |
| `RequestProofs!ToolsLeaveForGood` | the host's second tries go through their stages once and forwards |

Assumptions: `AimdConfig` (minimum ≤ initial ≤ maximum, which the default configuration
satisfies and nothing else is ever used), a finite set of attempts, `Configured`
(ranges; non-empty candidate lists, which `execution_snapshot` guarantees by failing
on an empty one; no error of a driver is one that only the engine makes), `ChunkBound`, `LimiterConfig` (positive bucket, natural bounds, a finite set
of requests), `SessionConfig` (natural epochs, lifetimes natural or `None`, at least one tick to a second, and `None`
neither a number nor a prefix), `ConfigValues` (the files and entries have the fields of the schema; finitely many saves),
`EngineDefaults` and `HostGives` (pools, plans, signals and the strategies and policies of an update have their
types; ids within a pool may repeat), `PayloadsShaped` and `NoneApart` (a payload is a neutral one or of one of the four client protocols, and its
choice, stream flag and encoding are of the kinds the parsers know; `None` is not one of the values), and `PoolShaped`
(endpoints speak OpenAI's or Anthropic's protocol, and a downgrade of `tool_choice` that a host configures
weakens the choice: the presets of `capabilities.rs` do, a host's own policy might not, and an
endpoint that answers `auto` with `required` is outside what is claimed).

The argument for `Aimd` starts from the counting invariant. `SlotsAccounted` alone is
inductive only with the type of the program counters; the bound on the count needs
more, because an attempt compares a copy of the count with a copy of the limit. The copies
an attempt carries at `acq_cas` and in the two outcome reports are therefore part of the
invariant: a copied limit is in range, and a copied cap is at most the static cap. The
compare-exchange then turns what held of the copy into what holds of the count.
`SaturationCas`'s halving preserves the range because the value it was computed from was in
range when it was copied, and ranges do not change.

For `Execution` there are two invariants. `Slots` is `SlotFollowsCandidate` together with the type of the
candidate index: every step either moves `guard` and the place of the request together, or
neither. The gate then follows, since a slot is only taken by `Admit`, whose guard keeps the
number of holders below the limit and the limit is never above `MaxConcurrency`. `Outcomes` adds what
the properties about results and hooks need and do not say: for the request's record (`Tally`) that
candidates passed are attempts and skips, and that each attempt behind another was retried; for the
story (`Account`) that as many attempts were told as were made, one more while one is under way, each
at its rank. A step leaves the story alone or adds one event at its end, and `AccountMoves`,
`AccountStarts`, `AccountEnds` and `AccountReports` say what each of these does to the ranks.

For `StreamObserve` the first invariant, `Drained`, says that once the completion task is past the drain the
forwarding task no longer counts, which is what makes the reported count final. The lost
wakeup does no harm to it: it can only keep the completion task from getting there. The second,
`Complete`, says while the caller stays that what it received, its channel, the item in the
forwarding task's hand and the driver's channel are, end to end, the chunks sent, an error perhaps
behind them. No step of the forwarding task or the caller changes this sequence, only the cut points
in it, and the driver appends to it; the count is the length of its first three parts, the error left
out. `NothingLost` alone is not inductive, since it does not say what a second error or a chunk
after one would do to the count.

For `RuntimeLimiter` the invariant joins the counters with the list of waiters: that a release,
or the drop of a notified future, leaves `in_queue` right when it notifies the first of the list
needs the list to hold exactly the waiting requests, each once. `Moved` says what one request's move
does to a count, `RosterJoined`, `RosterServed` and `RosterLeft` what joining, being notified and
giving up do to the list; `Relocated` puts them together, and a notification is two of its steps.
`LimitsKept` then needs only that `Enter` and `TakeOver` are the only ways to a slot.

`RateShaped` counts grants in a stretch of time, and the bucket knows only its present. `Paced` ties them: the
tokens granted since the *i*-th, and those the bucket holds (or owes, as a negative number), are together at most
`Burst` and the time from the *i*-th grant to `last_update`. Idle time adds as much on both sides, the cap only
takes away, and a debt puts the next grant exactly so far into the future that the bound holds there too. That
grants are made in the order of their instants makes those within a stretch a run of the history, and
a run is bounded by its two ends.

For `Sessions`, `SInv` says of each call in progress what it knows by itself (`Fit`: what it read is something it saw
held, a hit was announced exactly if it is to be touched) and of its standing to the record (`Watches`: what is held is
among what a reading call has seen, a call with a hit finds its session alive or has noted the loss). One client's step
disturbs another only through the record, and `Stepped` sums up the few things a step can do to
that: nothing, a publish that every reader sees, a later access, a loss that everybody concerned notes. The
refinement of the contract reads off the same summary.

For `GatewayConfig`, `CInv` is the shape of the file, that a process that is down holds nothing, and a disjunction: saves
have overlapped, or there is one writer, the temporary file is its own, the copy is the file unless something slipped in,
and a clean flag means saved. The disjunction is what is inductive, for after an overlap none of the rest can be said. Each
administrative operation has a lemma of what it amends in the file (the other lists untouched, every key kept
with at least its use), from which the quota and the dangling bindings follow; a save's new
inode is free by counting. Lists are reasoned about by their positions, with the least element of a set of naturals
(`NatLeast`, from a well-founded order of the library) in place of an induction.

For `CoreSync`, `YInv` follows a sync through its services. What the sync lists to sweep is always
managed. Unless a notice still to come asks for another sync, the copy routes as the file
does, the services done so far are built in the pools as the file has them, and nothing listed for the sweep belongs
to a service; at the end of the sweep that is the property. `BuildPool` and the administrator's selection agree because both order the same bindings.

For `EnginePools`, `PInv` has a part for each property. `Candidates` says that a snapshot is sorted by its
feedback and what an order owes to its snapshot. That the sort sorts is `ArrangeAll`: ranks under a total
relation are distinct and at most as many as there are positions, hence a bijection. That the order may be cut and still hold the
best is a matter of positions. `Counted` gives each remembered rotation the place in its list where it began. Two that
are less than a turn apart, over a list that stayed the same between them and with no cut there, began as many places apart as there were
rotations in between, modulo the length; and the counter is one place behind the last. The length alone would not
do: a counter is taken modulo a list that other snapshots may have changed, so every step says something about the
current list only, and `OneMoreTurn` carries it over as long as the list stays and the counter is not taken away: a
removal marks the last rotation as cut, and nothing is claimed over it. A turn of *n* rotations then has *n* different
places, by arithmetic.

For `Requests`, `RInv` has four parts. `Known` is what is known of the call in progress: its request is the parsed one,
perhaps completed and stripped, its targets are candidates, and nothing is asked after an answer. `AllLegal` is the property
of the fields. `Choosy` says how every attempt's choice came about: a first attempt is what the driver builds in a new context,
a second one follows a refusal of a first at the same endpoint, and while an attempt is out, the metadata say which of the two it
is (`MetaOfLast`), which is why there is no third. That the second is weaker needs `NormalizedIs` and `WeakerIs`: a
downgrade never asks for more, and `Weaker` asks for less than what the metadata recorded. `Staged` says that what was sent
was sent at an earlier stage, or at this one and to an endpoint that is no longer a target; a stage is never left
backwards, because a second try of the host's drops the stream or the tools and restores neither.

Left to TLC: the violated run; liveness (`RequestsEnd`, `HangsOnlyOnLostWakeup`, `AcquireEnds`, `EngineCatchesUp`),
which needs fairness and `ENABLED`; `ConversationKept`, `ProtocolKept`, `StreamedIsCompleted` and `FailedIsNotComplete`, which
compare what folds and recursive operators make of whole conversations and streams, by an induction over data that the
provers cannot do.

## 6. What is not modelled

* The SGLang backend (`protocol/sglang_lite/`): behind a feature flag, a subprocess started under a mutex
  and a gRPC wire format; no other part reads its state.
* HTTP transport, the parsers of bytes into frames, metadata headers, environment pools, the hosts'
  middleware and the mapping of errors to statuses: input and output around the decisions, with no
  state that an interleaving could disturb.
* Embeddings bodies and the layout of JSON. Streams of the Responses protocol are passed through.
* Within the modelled parts: token usage, latencies and metadata in reports; the order of magnitude of
  times; logging; the timer behind a timeout, which is one of the ways an attempt may fail; panics in
  host hooks; memory orderings weaker than sequential consistency; request counters and
  read-only listings of the configuration; a pool that is replaced between the host's choice of a
  target and the engine's snapshot; the session routes, which translate outcomes into statuses.
* `Conversation` has no two adjacent assistant messages of Anthropic (the code does not join them for
  OpenAI) and no images: the block of an image has a form of its own in each protocol, and the code forwards it in
the form the client gave it, to an upstream of the other protocol too (`conversion/messages.rs:98` and `:139`). No property
speaks of it.
* The SDK crate only re-exports.
