# A verification of mcp-mux

mcp-mux is a gateway in one asyncio process: it routes MCP requests to endpoints, starts and
supervises the managed ones as child processes, limits and authorises requests, reloads its
configuration while it runs, and bridges legacy HTTP+SSE clients to Streamable HTTP. The hard
part is not parallelism (the event loop runs one task at a time) but suspension: every `await`
lets every other coroutine act on the same `EndpointRuntime`, be cancelled, or find its process
dead. These modules say what must stay true through all of that.

Paths below are relative to the repository root.

## 1. Inventory

| Component | State it keeps | Operations | Hard behaviour | What makes it correct |
|---|---|---|---|---|
| **Runtime record** `core/runtime.py` | `state`, `process`, `exit_task`, `restart_task`, `restart_attempts`, `lock`, `active_leases`, `legacy_tasks` | `acquire_lease`, `UpstreamLease.release`, `wait_for_leases`, `cancel_legacy_tasks` | every other component writes it, some of them without the lock | no process is stopped under a lease; leases are released exactly once |
| **Process supervision** `core/process_manager.py` | the records above; one monitor task per process, one restart task per runtime | `start_managed_server`, `drain_and_stop`, `stop_managed_server`, `_terminate_locked`, `_monitor_exit`, `_restart_loop`, `reconcile_restart_policy`, `cleanup` | cancellation during startup, processes that die at any time, tasks that cancel and await each other, policies replaced during a backoff | no orphan; one supervisor; failures are retried within the budget and never by demand; retired runtimes stay down |
| **Gateway: activation, reload, idle sweep, lifespan** `server.py` | registry `_runtimes`, `_accepting_work`, checker and watcher tasks | `_acquire_upstream_lease`, `apply_configuration`, `idle_timeout_checker`, `lifespan` | decisions on values read before an await; publication of a registry while old requests hold old runtimes; shutdown in mid-termination | publication after drain; shutdown leaves nothing behind and terminates |
| **Gateway: request lifecycle** `server.py` | local to a handler: captured configuration, `LimitLease`, `UpstreamLease`, response context | `catch_all_proxy`, `_proxy_request`, `_retry_upstream_once`, `_finish_leased_response` | ownership of two leases passes from the handler to a response iterator; a retry of what may have been executed | each lease released exactly once on every path |
| **Limiter** `core/limits.py` | per endpoint and tool: `active`, `timestamps` | `acquire`, `LimitLease.release` | limits change between capture, admission and release; two buckets per request; idempotent release | slots neither leak nor are freed twice; every window fits; no undue rejection |
| **Legacy SSE bridge** `compat/legacy_sse.py` | sessions with a bounded queue, setup and response tasks, expiry task, tombstones, `cleanup_lock` | `open_session`, `handle_post`, `_stream_session`, `_enqueue_event`, `_expiry_loop`, `_mark_terminal`, `_close_session_object`, `close_endpoint`, `close_all` | a task published and cancelled before its first step; setup that succeeds after closing; full queues; expiry racing a refresh; a lock held while tasks are awaited | no lease or upstream context is lost; a closed session stays closed; close terminates |
| **Configuration watcher and loader** `core/config_loader.py` | file signature, poll task, last good configuration | `start`, `stop`, `_poll_loop`, `_reload_if_changed` | a reload that fails half-way; the poll task cancelled while it drains | last-known-good: a registry is replaced whole or not at all |
| **Policy, protocol edge, security, redaction, SSE framing, observability** `core/*.py` | none, except a redactor's tail, a framer's lines and a request record | pure decisions over a request, a chunk or a line | boundaries: a secret split over chunks, precedence of allow and deny, order of disconnect and completion | agreement with a reference definition |
| **Configuration schema** `core/config_loader.py` | none | `load_router_config`, the validators, environment expansion | a file read while it is written | two managed endpoints never share a port; rejected as a whole |
| Entry point `main.py`, tests, CI runner | none | | | not modelled: no state of their own |

How they interact: a request handler captures `runtime.config`, passes policy and limiter, and
calls `_acquire_upstream_lease`, which calls `start_managed_server` under `runtime.lock` when the
runtime is `STOPPED` or `STARTING`. The spawned process gets a monitor task that needs the same
lock to report its exit and then schedules a restart task that needs it again. The idle checker,
the reload task and the lifespan's shutdown each take the lock in two separate critical sections
(mark `DRAINING`, then terminate) with an await between them. Whoever terminates a runtime cancels
and awaits its monitor and its restart task while it holds that lock. Leases are taken without the
lock.

## 2. Modules

| Module | Models |
|---|---|
| `EndpointLifecycle` | what one managed endpoint promises: the abstract specification of `EndpointRuntime` |
| `EndpointRuntime` | one managed endpoint and every coroutine that acts on it |
| `RequestLimiter` | the limiter, with reloads of its limits and time |
| `LegacyBridge` | the bridge of one endpoint, its sessions' tasks and the posts to them, with the retirement of the endpoint |
| `GatewayRequest` | requests from their admission to the end of their response |
| `Reload` | the watcher, `apply_configuration` and the lifespan over several endpoints, each as `EndpointLifecycle` sees it |
| `SecurityEdge`, `ProtocolEdge`, `CapabilityPolicy`, `Redaction`, `EventFraming` | pure decisions: who is let in, which protocol a request speaks, what it may name and see listed, what of a text may be sent, how an event is rewritten |
| `Exchange` | the five together: exchanges from their arrival to their log record, under reloads and departing clients |
| `ResponseProofs` | lemmas about `Redaction` and `EventFraming`, for any texts, chunks, secrets and events |
| `...Proofs` | theorems about the module they extend; those about a runtime that need more than its lock are in `EndpointSafetyProofs` |
| `MC...` | its instances for TLC, one `.cfg` file for each question |

### EndpointLifecycle

Four variables: the `RuntimeState`, the live processes, the holders of leases, whether the registry
lists the endpoint. It says what may be relied upon without knowing of locks and tasks: a process is
launched beside no other and only in a start; a lease is granted on a live process only; a start ends
without a process or with service; a draining endpoint grants nothing and rests, or leaves the
registry, only when process and leases are gone; after that nothing changes any more.
`EndpointRuntime!ImplementsLifecycle` states the refinement, with the mapping `phase <- state`, `live`
the processes of `os` that are alive, `holders <- Leases`, `listed <- registered`.

### EndpointRuntime

An action is the code between two awaits that may suspend. `pc[t]` names the await that task `t` is
suspended at:

| Label | Suspended at |
|---|---|
| `captured` | `catch_all_proxy`, anywhere between the registry lookup and the lease |
| `qStart`, `qTop`, `qAgain`, `qMonitor`, `qSweep`, `qStop`, `qMark`, `qDrain` | `async with runtime.lock`, queued |
| `spawn`, `port`, `probe` | `_start_locked`: spawning, waiting for the port, probing MCP |
| `tTasks`, `tTerm`, `tKill`, `tLogs` | `_terminate_locked`: awaiting the cancelled tasks, the exit after SIGTERM, the exit after SIGKILL, the log readers |
| `top`, `sleep` | `_restart_loop`: about to reserve an attempt; in the backoff |
| `mWait`, `mLogs` | `_monitor_exit`: awaiting the exit; draining the log readers under the lock |
| `cSleep` | the idle checker's sleep |
| `watch`, `dWait`, `publish` | the reload task: polling, waiting for leases, about to publish |
| `up`, `joined`, `stopped`, `down` | the lifespan: serving, checker joined, watcher stopped, over |

Correspondences worth knowing:

* **The lock.** `asyncio.Lock` is taken without suspending when it is free; its release wakes the
  first waiter, which nobody can overtake. The model hands the lock over directly (`Release`), so
  `owner` may be a task still at a `q...` label. A cancelled waiter leaves the queue, a cancelled
  owner passes the lock on (`Unlock`).
* **Time.** Timeouts and backoffs are nondeterministic ends of an await. `idle` stands for
  "the last completed activity is longer ago than the endpoint's timeout". It does not become true
  between a hand-over of the lock and the turn of the task that got it, unless the environment
  includes `stall`, an event loop that stops for as long as the idle timeout.
* **Teardown.** Each await of `_terminate_locked` is a step even if it finds nothing to wait for.
  This only adds places at which other tasks act.
* **Processes.** `os[p]` is `alive` until the loop has seen the exit, as `returncode` is. A process
  may exit at any moment, also between a successful probe and the step that sets `RUNNING`.
* **The environment.** `Environment` switches on the optional events: `idle`, `reconfigure` (a
  reload that changes the restart policy in place), `retire` (a reload that drops the endpoint),
  `shutdown`, `cancel` (of a request that waits or starts), `cancel-teardown` (of a request inside
  a teardown), `signal-error` (`killpg` raises), `stall`.
* **Ghosts.** `servedBy[r]` is the process that request `r` was given its lease on. No guard reads
  it.

Left out: log text and failure reasons, exit codes, metrics, the ports and the probe's protocol
(their outcome is nondeterministic), legacy bridge tasks (awaited between `MarkDraining` and `AwaitDrained`, see `LegacyBridge`),
unmanaged endpoints (they have no process).

### RequestLimiter

`acquire` and `_release` never suspend under the limiter's lock, so each is one action. A request
captures the configuration (`Capture`), reads its body, is rejected or admitted under that snapshot
(`Reject`, `Admit`), and gives its lease back once or twice (`Release`). `Reconfigure` replaces the
limits between any two of these, `Tick` lets time pass. `history` is a ghost: every rate-limited
admission with its limit, which pruning does not touch, so that the bucket's pruned timestamps are
judged by what really happened. Rejection by the second bucket leaves the first one alone, and the
tool's bucket is not even pruned when the endpoint's rejects (`LookedAt`).

### LegacyBridge

Five kinds of coroutine meet in a `BridgeSession`: the stream of its GET (`_stream_session`), its
expiry task, the posts to it (`handle_post`, run by request tasks that hold the two leases), the setup
task each post waits for and the response task it leaves behind. Streams, expiries, posts and the
reload have a label `pc[t]` as in `EndpointRuntime`; setup and response tasks are part of their post's
record `work[p]`.

| Label | Suspended at |
|---|---|
| `setup` | `await setup_task` |
| `qReject`, `qPublish`, `qLate`, `qClose` | `async with session.cleanup_lock`, queued: before an error body, before publication, after a response that never began, in `_close_session_object` |
| `errorBody`, `ending` | reading an upstream's error body; closing the upstream and finishing |
| `handoff`, `abort`, `abandon` | `response_started.wait()`; awaiting the response that a cancelled handoff cancelled; the same await, cancelled once more |
| `cTasks`, `cUpstreams`, `cAbort` | `_close_session_object` under the lock: awaiting the tasks it cancelled, closing upstreams, awaiting the tasks after having been cancelled itself |
| `unstarted`, `send`, `wait`, `last`, `dropped` | the stream: not begun, at a `yield`, waiting for an event or the end, at the `yield` of the terminal event, abandoned by its client |
| `watch` | the expiry task's wait; the reload before the retirement |
| `dTasks`, `dWait`, `sweep` | `cancel_legacy_tasks`, `wait_for_leases`, `close_endpoint` |

Points that matter: a task that is cancelled before its first step never reaches its `finally`
(`doomed`, then `never`), so the post that published it must keep the leases. A setup that is
cancelled may still succeed (`dying`, then `entered`), and a post must reject what it brings. `put` is
a response waiting for room in the queue; once it waits it does not look at `closed` again, and it is
only its cancellation that keeps it from queueing an event on a session that failed. When a setup is
cancelled by the closing of its session, the `CancelledError` is raised in the post: it is not
answered but ended, which the model does not tell apart. `gather` waits for its tasks even when it is
cancelled, but what the code does after it is skipped: an upstream that an abandoned post leaves open stays
with its session, which closes it in the end. Time is one flag per session, `expired`,
which `touch` clears. The cleanup lock is handed over to its first waiter as in `EndpointRuntime`.

Left out: `close_all`, which closes sessions as `close_endpoint` does, the tombstones (a post to a
session that is gone has no effect, with 404, 409 or 410), event contents, metrics, and several
endpoints.

### GatewayRequest

The handler, `_proxy_request` and the response iterators as one state machine per request. `req[r]`
holds what its frame does: the two leases, the open connection, whether the status was 500 or more,
what became of the body, how often `record_upstream_error` was called (`errors`). `failed` is a ghost: it is
set where the upstream fails, by an error status, an exchange that raises or a broken body or stream, whether
or not the handler counts that. A body that is malformed or truncated is looked at only after the upstream has
been left, and never by a handler that is cancelled in between; such a failure need not be counted. Which branch a request takes
(JSON body, event stream or other stream, SSE GET, local bridge session) is nondeterministic; the event
stream and the other streams differ in timeouts and redaction only and are one. A stream whose client
goes away at a `yield` is not closed by anyone: asyncio finalizes the abandoned generator later
(`dropped`), and the leases are held until then. `lost` is a response whose iterator was never started.

The module sees the endpoint as `up`, `draining` or `retired`. What `acquire` and
`_acquire_upstream_lease` decide is in `RequestLimiter` and `EndpointRuntime`; what a post to a bridge
session does is in `LegacyBridge`.

### Reload

The file is changed by its owner at any time (`Write`; `mtime` counts the writes, a missing file has
one too, so that its return is a change). `watcher` names where `ConfigWatcher` is:

| Value | In the code |
|---|---|
| `boot`, `stamp` | `start`: before the load, between the load and the reading of the mtime |
| `poll`, `load` | `_poll_loop`; `_reload_if_changed` between the stat, whose mtime is kept, and the load |
| `mark`, `drain`, `stop`, `close` | `apply_configuration`, for the lowest path of `todo`: waiting for the runtime's lock, for its leases, for its process to exit, for `close_endpoint` |
| `crashed`, `done` | the poll task ended by an exception it does not catch; cancelled or never started |

`Publish` is the assignment of the registry and of everything that is replaced in place, without an
await between them. A runtime is `<<path, snapshot>>`, so the runtime a request captured stays a thing
of its own after its path got another one. An endpoint's configuration is a `core`, a change of any part
of which retires the runtime, and the value `inPlace` that a file gives to all of its endpoints and to
the router. `applied` (what was published last) and `abandoned` (paths drained by a reload that failed
afterwards) are ghosts that no guard reads.

### Exchange and its decisions

`stage` names the await the handler is suspended at. What the code computes between two awaits is one
action that uses the operators of the decision modules: `Arrive` the security middleware and the
registry lookup, `ReadBody` the protocol edge and the policy, `Dispatch` the registration check under
which `_acquire_upstream_lease` hands out a lease, `AnswerJson` and `SendEvent` the projection of a
listing, `BeginText`, `SendText` and `SendTail` the streaming redactor, which is made at the first iteration,
after the start has been sent. An endpoint with a `bridge` answers a GET with a session (`OpenSession`), whose
stream sends what the bridge has queued (`SendQueued`), and hands a legacy POST to a session over to
`handle_post`, which answers it at once (`AnswerBridged`). `phase` is how far the response has been
sent: `observed_send` updates its flags after `send` returned, so a disconnect that is noticed while a
message is in flight counts by what had been sent before. A server reports that the client has gone
either through `receive` or by failing the next `send` (`reports`). `noticedIn` is a ghost.

The data are abstract, the decisions are not: a header is listed or not, a name is `a`, `b` or
absent; a pair of allow and deny lists is the set it admits; a text is a sequence of symbols. The
redactor's marker is a symbol of its own, which assumes that no secret overlaps the text `[REDACTED]`.
A request captures the endpoint's configuration when it is routed: a JSON body is projected by the
captured policy, an event of its own response by the one in force when it is sent. What a bridge's session
sends is left abstract: the response task of a post projects it by the policy captured with that post
(`compat/legacy_sse.py:392`), however old. So is the choice of cache headers (`server.py:938`).

## 3. Runs

| Run | Asks | Instance |
|---|---|---|
| `runtime_safety` | the safety properties of the lifecycle and its refinement | 2 requests, 2 supervisors, 2 processes, budgets 0 to 2; idle, reconfigure, retire, shutdown, cancel; 1.5 million states |
| `runtime_faults` | what survives teardowns cut short, unsendable signals and stalls | the same sets, budgets 0 and 2 |
| `runtime_liveness` | answers, retirement, retries and shutdown | 2 requests, 1 supervisor, 1 process, budget 1, `FairSpec` |
| `reload` | all properties of reloads | 2 paths, 4 cores, 4 contents and no file, 2 writes, 1 request; every event |
| `exchange` | all properties of an exchange | callers and envelopes that differ in one or two points, 4 configurations, texts of up to 5 symbols, events of up to 3 lines |
| `limiter` | all limiter properties | 3 requests, endpoint and tool, 3 configurations, window of 2 ticks, 3 instants |
| `bridge_safety` | all safety properties of the bridge | 1 session, 3 posts, a queue of 1; expiry, retirement, cancelled posts, streams cancelled twice |
| `bridge_liveness` | answers, retirement, terminal events and release | 1 session, 2 posts, a queue of 1; expiry, retirement, cancelled posts, late and second cancellations, `FairSpec` |
| `requests` | all properties of a request's life | 3 requests; retirement, cancellation, streams that never start |
| `cancelled_teardown` | violation: see findings | 2 requests, no restarts |
| `bridge_late_cancel` | violation: see findings | 1 session, 1 post |
| `unstarted_stream` | violation: see findings | 1 request |

Three more configurations, `MCEndpointRuntime_unexpected_exit.cfg`, `MCEndpointRuntime_open_stream.cfg` and
`MCLegacyBridge_cancel_abort.cfg`, are demonstrations outside this list; each ends in a counterexample (section 4).

**The properties of a runtime.** `NoOrphan`: a live process is the one the runtime refers to.
`OneSupervisor`, `FailureIsSupervised`: exactly the restart loop
that `restart_task` names acts, and a `FAILED` runtime with an attempt left always has one,
although loops end, policies change in place and failures are reported in between.
`DeathIsNoticed`: a dead process under `RUNNING` has a monitor that has yet to report it.
`NoKillUnderLease`: no signal while a request holds a lease on that very process, though leases are
taken without the lock. It is checked in `runtime_faults`, under the harder environment; that it holds with
retirements too is a theorem (`LeasesProtect`). `ImplementsLifecycle`: every step of every task is a step of
`EndpointLifecycle` or a stutter; that a retired runtime never comes up again is part of it. `NothingSurvivesShutdown`: no process, lease or
restart loop remains, although shutdown cancels the checker and the reload in mid-termination.
`BudgetIsKept`: demand neither restarts a failed runtime nor resets its attempts.

**The properties of the limiter.** `SlotsAreAccountedFor`: `active` counts exactly the leases in
force. `LoadFitsLimits`: at most n requests in flight were admitted under limits of n or less; with
constant limits this is `active <= max_concurrent`, and across reloads it is what is left of it.
`EveryWindowFits`: in every window of a minute, the admissions fit the limit of the latest of them.
`RejectionsAreDue`: a rejection happens only when the slots are taken or the last minute is full.

**The properties of the bridge.** `OpenUnderLease`: an upstream context is open only under the leases of
its post, wherever closing, draining or a cancellation meets the setup, the publication or the
handoff. `LeasesHaveOwners`: at each moment the post or a response that has begun will release them.
`RetiredIsQuiet`: once retirement has cancelled the bridge's tasks no setup or response is alive again,
and when the new registry is published nothing of the bridge is left. `SessionsEndOnce`: an addressable session has
its expiry task, nothing is queued behind a terminal event, and of the expiry task and the posts that
find a session expired only one counts it. `PostsAreAnswered` and `RetirementCompletes` say that the cleanup
lock, the tasks awaited while it is held and the handoff do not wait for each other, nor for a client that
neither reads nor leaves. The other two are conditional on a client that does one of them (`ClientsConsume`):
`FailureIsTold`, it gets the terminal event before its stream ends, and `ClosedIsReleased`, a closed session is
given up.

**The properties of a request.** `LeasesHaveOwners` and `UpstreamUnderLease`: every path returns both
leases, and not before the upstream has been left for the last time, the retry included.
`RetiredIsQuiet`: a request that looked the endpoint up before its retirement never talks to it
afterwards. `FailuresCountedOnce`: an upstream that fails is counted exactly once for the request, an error
status followed by a failure of the body, a retry or a broken stream included (`docs/compatibility-matrix.md:161`),
and a request whose upstream did not fail, a cancelled one too, is not counted. The failure is recorded
independently of the count, so that one that the handler misses violates this as well.

**The properties of reloads.** `PortsAreExclusive`: no two live processes have one port, whatever a file
renames, swaps or removes. `OneSnapshot`: registry, endpoint configurations and security snapshot are
those of one file, also while a reload drains and after one that failed. `RetiredIsGone`: a dropped
runtime has no process, lease or legacy session, although requests still refer to it. `DrainingEnds`: an
endpoint turns requests away as draining only while somebody stops it, or after a reload that failed.
`NothingSurvivesShutdown`: as for one runtime, for all that a reload or a sweep was in the middle of.
`ChangesAreApplied`: a valid file is applied in the end, whether it changes while it is read and
whatever goes on in the endpoints it retires.

**The properties of an exchange.** `DispatchIsAuthorized`: host, peer, origin, credential, method and every
name in the body have been judged before the upstream is asked, all by the configuration that was read
together, and the runtime is still the one they were judged for. `ModernIsHonoured`: a request with any
sign of the modern revision is never handled as a legacy one. `StreamIsRedacted`: for each cut of a text into
chunks, what was sent and what is carried is the redaction of the whole, and nothing is carried without
need. `NoSecretIsSent`: that redaction is one, since no secret is in what was sent, not even one that the
replacement of another might have brought together. `CancellationsCountedOnce`: in each order of sends, disconnect and cancellation the counter agrees
with the phase in which the disconnect was first noticed. `ListingsMatchCalls`: a listing in the answer to a
request, a JSON body or an event, has exactly the entries that its policy lets the client call, and an event keeps
its other lines. It says nothing of the events of a bridge's session.

**Bounds.** `Requests` bounds the handlers that are active at once, not the number of requests: each
serves one after another. Two suffice for a start, a second request queued behind it and one that
arrives later; three requests only repeat the second one's position in the queue. `Supervisors` and
`Procs` are identities that are reused as soon as nothing refers to them: two allow an old process
or loop to be still on its way out while a new one begins. A spawn with no identity free waits. The
budget reaches 2 so that a reload can both lower and raise it below and above the attempts made,
and an attempt can be reserved under one policy and judged under another. In the limiter, three
requests overfill a limit of two, and a window of two ticks over three instants has an admission
leave the window exactly at its boundary. In the bridge, sessions share nothing but
`max_sessions` and the retirement, so one session is the interesting case; three posts let one response
fail while a second waits for room in the queue and a third is in setup or handoff. A queue of one is
full after one event, and an event is consumed while others wait. The requests of `GatewayRequest` meet only in the retirement, and
three have one before, one at and one after their lease. The run of `runtime_liveness` is smaller because TLC
checks liveness without symmetry; each identity set still has what its properties need (a second
request, a restart after a failure).
In `Reload`, two of the managed cores share a port, one has its own and one endpoint is remote; the four
files are a base, one that moves a core to the other path and drops the latter, one that then adds a remote
endpoint beside it, and one that is invalid because two endpoints share a port. Two writes reach every ordered
pair of them, a change during a drain and a change during the load. One request is enough for
a lease that outlives a publication; two requests on one runtime are the matter of `EndpointRuntime`. In
`Exchange` the secrets overlap themselves and each other (`121` and `22`, `11` and `1`), so that moving the
cut back once is not enough; five symbols hold the longest secret twice, overlapping.

**Fairness.** `LoopFairness`: asyncio runs each ready task; awaits with a timeout end (readiness, 3 s
for SIGTERM, the backoff); SIGKILL ends a process. It does not include arrivals, cancellations,
reloads, the exit of a process by itself, the passing of idle time or the end of a response.
`FairSpec` adds that responses end. `upstream_timeout` gives this for complete JSON responses only
(`docs/configuration.md:66`); event streams have no read timeout by design, and `OpenStreamSpec`
is the specification without it.

The bridge's `BridgeFairness` is the same: tasks run, and the awaits that have a timeout end (setup, error
body, a full queue). An upstream's event stream need not end. `FairSpec` assumes no more than this, and nothing of
the client. `ClientsConsume`, a condition of two properties and no part of the specification, says that a client reads
what it is sent or goes away; without that a terminal event may be stuck behind a client that does
neither.

`Reload!FairSpec`: the watcher, the lifespan, the sweep and starts go on, `upstream_timeout` ends responses, a process
that somebody is stopping dies (SIGKILL). `MarkDraining` has strong fairness, since the lock it waits for is
taken by others in between and `asyncio.Lock` is first come, first served. Writes, exits, restarts, idle
sweeps and the shutdown are not assumed to happen.

Deadlock is checked in every run: where nothing can happen any
more there is an explicit stuttering step: after the lifespan has ended, when every session of the
bridge is closed (a post is refused, `PostRefused`), and when every request of `GatewayRequest` is one
whose iterator was lost (`Exhausted`).

## 4. Findings

Each of these is a run of the list that ends in a counterexample.

* **`cancelled_teardown`** (`core/process_manager.py:169`). `docs/configuration.md:185` says that a
  cancelled startup cannot leave an orphan that a later request could duplicate. It can when a
  cancellation arrives while the teardown of that startup awaits the process: the runtime stays
  `STARTING` with a free lock, a live process and no monitor, and the next request overwrites the
  reference to it with a second process.
* **`bridge_late_cancel`** (`compat/legacy_sse.py:284`). `docs/configuration.md:148` says that every entered
  upstream response context is adapter-owned. It is only from its registration in
  `session.upstreams` on. A post that is cancelled when its setup task is done, or while it waits for
  `cleanup_lock` to publish, gives its leases back and drops the context without leaving it; no later
  closing knows of it.
* **`unstarted_stream`** (`server.py:642`). `docs/configuration.md:130` says that streaming responses hold their
  leases until the downstream stream closes, and `docs/configuration.md:66` that downstream cancellation closes
  the upstream response. Both are up to the `finally` blocks of `leased_iterator` and of the generator it
  wraps, and a generator that was never started has none to run: a proxied response then keeps the upstream and
  both leases for good. This happens when the response ends before its first chunk
  is asked for, as when the send of its start fails (ASGI 2.4, which `docs/threat-model.md:28` supports).

Three further disagreements have a configuration but are not in the run list:

* `MCEndpointRuntime_unexpected_exit.cfg` (`core/process_manager.py:59`). `docs/configuration.md:187` says
  that an unexpected exit transitions the runtime to `FAILED` and that recovery is supervisor-owned. A
  request that waits for the lock behind a start is ahead of the exit monitor in the queue. If the
  process dies just after it became ready, that request finds `RUNNING` with a dead process, resets
  `restart_attempts` and starts another one on demand; the exit is never reported.
* `MCEndpointRuntime_open_stream.cfg` (`core/runtime.py:79`). `.refactor/PRD.md:1033` asks to wait for
  leases "up to the drain timeout". There is none: one response that stays open blocks the retirement,
  and with it every other reload.
* `MCLegacyBridge_cancel_abort.cfg` (`compat/legacy_sse.py:485`). `docs/configuration.md:148` says that if the published
  task is cancelled before its first step, the request closes the entered upstream and releases both leases
  itself. A request cancelled in the handoff awaits the task it has cancelled before it does so. A second
  cancellation at that await skips the closing (line 487), while `server.py:1234` still releases the leases: the
  upstream is open without them until the session is closed.

Where a property ends: each of these fails outside the environment it is claimed under.

* `NoOrphan` fails under `signal-error`: the reference to a process that could not be signalled is dropped.
* `ImplementsLifecycle` fails under `stall` together with `retire`, and with it what `RetiredForGood` proves and
  `NoKillUnderLease`: the idle checker's second critical section may follow the retirement's mark and turn
  `DRAINING` back into `STOPPED`; demand then starts a process, gives leases on it, and the retirement stops it.
* `OpenUnderLease` fails under `late-cancel` and under `cancel-abort`, as shown above. After a `cancel-abort` the
  retirement still closes the upstream, which its session knows; after a `late-cancel` nobody does, and
  `RetiredIsQuiet` fails too.
* The bridge's `ClosedIsReleased` fails under `cancel-again`. A second cancellation of a stream that is
  inside `_close_session_object` (`compat/legacy_sse.py:661`, `683` or `687`) skips the rest of the cleanup, and the
  session stays owned until its endpoint is retired or the gateway stops.

Behaviours that no document contradicts, met while modelling and kept in the models:

* `ConfigWatcher.start` reads the mtime after the load and the first activation (`core/config_loader.py:578`):
  a write in between is stamped as seen and is not applied until the next one.
* `_poll_loop` catches three kinds of error (`core/config_loader.py:617`). Any other ends the task, no later
  change is applied, and `stop` raises it again, so that the rest of the lifespan's shutdown is skipped.
* An endpoint that a failed reload had drained stays `DRAINING` in the registry in use, and turns requests
  away, even if the file returns to what it was.
* A request that captured its endpoint before `close_all` may still open a bridge session after it.
* An event stream that is quiet notices under ASGI 2.4 that its client has gone at its next send only.
* A disconnect before the response has started is logged as cancelled, with the status that is sent
  afterwards.
* JSON bodies are projected by the policy captured with the request, events of its response by the one in force
  when they are sent, and the events of a bridge's session by the policy captured with the post they answer
  (`compat/legacy_sse.py:392`): after a reload the two kinds of streams differ.

## 5. Proofs

TLAPS checks these for any number of requests, supervisors, processes, tools, endpoints, configurations and
writes to the file, any budgets and windows, sessions and posts. TLC checks the same properties on the instances of section 3.

| Module | Theorems | Assumes |
|---|---|---|
| `EndpointRuntimeProofs` | `TypeCorrect`, `SingleSupervisor`, `LockExcludes` | nothing of the environment |
| | `LockCovers`, `NoOrphanEver` | `TeardownsEnd` |
| `EndpointSafetyProofs` | `RuntimeImplementsLifecycle`, `DeathsNoticed`, `FailuresSupervised`, `RetiredForGood`, `NothingSurvives` | `Orderly` |
| | `LeasesProtect` | `Prompt` |
| | `BudgetsKept` | nothing of the environment |
| `RequestLimiterProofs` | `TypeCorrect`, `SlotsAccounted`, `LoadFits`, `WindowsFit`, `RejectionsDue` | |
| `GatewayRequestProofs` | `TypeCorrect`, `LeasesOwned`, `TalksUnderLease`, `QuietWhenRetired`, `CountedOnce` | nothing of the environment |
| `LegacyBridgeProofs` | `TypeCorrect`, `LeasesOwned`, `EndedOnce` | nothing of the environment |
| | `RetiredQuiet` | no `late-cancel` |
| | `UpstreamsUnderLease` | neither `late-cancel` nor `cancel-abort` |
| `ReloadProofs` | `TypeCorrect`, `SingleSnapshot`, `RetiredGone`, `PortsExclusive`, `DrainingEnded`, `NothingSurvives` | nothing of the environment |
| `ExchangeProofs` | `OnlyAuthorized`, `ModernHonoured`, `CountedOnce`, `StreamRedacted`, `SecretsKept`, `ListingsMatch` | nothing of the environment |

`TeardownsEnd` says that the environment has neither `cancel-teardown` nor `signal-error`; `Orderly` adds
that it has no `stall`; `Prompt` says only that it has not both `stall` and `retire`. Section 4 shows that
these, and the absence of `late-cancel` and `cancel-abort`, are needed.

**`EndpointRuntimeProofs`.** `TypeCorrect` says of each task that it is at a label of its own coroutine.
`OneSupervisor` is inductive on top of it: a loop is only made when none is alive, and whoever overwrites
`restart_task` has cancelled the loop it named. `NoOrphan` is not inductive: a step of a task "inside" a
start or a teardown that did not own the lock would break it. The inductive invariant `ProcessInv` is
`TypeOK /\ LockCoversLifecycle /\ NoOrphan`: only the owner of the lock is at a label of a start, teardown
or exit report; so when `Spawn` happens nobody else is between reading and writing `process`, the runtime
refers to no live process, and the new one is the only one. The lemmas treat the shared steps
(`BeginStart`, `EnterTerminate`, `Release`, `Unlock`, `Schedule`) once; the preservation proof has one
step per action. Where a teardown may be cut short, less is left, and `LockExcludes` says what: who is inside
is the owner, and a start and its teardown are inside `STARTING` (`LockInv`, inductive with `TypeOK`).

**`EndpointSafetyProofs`, the refinement.** Every step of the runtime is a step of `EndpointLifecycle` or a stutter, under
the mapping of section 2. Besides `ProcessInv` this takes two facts that no lock gives. `QueueInv`: the lock has
waiters only while it is taken, and one that has been handed over is not used on a runtime that is running and
idle, so an idle stop finds no waiter between its two critical sections. `StopInv`: what each teardown relies on.
From the moment a retirement has seen the leases gone, there are none and `state` is `DRAINING` until it is
through; a teardown leaves the state its own caller asked for, and no idle stop runs in a retirement. The
simulation (`Simulates`) has one lemma per coroutine.

**`EndpointSafetyProofs`, the safety properties.** On top of `RefinementInv`, in two layers. `WatchInv`: a live
or unreported process under `RUNNING` has the monitor that watches it: `DeathIsNoticed`.
`SupervisionInv`: a reserved attempt is counted in `restart_attempts`, so a loop that gives up leaves no
attempt unused (`RecoveryInv`), and from the publication on there is neither a loop nor, after the
lifespan, a process or a lease (`EndInv`): `FailureIsSupervised` and `NothingSurvivesShutdown`.
`RetiredForGood` is about each single step: `RetiredStaysDown` is a corollary of the refinement that is
worth a statement of its own, and is not in a run since `ImplementsLifecycle` implies it.
`BudgetIsKept` is an action property; it needs `TypeOK` only.
`NoKillUnderLease` is proved without `RefinementInv`, since leases survive more than the lifecycle does: signals
that fail, teardowns that are cancelled, and either of a stall and a retirement. `LeaseInv` rests on `LockInv`
alone. A process that is started or stopped has no lease on it, nor has one that a cancelled teardown left behind
while the runtime is down (`ClearInv`); whoever ends a runtime has seen the last lease returned, and it stays
`DRAINING`, where no lease is given, until that task is through (`EndsInv`). An idle stop that has to queue for the
lock again could be overtaken by a retirement and end its `DRAINING`; without a stall it never has to (`TurnInv`,
which is `QueueInv` again), and without `retire` there is none to meet. TLC checked the invariant first, with
every event but `retire` and with every event but `stall`.

**`RequestLimiterProofs`.** `SlotsAccounted` by a bookkeeping invariant (which requests hold which keys, that
a held key was limited in the snapshot captured) and the cardinality of a set of holders that gains or loses
one element. `LoadFits`: a newcomer is admitted only if all holders together number less than its limit;
the peers of an older holder gain the newcomer only if the newcomer's limit is no higher than that
holder's, and then all holders together already fit it.
`WindowsFit` and `RejectionsDue` judge a bucket by the ghost `history`, which nobody prunes. `RateInv` links the two:
a bucket's timestamps are those of the latest admissions and every one that has left it is stale (`Remembers`), so
that what `Recent` counts is what was admitted in the last minute; and the admission that lies as many places before
another as the rate of that one allows is at least a minute older (`Spaced`), which holds for good, whatever limits
come later. A window whose latest admission has a rate of n then begins after the admission n places before it.

**`GatewayRequestProofs`.** Requests meet only in the runtime, so the inductive invariant `RequestInv` is a
predicate `Sound` of one request's record and label (where leases are held and a connection may be open;
what has been counted at each label), and that a retired runtime has no lease. `StepOfOne` reduces a step of
a request to the soundness of its new record; one lemma per helper says what it does to a record.

**`LegacyBridgeProofs`.** The inductive invariant `BridgeInv` has a part for each kind of thing that others change
while a task is suspended. `PostsInv`: at each label, `Sound` says what the post may find in its work; it is
closed under cancellation (`SoundWhenCancelled`), so that closing a session or retiring the endpoint may
cancel any post's work without a case for each of its labels. `StageInv` and `QuietInv`: a closed session stays
closed, only a closed one is cleaned up, a session that has failed has nobody waiting to queue, and one that
is given up has no task left. `CleanupInv`: whoever is past the gathering of the tasks finds them ended.
`RetireInv`: how far the retirement has come, and that nothing begins behind it. A step may touch the work of
many posts and the labels of many tasks, but only in a few ways: `Continues` says that it begins nothing on a
session that is not open or an endpoint that drains, and from this alone `StagesStay`, `CleanupsStay` and
`RetirementStays` give the parts that are about sessions, cleanups and the retirement. `StartClose`, which a
stream, an expiry, a post and the reload share, is proved once (`CloseBegins`). `late-cancel` enters in one
place: an idle post without leases may leave an `entered` upstream behind. A post that `cancel-abort` ends may
leave a tracked one. `TrackedInv` says that it stays in the upstreams of its session, and that a session that is
given up has none, so that the retirement is quiet nevertheless.

**`ReloadProofs`.** The inductive invariant `ReloadsInv` says, besides the properties, how far a reload or a cleanup
has come and what it may rely on: the paths it has retired are `Gone`, and nothing comes back to a runtime that is
`DRAINING` and not the sweep's (`ReloadInv`, `CleanupInv`, `DrainInv`); a runtime is made by the publication that
counts its number, so that the numbers of the registry are never reused (`RuntimesInv`); and each publication has
read a later version of the file than the one before, which bounds them (`CountInv`). The steps fall into three
kinds, each with a lemma for the parts it may disturb. In a `ServiceStep` requests, starts, exits and the sweep
change what runtimes do (`ServiceKeeps`). In a `QuietStep` the watcher and the lifespan mark a runtime or close
sessions (`QuietKeeps`). The publication is the one step that changes the registry: `Published` says which
runtimes leave, stay and are made, and `PublishKeeps` that only runtimes that are gone may leave.
`PortsExclusive` combines the rest: a live process is of a registered runtime, the registry is of one file, and a
file that loads gives no port to two endpoints. `LowestIs` (`sorted` of a nonempty set of paths has a first one)
is why `Paths` are finite.

**`ExchangeProofs`.** `CallerInv` and `BodyInv` say what admission has judged at each stage, and by which captured
configuration and endpoint; `LeaseInv` that the lease is on the runtime in force. `StepsAside`: every step but four
leaves what was judged alone or ends its use, so that only `Arrive`, `ReadBody`, `Admit` and `Dispatch` are looked at
(`JudgedKeeps`). `OnlyAuthorized` then rests on what the two checks say of one caller and one envelope
(`VouchedFor`, `AllowedNames`), `ModernHonoured` on the order of `Era`. `SightInv` is the record of one response: the
latch is set exactly when the client was first seen to be gone in part of the response, and a server that fails sends
instead of reporting the disconnect can only have been noticed before the start.
`StreamRedacted` and `SecretsKept` rest on `StreamInv`: what was received, is carried and was sent are `Streamed` (below).
`ListingsMatch` rests on `EventInv`, that the runtime in force is the one that streams, so that there is a policy to
project by, and on what `TransformEvent` makes of an event's lines (`EventIsListing`).

**`ResponseProofs`.** What loops compute, for inputs of any length. The provers cannot use an induction rule about a
predicate, but they can use one about a set of numbers: `Least` (a nonempty set of naturals has a least element) comes
from the well-foundedness of `<`, `Upwards` and `Downwards` from it, and each lemma about a loop applies one of these
to the set of positions at which its claim holds.
A text passes through one replacement per secret, so the redaction of a whole says nothing of its parts unless
no occurrence of any secret, in any of the intermediate texts, lies across the seam. `SeamKept` is the step:
a replacement brings no other secret to lie across a seam, because next to the seam there is, up to the nearest
marker, what was there before (`ReplaceKeepsEnds`). `RedactOfParts` follows by induction on the secrets.
`CutSettles` and `CutIs` say that the cut, moved to the first occurrence that straddles it again and again, ends where
none does, and at the latest place of that kind. Since `feed` holds back one symbol less than the longest secret has
(`OverlapIs`), a secret that begins before the cut has been received whole and cannot be completed by a later chunk
(`ChunkParts`). So `Streamed`, the invariant of `StreamingSecretRedactor`, is kept by each chunk (`ChunkStreamed`) and
by the end (`TailStreamed`). `RedactFrees` is the reason for `SecretsKept`: a replacement leaves no occurrence of its
secret (`ReplaceFrees`), and what is left between the markers was there before (`ReplaceKeepsRuns`), so that later ones
bring none about.
For events, `LinesOf` takes the lines of a field in their order, and `ReplaceInPlace` and `ReplaceElsewhere` say which
lines `ReplaceData` changes and which it leaves alone, wherever they stand among the others.

The assumptions on constants are `TasksAssumption` (identities are distinct), `BudgetsAssumption` and
`EnvironmentAssumption` of `EndpointRuntime`; `KeysAssumption`, `RequestsAssumption` (finitely many requests),
`ConfigsAssumption` (limits are positive or `None`, as the schema validates) and `TimeAssumption` of
`RequestLimiter`; `BridgeBounds`, `BridgeEvents` and `RequestEvents` of the bridge and the request;
`ReloadAssumption` and `NoneAssumption` (`None` is no other value) of `Reload`; `RequestsAssumption`, `ConfigsAssumption`,
and `NoneAssumption` of `Exchange`; `SymbolsAssumption` (the redactor's marker is no symbol of a secret) of `Redaction`; `BridgeTasks` (identities are distinct) of the bridge. TLC evaluates them in every run.

Only model-checked: the liveness properties, since liveness under fairness is out of the prover's reach (it needs
`ENABLED`). Every invariant and action property of a passing run is a theorem under assumptions that its run meets.

## 6. Plan

Done: the lifecycle and its refinement, for TLC and as a theorem; the theorems about a runtime, the limiter, requests, the bridge, reloads and exchanges,
with the redaction of streams and the framing of events;
`Reload` over several endpoints; the pure decisions and `Exchange`, which puts them in the order of the code.

Left:

1. **An abstract lease**: what a request, a limiter and a runtime promise each other, implemented by
   `GatewayRequest` and by `LegacyBridge`.

### Not modelled

* Duplicate headers, the forwarding of headers and the sanitising of response headers: functions of one
  message, without state.
* The bridge's tombstones and `close_all`: a post to a closed session is refused whatever the code it gets.
* A secret that overlaps the redactor's own marker: `Redaction` has the marker as a symbol of its own.
* The `key = value` pattern that the redactor masks besides the known secrets, and the formula of the
  backoff (any delay is covered: time is nondeterministic).
* The configuration schema's validators and environment expansion: functions of text. Their outcome, a
  configuration or a rejection of the whole, is what `Reload` works with.
* `main.py` (argument parsing), the formatting of logs and metrics, the HTTP client's sockets, the CI
  assessment runner: no state that the rest depends on.
