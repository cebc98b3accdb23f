# A TLA+ model of the code-execution gateway

The gateway (`gateway/app.py`, `gateway/state.py`) lets authenticated clients
create sandbox containers, run code in them and render documents. This
directory holds TLA+ modules that model its core, TLC configurations that check
them on small instances, and proofs, checked by TLAPS, of what matters most for
every value of the constants.

    tlc -workers 2 -config sess_lock.cfg MCGatewaySessions.tla     # a run
    tlc -workers 2 -config shared_exec.cfg MCSharedSessions.tla
    tlc -workers 2 -config sandbox.cfg MCSandbox.tla
    tlapm GatewaySessions_proofs.tla                               # proofs
    tlapm GatewayLimits_proofs.tla
    tlapm RateLimiter_proofs.tla
    tlapm RenderJobs_proofs.tla
    tlapm SharedSessions_proofs.tla
    tlapm Rendering_proofs.tla
    tlapm Executor_proofs.tla

## 1. The system

| Component | Where | State it keeps | Operations |
|---|---|---|---|
| Session lifecycle | `app.py` 814-1026, 2231-2349, 2814-2897 | none of its own; works on the store and on docker | `create_container`, `get_container`, `delete_container`, `ensure_session_access`, `enforce_container_creation_limits` |
| Execution | `app.py` 2352-2536, 2901-2990 | `execution_semaphore`, metrics | `execute_code`, `run_code_in_sandbox`, `run_exec_with_timeout` |
| Removal and recovery | `app.py` 901-925, 1029-1203 | the snapshot of one cleanup iteration | `remove_container`, `cleanup_idle_containers`, `recover_or_remove_managed_container`, `lifespan` |
| In-memory store | `state.py` 112-209 | `sessions`, `_exec_locks`, `_creation_lock`, `rate_limit_state` | get/save/touch/delete/list, rate limit, creation guard, execution lock |
| Redis store | `state.py` 212-443 | session hashes with TTL, an index set, rate-limit sorted sets, lock leases | the same, none of them atomic with another |
| Rate limiting | `state.py` 159-182, 332-353, `app.py` 983 | hits per bucket | `allow_within_rate_limit` |
| Render endpoints | `app.py` 1664-1855, 2593-2810 | `render_semaphore`, metrics | one short-lived container per job |
| Admission | `app.py` 502-805, 1226-1350, 1356-1625 | metrics | configuration check, authentication, body limits, request validation |
| Provisioning | `app.py` 1945-2215 | files in a container | `.env` file, input files, result files |
| Executor | `sandbox/executor.py` | processes and `/tmp/output` of one execution | install, run, time out, collect |
| Slide renderer | `sandbox/slide_renderer/*`, `render_presentation.py` | browser pages of one job | render, export |
| LaTeX renderer | `sandbox/render_latex.py` | build directory of one job | passes, limits |
| Version helpers | `gateway/version.py`, `.github/scripts/bump_version.py` | a version string | resolve, bump |

How they interact. A request handler is a coroutine on one event loop. It reads
and writes the store, and calls docker in worker threads
(`asyncio.to_thread`); the cleanup task does the same every minute. The store
and docker are two memories that nothing keeps in step: a session record says
that a container exists and how much of its budget is spent, docker says whether
it does. What a handler knows is what it read before its last `await`.

What is hard. In the in-memory configuration the store never suspends, so the
races are those across docker calls: sessions deleted, recovered, saved or
expired while a handler waits for docker, lock objects that are dropped from
their table while held, removals whose answer is lost, a cleanup task that acts
on a snapshot, a crash that forgets every session and leaves every container.
With Redis every store call suspends as well, and locks are leases.
`PROJECT.json` lists these hazards at the lines where they bite.

What makes each component correct:

- sessions: a container that exists is not forgotten by the gateway that knows
  it; limits hold per principal and in total; budgets hold; what is answered
  about a removal is true; everything is removed in the end;
- execution: one execution at a time in a container; slots and locks come back
  on every path; every request ends;
- cleanup: only idle or expired sessions are removed, and all containers are
  reclaimed, after failures and restarts too;
- rate limiting: at most `limit` admissions in every window;
- render jobs: at most `RENDER_MAX_CONCURRENT` at a time, every container
  removed, gauges return to their value;
- executor and renderers: nothing of one run is left for the next; output limits
  hold; timeouts end everything that was started.

## 2. Modules

| Module | Models |
|---|---|
| `GatewaySessions` | one gateway on the in-memory store: lifecycle, execution, removal, cleanup, startup, crash |
| `SessionContract` | what a session layer promises, whatever the store (abstract) |
| `SharedSessions` | several gateways on the Redis store: the same operations, every command a step, locks as leases |
| `RateLimiter` | the sliding window of one bucket, in memory and on Redis |
| `RenderJobs` | the two render endpoints, their containers, the worker threads, the cleanup task |
| `Executor` | `executor.py` and the processes of the user, over the executions of a session |
| `LatexRender` | `render_latex.py`, and what the gateway lets through to it |
| `RenderConfiguration` | the settings of slide rendering, validated by the gateway and by the renderer (operators) |
| `SlideRender` | `render_presentation.py` and `slide_renderer`: one deck, two tasks; extends `RenderConfiguration` |
| `Sandbox` | composition of `Executor`, `LatexRender` and `SlideRender`: what runs in a container |
| `MCGatewaySessions`, `MCSharedSessions`, `MCRateLimiter`, `MCRenderJobs`, `MCSandbox` | constants of small instances |
| `GatewaySessions_proofs` | inductive invariant; type correctness, lock exclusion, refinement |
| `GatewayLimits_proofs` | inductive invariants; slots, one execution, removal claims, session quota, execution budget |
| `SessionContract_proofs` | the contract implies mutual exclusion |
| `RateLimiter_proofs` | inductive invariant; window bound, repeated calls, justified refusals |
| `RenderJobs_proofs` | inductive invariant; slots, metrics, removal, no rendering cut short |
| `SharedSessions_proofs` | inductive invariants; types, exclusion by leases, one execution, quota, usable creations |
| `Rendering_proofs` | inductive invariants of the two rendering programs in `Sandbox`; what LaTeX and slides are answered with, the quiet stop |
| `Executor_proofs` | inductive invariants of the executor in `Sandbox`; containment, files, limits of a result, types |

### GatewaySessions

One step is what a handler does between two suspension points; `pc[r]` is the
suspension point it is parked at. The points are

- `c_guard`, `x_slot`, `x_lock`: the timed waits for the creation guard, for a
  slot and for the container lock;
- `c_run`/`c_ran`, `a_get`/`a_got`, `g_get`, `x_get`/`x_got`, `x_prep`,
  `x_start`, `x_run`/`x_out`, `rm_get`, `rm_kill`, `rm_remove`/`rm_confirm`:
  docker calls. Where docker's answer may be outdated when the handler resumes
  the call is two steps, docker's and the handler's;
- `sleep`, `scan`, `listed`: the cleanup task.

| State | Code |
|---|---|
| `box`, `running` | docker: status, labels and times of a container, executions alive in it |
| `sessions`, `heap` | `InMemoryStateBackend.sessions`. Sessions are Python objects that handlers keep references to, so a record is an object identity and its contents are in `heap`; `obj[r]` is the reference of `run_code_in_sandbox` |
| `lockTable`, `locked`, `lock` | `_exec_locks`, which lock objects are held, and the object a handler waits for or holds |
| `slots`, `creating` | `execution_semaphore`, `_creation_lock` |
| `op`, `cid`, `end` | endpoint, container and pending answer of a handler |
| `snap`, `todo`, `listed` | `sessions`, `idle_ids`, `managed_containers` of a cleanup iteration |
| `admitted`, `faults`, `restarts` | history and bounds |

Each action is a piece of one function, named in its comment and in the `map` of
`PROJECT.json`. `remove_container` is one group of actions (`RmGet` to
`RmRaises`) shared by handlers and the cleanup task, like in the code; it starts
at `rm_kill` when the caller passes the container and at `rm_get` when it does
not. `Leave` stands for the `finally` clauses and context managers a handler
passes on its way out.

Abstractions. Code, files, packages and results carry no data. A principal is
the pair of subject and tenant. The rate limiter may refuse any execution (a
creation it refuses never begins). The time-outs of the waits may fire at any
moment. A docker failure is any error that the handler does not expect at that
call; `kill`'s are suppressed, `remove`'s are reported or propagate. Uploads,
the `.env` file and `exec_create` are one step that needs a running container.
One docker daemon, whose identity is known; worker threads are never exhausted;
no client names a container by anything but its id.

The model explains a design decision that the code does not state: the lock
table entry of a container is deleted with its session while requests may hold
or await the lock object. That is harmless as long as the container is gone by
then, which is why `delete_session` must come after a confirmed removal.

### SessionContract

For each container: it appears at most once and never comes back; while it
exists, a session record that exists stays (`Remembers`); only a request about a
recorded container enters the execution lock, and only when nobody else is in it
as long as the container exists (`Enters`); a crash empties the locks and may
change what is recorded. `GatewaySessions` implements it with
`phase` from docker's status, `tracked` from the store, `holders` from the
handlers past `execution_lock`, and `epoch` from the crashes.

### SharedSessions

With Redis nothing is shared in memory and every store call suspends, so a step
is one command, one `MULTI` pipeline or one docker call, and what a handler knows
is the copy it read (`act[a].copy`).

| State | Code |
|---|---|
| `hash`, `dies` | `gateway:session:<id>`, and when Redis expires that key (`_session_ttl`) |
| `index` | `gateway:sessions:index` |
| `guard`, `xlock` | `gateway:lock:container-create`, `gateway:lock:exec:<id>`: owner and end of the lease |
| `box`, `running` | docker, with the daemon that has a container; the executions alive in it: whose, and since when |
| `act` | requests and gateways: suspension point, container and local variables. A gateway is also its own cleanup task and its own startup |
| `known`, `admitted`, `disowned`, `crashes` | history and bounds; `disowned` are the containers a recovery found without a session and chose to remove |

`save_session` is `HSET`, `EXPIRE` and `SADD` in one transaction, `touch_session`
a read and a later write without `SADD`, `list_sessions` `SMEMBERS`, a pipeline
of `HGETALL`, and `SREM` of the ids without a hash (`ListMembers`, `ListHashes`,
`ListStale`). A lease ends by `Release`, which deletes the key only while it
holds the caller's token, or by `Tick`, when Redis drops it. `Crash` ends one
gateway with its handlers; its leases, its sessions and the user code it started
stay, and `Start` lists and recovers what docker has. `RequireSharedState` is the set
of gateways that run with the setting of that name: they remove a container without a
session, the others recover it from its labels.

Docker answers every call, there is one principal, and `kill` with `remove` is
one step: failures of docker are `GatewaySessions`'s subject. Assumptions about time
are constants. `MaxHold`: a handler that lives stays inside a lock for less than
the lease, which neither the docker client's timeouts nor the code enforce (the
execution lease is the timeout plus 40 s, each docker call may take longer); the
exclusion properties mean nothing without it. `RunTime`: the executor ends user
code by itself after `EXEC_TIMEOUT`, whether a gateway waits for it or not
(`executor.py`, `process.communicate`). `MaxStart`: the time from taking the
execution lock to `exec_start`. Code outlives a gateway that dies, and then only
`MaxStart + RunTime < ExecLease` keeps the next execution from starting beside it.
The lease leaves 40 s to the start, docker calls and uploads included; a
`pip install`, which the executor runs under a timeout of its own before the code,
uses them up too. `Sweepers`: whose cleanup task wakes up at all, a bound.
`ExpireLate`: the clock stops at `MaxNow`, after which the hashes of removed
containers still expire.

### RateLimiter

`allow_within_rate_limit` for one bucket (buckets share nothing), in the backend
that `shared` says; it is fixed in the initial state.

| State | Code |
|---|---|
| `limit`, `Window` | the arguments of `enforce_rate_limit`; a limit of 0 switches it off |
| `hits` | the deque of one process, or the sorted set: uuid and score; `at`, the time of the admission, is history |
| `call`, `stamp`, `readAt`, `member`, `retries` | a call on its way to Redis: its clock reading, when it took place, its uuid, how often the client has sent it again |
| `expireAt` | the `EXPIRE` of the sorted set |
| `admitted` | history: every hit ever recorded |

In memory a call is one step (`MemoryAllow`): nothing suspends under `_lock`. On
Redis the gateway reads its clock and sends the stamp (`RedisAsk`), the script
runs when the call arrives (`RedisEvaluate`), perhaps once more with the same
uuid when its answer was late (`retry_on_timeout`), and the handler may never
get an answer (`RedisGivesUp`). `now` is the slowest gateway clock; at each
reading another may be up to `MaxSkew` ahead. `MaxDelay` bounds how old a stamp
is when the script sees it; the socket timeouts and the single retry of the
client suggest such a bound but Redis itself sets none, so it is an assumption.
In memory the clock is `time.time()` and is assumed not to be set back.

What the limit means follows from the code, not from its name. In one process
at most `limit` calls are admitted in a closed window. On Redis each stamp
prunes the hits of the others, so the limit holds over `Span`, the window less
`MaxSkew + MaxDelay`, and a call may be refused for admissions up to `Reach`,
the window plus both, ago. Refused calls are not recorded, and a repeated call
is recorded once; with the last place of a bucket it is refused by its own hit.

### RenderJobs

`render_endpoint` and `latex_render_endpoint` differ in names and limits only;
`Jobs` are requests to either. `pc` is the call a request is at, from `queue`
(the semaphore) by `limits`, `guard`, `run`, `save` (`create_render_container`),
`get`, `provision`, `exec`, `read` and `teardown` to `finally` and `done`.

| State | Code |
|---|---|
| `slots`, `guard` | `render_semaphore`, `container_creation_guard` |
| `t`, `age` | the time a request has been where it is, and since its session's `last_activity` |
| `code` | the status that will be answered, once it is settled |
| `box`, `session` | docker, the store |
| `thread` | requests one of whose `exec_start` calls holds a worker of the default pool, whether anybody still waits for it or not |
| `metrics` | the counters and the gauge of the renders |
| `cleaner` | `cleanup_idle_containers` |
| `faults`, `refused` | bound, and history: containers docker failed to start or to remove |

Docker fails at most `MaxFaults` times: a failed `docker run` leaves no container,
a dead one or a running one that nobody knows; a removal is refused and logged, or
raises what nothing catches. `Answer` stands for the `except` and `finally`
clauses of the endpoints. Programs in containers end when they like; the time of
the steps without a timeout in the code is a constant (`RunTime`, `ReadTime`).

`RenderAssumption` says what the properties need. The session of a rendering is
never touched, so its idle time runs while it works: with run, provisioning,
rendering and reading within `SESSION_TIMEOUT_SECONDS` together the cleanup task
leaves it alone, and nothing in the configuration's validation ensures it. And an
abandoned `exec_start` keeps its thread until the container is removed, which
takes a thread: there must be one to every slot, one to every failed removal and
one to spare.

### Executor

One run of `executor.py` is the steps `install`, `decode`, `spawn`, `wait`,
`term`, `kill`, `drain`, `residual`, `res_term`, `res_kill`, `collect`, `read`,
`finish`; between two of them the user's processes do what they like: `Fork`,
leaving the process group, redirecting output and ignoring SIGTERM or not, and
`Exit`. What they write to `/tmp/output` is decided when the executor lists it
(`Wrote`), for nobody looks at it before. A file that is sent is checked and counted
by its `stat` (`executor.py:172`) and read later (`executor.py:201`): in between, what
still runs may grow, replace or remove it (`Collect`), so a file of a result has a
`size` that was counted and a size that was read, `held`. A file has a size, is a link, readable
or not, and its removal works, is silently skipped, or raises (a directory made
read-only). `proc` are the processes with parent, group, pipe and execution;
orphans become tini's, a dead program waits for the executor.

The model shows what the two terminations are worth. Everything in the program's
group is dead before files are collected, except after a Python program that
ended by itself: there `terminate_process_group` is not called, and
`terminate_residual_processes` does not find the survivors, whose parent is tini
(`Contained`, second half). Its docstring promises more. `FilesOwn` names the two
ways in which a result can carry files of an earlier execution: a process that
outlived it, or a file that could not be removed. `OutputBounded` is the most that can
be said of the limits: what is counted is within them, and what is read is what was
counted unless a process that outlived its execution wrote in between. What such a
process writes is read without a limit, though `collect_output_files` says that it
"respects size limits to prevent memory issues" (`executor.py:134`). And in `execute_bash` output
that is no UTF-8 when time is up raises inside the handler (`DecodeTimedOut`,
`executor.py:484`): no result at all.

### LatexRender

The request is checked by the gateway (`GatewayAccepts`) and, with code of its
own, by the program (`ParseAccepts`); then input files, `main.tex`, two passes of
pdflatex with a timeout each, and the archive. `mainTex` and `mainPdf` say where
each file comes from: inputs may have these names. pdflatex is external: it
fails, writes a PDF, ends well without writing one, or never ends. The gateway's
own timeout (`LatexTeardown`) runs over all of it.

What is peculiar, and so part of the properties: a text of blanks passes the
gateway and ends with code 2 (`GatewayAgrees`); a name of 180 characters that is
longer than 255 bytes ends with code 1 (`WriteInputs`); an input `main.pdf` is
delivered when pdflatex has no page to write (`LatexAnswered`); and the second
pass, not the first, may be cut off by the gateway (2 x 90 s against 120 s).

### RenderConfiguration and SlideRender

Settings are validated when the gateway starts and again, for every deck, by the
renderer. `ConfigurationAgrees` says that the renderer refuses what the gateway
accepts in two cases only: production with any host allowed and not said so, or
an `ALLOW_INSECURE_PRODUCTION_CONFIGURATION` neither true nor false.

`SlideRender` is the process that renders one deck: configuration, environment,
assets, server, the two tasks, output limits, exit code. Each of `task["pptx"]`
and `task["images"]` has a place, a browser or node process (`alive`), a
cancellation that is raised where it awaits, and an outcome; `raised` is what
`gather` raises. Any external step, the disk's, a library's or a program's, may fail
(`faulty`), by a `ValueError`, which `main` answers with 2 like a request that is
refused, or by another exception, answered with 1 (`Faults`). A deck is the set of
numbers of slides its page may show, more than one if its scripts change it.
Version v1 is modelled by the order of its calls, its limits and failures, v2 by
what the exit code of node tells the service; node may never end, the calls of
playwright are taken to return because it has timeouts of its own.

### Sandbox

A container is made for one program; `Next` is the sum of the three next-state
relations, the variables of the other two unchanged. One run explores all.

## 3. Runs

| Run | Question | Instance |
|---|---|---|
| `sess_lock` | Do lock, slots, budget, code exclusion and removal answers hold while requests race? (`LockExclusion`, `CodeExclusion`, `RemovalClaims`, `BudgetKept`, `SlotsConserved`) | 1 inherited container, 3 requests, 2 slots, budget 2, no failures |
| `sess_faults` | Is every step one of the contract's when docker fails? (`ContractKept`, `Inductive`, of which `TypeOK` is a part) | 1 inherited and 1 created container, 2 requests, 1 failure, startup list may fail |
| `sess_quota` | Does the guard make the creation limits exact? (`YoungQuota`) | 2 requests of one principal, limits 1 and 2, idle timeout 1, lifetime 3, time to 5 |
| `live_exec` | Do requests end that compete for slots and for the lock of a container? (`RequestsEnd`) | 1 inherited and 1 created container, 3 requests, 2 slots, 1 failure, fairness, clock at 0 |
| `live_create` | Do requests end that compete for the guard, is every container reclaimed, does every record go? (`RequestsEnd`, `ContainersReclaimed`, `RecordsDropped`) | 2 created containers, 2 requests, 1 failure, 1 crash, fairness |
| `rate` | What does the limit guarantee, in one process and on Redis with skewed, late, lost and repeated calls? (`LimiterInv`, `WindowBound`, `ChargedOnce`, `RefusalJustified`) | both backends, 2 callers, limits 0 to 2, window 4, skew 1, delay 1, 1 retry, 4 calls recorded |
| `shared_exec` | Does the lease exclude, and does one execution at a time live, over gateways one of which dies? (`TypeOK`, `LeaseExclusion`, `OneCode`) | 2 gateways, 1 daemon, 1 inherited container, 2 requests, 1 crash, `REQUIRE_SHARED_STATE` |
| `shared_create` | Is the limit exact, and is there what was answered as created? (`SharedQuota`, `CreatedUsable`) | 2 gateways, 1 daemon, 2 containers to create, 2 requests, both cleanup tasks, one gateway with `REQUIRE_SHARED_STATE`, one without |
| `shared_live` | Is every container removed and every key dropped? (`ContainersReclaimed`, `StoreCleared`) | 2 gateways with daemons of their own, 1 inherited and 1 created container, 1 request, 1 crash, fairness |
| `render_jobs` | Are slots and metrics kept, is every request answered, is no container left or taken away early? (`RenderType`, `SlotsKept`, `MetricsBalance`, `AnsweredRemoved`, `NotCut`, `AllAnswered`, `AllRemoved`) | 2 requests, 1 slot, 3 threads, 1 failure, both settings of `REQUIRE_SHARED_STATE`, fairness |
| `sandbox` | Are executions contained and their files their own, are documents and decks answered right, do the programs end? (`SandboxType`, `Contained`, `FilesOwn`, `OutputBounded`, `GatewayAgrees`, `LatexAnswered`, `ConfigurationAgrees`, `QuietStop`, `SlidesAnswered`, `ProgramsEnd`) | see below |
| `v_recount` | expected to be violated: "without resetting shared-state session budgets" (`app.py:906`; `BudgetKept` of `SharedSessions`) | 2 gateways, 1 container, budget 1 |

In `v_recount` a recovery of the second gateway (`recover_or_remove_managed_container`,
which its cleanup task and its startup run over every container docker lists) reads a
session, an execution is counted, and the recovery writes back what it read: the
container admits one execution more than its budget.

Departures from the documentation that the models contain as they are, and that
explain the conditions of the properties:

- after a docker failure the answer "Container removed." may be untrue, and the
  next execution may start beside one that timed out (`CodeExclusion` and
  `RemovalClaims` are checked in `sess_lock`, where docker answers);
- an idle session is revived by a request after another took its place, so more
  than `MAX_ACTIVE_SESSIONS` can be active: `YoungQuota` and `SharedQuota` count
  the sessions younger than the idle timeout;
- two requests that recover one session after a failed startup forget each
  other's count (`app.py:957`); `BudgetKept` is checked where the startup recovery
  succeeds (`StartupListFails` is false);
- a session used after the cleanup task's snapshot is removed all the same;
- a handler that outlives its lease shares the lock with the next, and releases it
  late; a creation that outlives the guard's lets another one count beside it; code
  that outlives a dead gateway's lease runs beside the next (`LeaseExclusion`,
  `OneCode` and `SharedQuota` are checked and proved with holders quicker than their
  leases, so these cases are not in them);
- with `REQUIRE_SHARED_STATE` any cleanup task removes a container whose creation
  has not saved its session yet, so `create_container` answers with a container that
  is gone or going; `CreatedUsable` excepts these containers by name (`disowned`), and
  where no gateway runs with the setting none is excepted; `NotCut` excepts the setting;
- what a process that outlived its execution writes between `stat` and `read_bytes`
  is sent whatever its size (`OutputBounded` excepts it);
- `RENDER_TIMEOUT_SECONDS` is called an end-to-end timeout (README, "Slide
  Rendering") and covers the exec alone, not queue, creation and provisioning;
- what is said above of `terminate_residual_processes`, of timed-out bash
  programs, and of `main.pdf`.

Bounds. `Cids` and `Reqs` bound containers and requests: three requests are the
least that have one inside a lock, one waiting with a stale lock object and one
arriving; two containers let the guard and the limits be contended. A request
handles one call; more calls are more requests. `MaxNow` bounds the clock, with
`IdleTimeout` and `Lifetime` chosen so that sessions become idle before they
expire, and both before the clock stops; a creation begins only up to
`CreateUntil`, while its session can still expire, so that the liveness runs do not
depend on the bound. In `live_exec` the clock stands still, for requests have to end
without its help.
Liveness needs contention: in `live_exec` three requests want two slots, one waits for
the lock of the container with a slot in its hand and one for a slot, while one of
them may be a creation instead; in `live_create` two creations want one guard, and
docker fails the one inside or the process crashes. Nothing in
the code takes the guard together with a slot or a lock. With two containers there is
one behind the one whose removal fails.
`MaxFaults` and `MaxRestarts` bound failures and crashes. `ObjIds` and `LockIds`
are more than the objects that can be referred to at once (a new object gets the
least free identity). Requests of one principal are interchangeable, so the runs
without temporal properties over single requests use them as a symmetry set.

In the instances of `SharedSessions` idle timeout, lifetime, grace and leases are
such that sessions become idle, expire in Redis and outlive their containers, and
leases of a dead gateway lapse, before the clock stops. `Begin` and
`AcquireGuard` create only what can still expire.

`render_jobs`: two requests for one slot make one wait, time out in the queue and
overtake; three threads are the least `RenderAssumption` allows with one failure;
the idle timeout is the sum of the four step times, the tightest allowed.

`sandbox`: two executions, so that the second meets what the first left; two
processes at a time of a user, the program and one child or two children; two
file names and five kinds of files (one that fits, one unreadable, one that
stays, one too large, a link whose removal raises) against a file limit of 2 and
a total of 3. Documents have up to 3 inputs of 10 kinds with 2 allowed, so that
every refusal occurs; start, pass and gateway timeouts 1, 2 and 4, so that one
pass fits and two need not. Decks show 0 to 3 slides with a limit of 2, two of
them changing while they are loaded; all settings the gateway accepts.

`shared_exec` has a lease of 3, one more than what starting (1) and running (1)
take together, handlers that hold it for up to 2, and a lifetime that lets a second
execution follow the lapse of the first one's lease.

Fairness. `GatewaySessions`: weak fairness of each handler's own steps (the event
loop runs what can run, docker answers, the execution timer fires), of the
cleanup task, an endless loop with a sleep, and of time. None for clients, user
code, wait time-outs, failures and crashes: requests end even if no wait ever
times out and user code never returns. `RequestsEnd` says that again and again there
is a moment without a request at work: as many requests as an instance has may begin
in any order, and none of them keeps any other for ever. `SharedSessions`: the same, with the steps
of each gateway, whose `Start` is among them because the compose file says
`restart: unless-stopped`, and of the end of user code, which the executor
enforces. `RenderJobs`: handlers and time together (a step whose
time is up must be taken before time can go on), and the cleanup task; the
programs in the containers may run for ever. `Sandbox`: the steps of the executor
and of the slide renderer; none for the user's processes, node, or the gateway's
timeout. `LatexRender` has no liveness property: both its timeouts are ticks of
its clock.

Deadlock is checked in the runs of `GatewaySessions`, `SharedSessions` and
`RenderJobs`, where the cleanup task goes on for ever. `rate` stops when the
clock and the uuids run out, `sandbox` when its executions are done or the
container is removed. Bounds of `rate`: window 4 with skew and delay 1 leaves a span of two ticks, limit 2 and
4 uuids let a third call be admitted wrongly and still leave one for a repeated
call, and time to 6 is a window and what `Reach` adds to it.

## 4. Proofs

`GatewaySessions_proofs` proves for every number of containers, requests, slots,
budgets, timeouts, failures and crashes:

- `TypeCorrect`: `Spec => []TypeOK`;
- `LockExclusionHolds`: `Spec => []LockExclusion`;
- `ContractRefined`: `Spec => ContractKept`, the refinement of `SessionContract`.

Assumptions: `SetsAssumption` (the cleanup task is no request, `None` is neither
a request nor a container, every request has a principal) and
`NumbersAssumption` (limits and times are naturals, identities are not 0).
Nothing is assumed about the finiteness of the sets.

All rest on `InductiveInvariant`. `LockExclusion` is not inductive: it says
nothing of who waits, or of what is in the lock table. `Inductive` adds

- `PlacesInv`: who is at a step about a container is about one that docker has
  or had, and so is every record and every entry of the cleanup task's lists;
  the container being created belongs to the holder of the guard;
- `ConfirmInv`: a removal about to be confirmed has taken place. It makes
  `delete_session` safe at that point;
- `LockInv`: who is past `execution_lock` holds its lock object alone; and while
  the container is not gone, everyone who waits for or holds a lock object of it
  has the one in the table. The last part is what deleting the table entry would
  break, if it could happen while the container exists.

The argument is arranged by what actions have in common. `Frame` says what a
step may do to docker, the store and the cleanup lists; `LeaveKeeps` and
`GotoKeeps` show that a handler that ends or moves on under a `Frame` keeps the
invariant and takes a step of the contract (`ContractStep`); then there is one
lemma per action, or per group of actions of one shape, most of which only
establish their `Frame`. Creation, slot, lock and the cleanup task's choice of a
container change what handlers hold and have direct proofs, as has `Restart`.

`GatewayLimits_proofs` proves of `GatewaySessions`, again for every choice of
containers, requests, limits, times, failures and crashes but for the condition named:

| Theorem | States | Provided |
|---|---|---|
| `SlotsAreConserved` | `SlotsConserved` | finitely many requests |
| `OneCodePerContainer` | `CodeExclusion` | while no docker call has failed and the process has not crashed |
| `RemovalClaimsHold` | `RemovalClaims` | while no docker call has failed |
| `YoungQuotaHolds` | `YoungQuota` | it holds at first, `~StartupListFails`, finitely many containers |
| `BudgetIsKept` | `BudgetKept` | `~StartupListFails`, and the process has not crashed |

The conditions are where the code gives no more. A docker call that fails leaves user
code running under a lock that is released, and so does a crash; a removal docker does
not confirm is reported as done; a startup that cannot list containers leaves them
running and uncounted; a recovered container's count starts again from its label,
which is never updated. `RemovalClaims` and `YoungQuota` hold over crashes, the quota
over docker failures as well.

`Steppers` names who moves in a step and `Only` says that it disturbs no other handler, so
each proof looks at one handler and at what its action does to docker (`RemovalArrives`,
`GoneStays`, `NextWanes`) and to the store (`KnownStays`, `NextFresh`).

- Slots: free slots and the requests that hold a lock handle are `MaxConcurrent` in
  number; `NextMovesSlots` shows that a step moves at most one of them (`SlotsMove`).
- Code: `CodeInv` says that the execution alive in a container is that of the handler
  at work inside its lock, which does not leave before it has ended or was killed.
- Claims: `ClaimsInv` says that a handler on its way to the answer has seen its container
  go; `ConfirmInv` of `Inductive` is the step where it is seen.
- Quota: `QuotaInv` adds to `YoungQuota` that sessions are no older than their
  containers (`TimesInv`), that what runs is in the store, or is about to be put there
  by the holder of the guard (`UpTracked`), and that between the count and the new
  record there is room for one (`RoomInv`). No other step adds a young session.
- Budget: `BudgetInv`. A container whose id a client has is tracked until it is gone, so
  no handler recovers its session; the record in the store has counted at least what
  was admitted (`BoxBudget`), the object a handler holds is that record
  (`HandlerBudget`), and one handler at a time is between its check and its count
  (`OneAdmits`, from `LockExclusion`).

`SessionContract_proofs` proves `ContractExcludes`: the contract's step-by-step
promise implies that a container that exists has one request inside its lock.

`RateLimiter_proofs` proves `WindowBoundHolds`, `ChargedOnceHolds` and
`RefusalsJustified` for every window, limit, skew, delay, number of callers and
retries, in both backends, from `LimiterAssumption` (durations are naturals,
limits integers). `WindowBound` speaks of admissions and the code
decides by its bucket, so `LimiterInvariant` relates the two: `BucketComplete`,
the bucket still holds every admission that a span ending now can count, and
`ScoresClose`, which bounds the distance of scores, stamps and the key's expiry
from the real time and so shows that pruning and expiry keep the bucket
complete. `RecordKeeps` is the step both backends share.

`RenderJobs_proofs` proves `SlotsHold`, `MetricsHold`, `AnsweredRemovedHolds`,
`TypeHolds` and `NotCutHolds` for every finite number of requests and every
choice of slots, threads, failures and step times within `RenderAssumption`. The
first three are inductive by themselves once types are known. `NotCut` is not: it
needs, for each request, `Aged` (a session is no older than what its request has
spent in docker run and since, step by step, so that a request at work is never
idle), `Listed` (what the cleanup task found idle does not come back to work) and
`Placed` (before docker run nobody knows the container; from `get` on a running
one has a session, so that recovery removes none). `AnswerInv`, `InsideInv`,
`SweepInv` and `ListInv` are the shapes of steps; each action is one of them.

`SharedSessions_proofs` proves, for every number of gateways, requests, containers
and crashes and every choice of limits, timeouts and leases within
`SharedAssumption` and the condition named:

| Theorem | States | Provided |
|---|---|---|
| `SharedType` | `TypeOK` | |
| `LeasesExclude` | `LeaseExclusion` | `MaxHold < ExecLease` |
| `OneCodeHolds` | `OneCode` | that, and `MaxStart + RunTime < ExecLease` |
| `SharedQuotaHolds` | `SharedQuota` | `MaxHold < GuardLease`, `Grace > 0`, finitely many containers, no more inherited than `MaxActive` |
| `CreatedIsUsable` | `CreatedUsable` | `MaxHold` below `GuardLease` and `Lifetime` and at most `IdleTimeout`, `Grace > 0` |

The conditions are what the code relies on without enforcing it; the first is false
of a docker call that hangs. `CreatedIsUsable` is proved for any set of gateways with
`REQUIRE_SHARED_STATE`, all of them included, as a deployment with several gateways is
documented. What the setting costs is in the property: the containers in `disowned`.

- Types. `Shaped` is `TypeOK` with `Shape`, what each suspension point says about
  the actor's local variables. It is proved in two halves: `ActorMoves` (one actor
  moves, to a place that its variables allow) and the `...Rest` lemmas (the other
  variables keep their types).
- Locks. `LeaseExclusion` speaks of handlers, the lock is in Redis: `Locked` says that
  who is inside owns the lease and that a lease whose owner lives is younger than
  `MaxHold`, so that `Tick` never lets it lapse. `CodeKept` adds for each execution
  alive that it belongs to the lease, ends before it, and that its handler waits
  for it, is about to kill it, or died.
- Store. `StoreKept` relates docker, hashes, their time to live, the index and the
  copies in `act`: a session is never older than its container, does not expire
  while the container is young (here the grace counts), is in the index while a
  client knows it; what a handler drops from the store is gone, and what
  `list_sessions` drops from the index is not young. Its steps are sorted by what
  they do to the store (`PutKeeps`, `DropKeeps`, `RunKeeps`, `KillKeeps`,
  `SweepKeeps`, `TellKeeps`, `TickKeeps`); `KeepsAll` is what every step leaves to
  the actors that do not move.
- Quota. `Guarded`: who creates owns the guard. `QuotaKept`: after `SMEMBERS` every
  young session is among the ids, and from the count on there is room for one; no
  other step adds a young session.
- Creations. `CreationKept`: a container that is being created is up or disowned,
  unknown to clients and younger than `MaxHold`; requests are about containers that
  clients know, what cleanup tasks found idle is not young, and what a recovery chose
  to remove is disowned. So nobody else removes it.

`Rendering_proofs` and `Executor_proofs` prove the invariants of `Sandbox` for every
number of requests, executions, processes, files and slides and every limit and
timeout, under no other conditions than the modules' assumptions:

- `ExecutorAssumption`, `FilesAssumption`: counts, sizes and limits are naturals, and
  the names are 1..n in the order of `sorted()`;
- `InputsAssumption`: an input file has a byte at least, because the gateway takes no
  empty content, and strict base64 of one character or more decodes to a byte or more;
- `LatexAssumption`: limits are naturals, and one pass and the start of the program are
  shorter than the gateway's patience (120 s against 90 s by default; nothing in the
  code enforces it);
- `DecksAssumption`: a deck's page shows one of finitely many numbers of slides.

| Theorem | States |
|---|---|
| `GatewayAgreesHolds`, `LatexAnsweredHolds` | `GatewayAgrees`, `LatexAnswered` |
| `ConfigurationAgreesHolds`, `QuietStopHolds`, `SlidesAnsweredHolds` | `ConfigurationAgrees`, `QuietStop`, `SlidesAnswered` |
| `ContainedHolds`, `FilesOwnHolds`, `OutputBoundedHolds` | `Contained`, `FilesOwn`, `OutputBounded` |
| `SandboxTypeHolds` | `SandboxType` |

`ProgramMoves` reduces a step of the container to a step of one program, and each
program has its own inductive invariant.

- LaTeX. `LatexKept` says for each stage what is settled there: the gateway's checks
  until the inputs are written, where `main.tex` and `main.pdf` come from, the time
  spent. The gateway's timeout finds the second pass because the first one's clock is
  at most `BootTime` behind the gateway's.
- Slides. `TaskKept` says what one task's place, cancellation and outcome have to do
  with each other and with what has been raised, `PhaseKept` where the tasks can be in
  each phase; `QuietStop` follows. For the answer, `VerdictKept(n)` follows a deck of n
  slides that does not change: `Failures(n)` are the ways it may fail in either task,
  and every outcome, what is raised and the exit code are among them, so that the
  order of the two tasks does not matter. `SettingsKept` carries the gateway's
  validation to the renderer's.
- The executor's processes. `TreeKept` makes the processes a forest: a parent runs, the
  executor has one child at most, the program, a zombie is that program, and after the
  kill it does not run. `DescendantsAre` shows that the search of
  `_list_residual_pids` then stops at once. `GroupKept` follows the process group: after the
  kill nobody is left in it who could fork into it, which is why one round of SIGKILL
  is enough. `EndKeeps` and `BornKeeps` are the two ways in which the processes change.
- Files. `JobsKept` says that a running process belongs to this execution or to one
  that is recorded as outlived, `FilesKept` that a file in `/tmp/output` belongs to this
  execution, to such a one, or cannot be removed.
- Limits. The code adds up sizes name after name (`Used`), the property sums over the
  set that was sent. That a file holds what was counted follows from who still runs
  between `stat` and `read_bytes`: after the kill only processes that are recorded as
  outlived (`OverwriteIs`, `SurvivorsAre`). `UsedIsSent` shows them equal: `OneFileMore` says that the sum
  does not depend on the order in which the fold takes the files.

Three recursions occur in these proofs (`Descendants`, `Used` and the fold). That the
functions they define exist, and what they compute, is shown without an induction rule:
a set of arguments at which it fails has a least element (`NatMin`, `SubsetMin`, from
the well-foundedness of `<` and of strict inclusion), and that one does not fail.

Every invariant and step property that a passing run checks is proved, but for one run
(`v_recount`) whose property is false. Model-checked only are the liveness properties
(`RequestsEnd`, `RecordsDropped`, `ContainersReclaimed`, `StoreCleared`, `AllAnswered`,
`AllRemoved`, `ProgramsEnd`), which the prover cannot reach: they rest on fairness, and
so on `ENABLED`.

## 5. What is left

1. A contract that `SharedSessions` implements as well. `SessionContract` is more than
   it promises: the lock excludes only while no lease is overrun, and a hash may expire
   before its container is removed, so that `Remembers` is false of it.
2. Failures of Redis, and of docker beside Redis: at present each module has one
   kind of failure.

## 6. Not modelled

- Authentication, request validation and body limits (`app.py` 502-805,
  1226-1350, 1356-1625): decided from one request alone; a refused request never
  begins. The counters of the middleware.
- The gateway's configuration validation but for slide rendering: refusals at
  startup without state.
- Archive layouts and `prepare_files`; JSON and text formats; truncation of
  output text and the wording of errors; logging.
- The layout of slides in `sandbox/v1/render.py` and all of `sandbox/v2/index.js`
  but its exit code; which requests of a page the browser lets through.
- Aliases of containers (docker takes names and prefixes of ids), a docker daemon
  whose identity is unknown.
- `gateway/version.py` and `bump_version.py`: string functions.
- Compose file, seccomp profile, setup scripts and CI: configuration of external
  programs.
