# A verification of the adaptive rate limiter

The program is a reverse proxy (FastAPI) that limits the requests of each client
IP. Several proxy processes share one Redis; each keeps a private copy of what it
needs in memory for when Redis fails. This directory holds TLA+ models of its
core, the TLC configurations that check them, and theorems proved with TLAPS.

Paths below are relative to the root of the repository.

## 1. Inventory

| Component | Source | State | Operations |
|---|---|---|---|
| EnforcementEngine | `src/enforcement/engine.py`, `models.py` | per client an escalation record (level, violations, last_violation, block_until): hash `escalation:{ip}` in Redis with a TTL, and `_fallback_escalations` per process | `evaluate_request`, `_get_escalation_state`, `_save_escalation_state` |
| Token bucket, leaky bucket | `src/enforcement/algorithms/`, `src/storage/lua_scripts/` | per client and path a level and a time: a hash in Redis with a TTL, and `_fallback_db` per process | `check_limit` (Lua script, or `_check_in_memory`) |
| Sliding window | the same directories | per client and path a counter per window | `check_limit` |
| RedisClient | `src/storage/redis_client.py` | connection pool, text and SHA of each script | `initialize`, `run_script`, `close` |
| ConfigManager | `src/config/manager.py`, `models.py` | the current policy, callbacks, file watcher thread | `reload_config`, `get_config`, `register_callback` |
| IngestionMiddleware | `src/ingestion/middleware.py` | whitelist and blacklist networks | `_update_acls` (watcher thread), `dispatch` |
| AnomalyDetector | `src/detection/detector.py` | per client an EWMA baseline and a counter, in Redis and per process | `calculate_anomaly_score` |
| GlobalSystemMonitor | `src/detection/global_monitor.py` | requests, errors and latency per ten-second window | `record_request`, `get_system_load` |
| Proxy application | `src/proxy/app.py` | none of its own | `proxy_handler` |
| Metrics, logging, sample backend, dashboards, attack simulator | `src/metrics`, `src/backend`, `config/grafana`, `tests/simulation` | outside the limiter's logic | |

How they interact. A request enters the middleware, which refuses blacklisted
IPs and marks whitelisted ones; the proxy application then awaits
`EnforcementEngine.evaluate_request`. The engine fetches the client's escalation
record, resets or releases it if it is due, refuses a blocked client, and
otherwise awaits the detector (anomaly score), the monitor (load multiplier) and
a limiter with the limits scaled by both. A refusal of the limiter is a
violation: the engine counts it, picks a new level and saves the record. All of
this runs as coroutines of one event loop per process. Between two awaits a
coroutine is alone; at an await any other coroutine of its process may run, and
processes run in parallel. The only other thread is the watcher that reloads the
policy.

What is hard. Records are read, kept across several awaits and written back
without a transaction. A save is two Redis commands. Redis may fail, have
executed the command that failed, drop keys, or restart empty (it has no volume
in `docker-compose.yml`), and each failure diverts one request to state private
to one process. Timestamps are read before the await whose command they go with,
so they reach Redis out of order. Rules about time (cooldown, block durations,
TTLs) overlap. The full list with its lines is `hazards` in `PROJECT.json`.

What makes each component correct:

- *Engine*: every copy of a record stays coherent; a standing is worsened by
  violations only and improved by the passing of time only; a block holds for
  its term, and whatever fails nobody is refused beyond the term of a violation of
  their own; every request is decided.
- *Limiters*: a client gets at most its burst and its rate, over any interval,
  per store, whatever limits the adaptive factor picks and whichever keys expire; one
  that asks for less than the lowest limits allow is never refused.
- *Sliding window*: no window admits more than the base limit, no stretch of a
  window's length more than twice that; a refused request leaves no trace.
- *RedisClient*: a script runs at most once per call; a call returns the script's
  result or raises; it does not raise only because Redis has forgotten the script (it
  does, see `script_forgotten`).
- *Configuration and lists*: the lists hold one policy and not a mixture; a
  completed edit takes effect and a failed reload changes nothing; a client on the
  blacklist before and after a reload is refused during it (it is not, see
  `blacklist_skipped`).
- *Detector*: a client is anomalous for requests made since its baseline was
  updated (not between the two commands of an update, see section 3); no counter outlives its interval for ever, and a baseline does so only for
  want of a transaction; a baseline is kept while its
  client is active (it is not, see `baseline_expires`).
- *Monitor*: the load multiplier stays between `min_multiplier` and 1, and falls
  below 1 only because of recent requests that were slow or failed.
- *Proxy application*: every request is answered; a whitelisted client is never
  refused; a request is charged once; the monitor counts what was forwarded.

## 2. Modules

```
Escalation            the policy: pure operators on records
  EnforcementEngine   the coroutines, Redis, the fallbacks, faults
    MCEngine          instances for TLC
    EnforcementEngineProofs
ClientStanding        what the engine promises about a client (abstract)
Buckets               the arithmetic of both bucket algorithms: pure operators
  BucketLimiter       check_limit from several coroutines, Redis and memories
    MCLimiter         instances for TLC
    BucketLimiterProofs
Policer               what both bucket limiters promise the backend (abstract)
SlidingWindow         check_limit of the sliding window, with its arithmetic
  MCSliding           instances for TLC
  SlidingWindowProofs
PolicyReload          the policy file, the watcher thread, the lists, requests
  MCPolicy            instances for TLC
  PolicyReloadProofs
AnomalyDetector       calculate_anomaly_score, command by command
  MCDetector          instances for TLC
  AnomalyDetectorProofs
GlobalMonitor         record_request and get_system_load
  GlobalMonitorProofs
  ProxyRequest        proxy_handler, composed with the monitor
    MCProxy           instances for TLC
    ProxyRequestProofs
ScriptCall            what run_script promises its callers (abstract)
ScriptCache           the scripts in Redis and in the proxies, run_script
  ScriptCacheProofs
```

### Escalation and EnforcementEngine

`Escalation` has one operator per rule of `evaluate_request`: `CooledDown` and
`Reset` (lines 136-143), `TempExpired` and `Deescalated` (147-153), `Triggered`,
`NextLevel`, `Deadline` and `Penalised` (211-235), `Ttl` (95-97). Scores are
percentages, times are integers.

`EnforcementEngine` runs `Tasks`, the coroutines of all `Proxies`. A task's `pc`
is the await it is suspended at, and an action is the code from one await to the
next together with the Redis command that was awaited:

| `pc` | suspended in | actions |
|---|---|---|
| `fetch` | HMGET of `_get_escalation_state` | `Fetch`, `FetchFails` |
| `limit` | detector, monitor, limiter | `UnderLimit`, `OverLimit` |
| `hset` | HSET of `_save_escalation_state` | `SaveHset`, `SaveHsetFails` |
| `expire` | EXPIRE of the same save | `SaveExpire`, `SaveExpireFails` |
| `done` | not running | `Arrive`, `ArriveWhitelisted` |

`rec` holds the locals level, violations, last_violation and block_until; `seen`
is the record that was fetched and is read only by a property, and `offences[c]` is
history: when the requests of `c` that a limiter refused had arrived. A failed command may
have been executed (`SaveHsetFails`, `SaveExpireFails`). Commands are not sent a
second time: the client is built on an explicit connection pool, for which
redis-py retries nothing. `Tick` advances the clock and drops due keys,
`RestartProxy` and `RestartRedis` lose what they lose.

The detector, the monitor and the limiter are one await here, with an arbitrary
score and an arbitrary verdict: the engine reads and writes nothing of its own
between them, and every combination is possible for some history.

`ClientStanding` is the abstract specification: a standing per client and since
when, with `Penalise`, `Forgive`, `Release` and `Tick`. A standing is `unsettled` from
its HSET to its EXPIRE, and only then may time take it away early; `Settle` is the
EXPIRE. After the first failure (`disturbed`) it promises nothing. `EnforcementEngine`
defines the refinement mapping `Standing`, which takes the record in Redis.

### Buckets and BucketLimiter

`TokenBucket` and `LeakyBucket` are one check each. The Lua scripts and the
`_check_in_memory` methods compute the same function, so the model uses one
operator for both. Levels are integers in units of which `Cost` make up one
token, so fractions are representable (the instances use half tokens).

`BucketLimiter` runs calls of `check_limit` for one key: `Begin` reads the
clock, `RunScript` is the script with its reply, `RunScriptFails` an error (the
script ran or it did not), `CheckInMemory` the fallback with the time read first.
`Limits` are the adaptive limits the engine may pass, different from call to
call. Keys share nothing, so one key is enough. `algorithm` is chosen in `Init`
and stays: the two algorithms use different keys and are never mixed.

Three history variables serve the bound: `admitted[m][s]`, the units store `m`
admitted to calls that read the clock at `s` or later; `setBack[m][s]`, by how
much later calls carried times before the bucket's own, all in all; `settled[m]`,
when a missing bucket was full. They are not read by the code's actions.

`Policer` is the abstract specification: one policer at the base limits, without
algorithms, adaptive limits or keys. A store gives credit that fills at the base rate up
to the base capacity, grants a request only for its cost in credit (`Grant`), may keep
credit back (`Refuse`), starts anew when it loses its contents (`Forget`), and need not be
remembered once it is full again (`Refill`). A late call takes a store back to its own
time, as in the code. `Promise` is the refinement mapping: the credit of a bucket
(`Credit`) is its tokens, or the room above its water, or all of it when there is no key.

### SlidingWindow

The actions are those of `BucketLimiter` over a counter per window. `Decide` is
the common part of the script and of `_check_in_memory`: estimate with the request
counted, and keep the count or roll it back. The script renews the TTL of a counter
it finds at nothing (`Script`, sliding_window.lua:16-19); the memory first deletes
the windows before the previous one (`CleanedUp`, sliding_window.py:53-56). The
estimate and the limits are integers in parts, `Window` of which make up one request,
which makes the weights exact. The history variable `admitted[m][s]` is what store
`m` admitted to calls that read the clock in the window-long stretch from `s` on;
`Admitted(m, w)` is the case of a whole window.

A counter is dropped two windows after its first request, so a call that takes
longer than a window may find the counter of its own window gone. `MaxDelay`, how
long a call takes from reading the clock to its decision, is therefore at most
`Window` (`DelayAssumption`), 60 seconds by default. The code does not enforce it,
as the connection has no timeout.

### PolicyReload

The only place where two threads share memory. An action is one access to what
they share: `OnModified` takes an event off the watchdog queue, `Read` loads and
validates the file, `Install` assigns `_config`, then `_update_acls` runs as
`ClearWhite`, `ClearBlack`, `FillWhite` and `FillBlack` (one entry per step; an entry
that is no network is skipped). On the event loop, `CheckBlacklist` and
`CheckWhitelist` are the two checks of `dispatch`. The interpreter may switch threads
between any two of these. `any(ip in net for net in networks)` walks a list that may
grow or be replaced while it does; since the list it walks only grows, its answer is
the one of a single instant, and the check is one step.

`WritePart` and `FinishEdit` are the operator's edit in place: it truncates the file,
or leaves a part of it there, before it is whole. `AppConfig` requires only the
`escalation` section, so a part may be a policy with shorter or no access lists
(`PartsOf`). Every write queues an event, which may be merged with one that waits. A
policy is its two lists as sets; a network is the set of its clients (`Members`), and a
client that is no IP is in none. `Init` is the state after start-up: the middleware
registers its callback before the watcher is started, so there is no race there.
`request[r].quiet` is history: whether no policy was being installed since the
request arrived.

### AnomalyDetector

An action per command of `calculate_anomaly_score`, with `pc` the command awaited:
`hmget`, `incr`, `expire_counter`, then `hset_init` and `expire_baseline` for a client
without baseline, `hset_update` and `delete` at the end of an interval, or the score at
once (`Counted`). `Rate`, `Smoothed` and `Reason` are the arithmetic of the rates, the
moving average and the score, in integers: rates in parts of a request per second
(`One`), the score as a comparison of squares, which avoids the root. When a command
raises, executed or not, the code goes on with what it has: before it has a baseline it
falls back to memory (`CountingFails`, `InMemory`), afterwards it computes the score all
the same (`InitFails`, `UpdateFails`). `_get_in_memory_baseline` does not await and is
one step. Clients share no key, so one is modelled.

`began`, `lost` and `fair` are history: when the counter was created, which commands on
it a fault has prevented, and whether the requests of a score were counted since the
last update of the baseline it is compared with. `fair` is TRUE where that is not asked
(`Comparable` says where it is): for a default baseline, for one whose update has not
deleted the counter yet, and after a fault has prevented a DELETE. `orphaned` is history too: when Redis last
dropped a baseline that an evaluation had fetched and might still update.

### GlobalMonitor and ProxyRequest

`GlobalMonitor` has the slots (`req`, `err`, `lat`, one entry per window id, with the
TTL their keys share) and the metrics in memory. `record_request` is `BeginRecord` and
`Record` or `RecordFails`: the pipeline is MULTI / EXEC, so it is one step, executed or not
when it raises. `get_system_load` is `BeginLoad`, three reads, or `LoadFails` at any of
them. Latency and error rate are fractions over a common denominator (`LatencyFactor`,
`ErrorFactor`), and multipliers parts of `Whole`, rounded up by less than one part. `quiet`
and `cause` are history: whether a request was recorded between the reads, and whether one
of those counted was slow or failed (`sick`, `ill`).

`ProxyRequest` extends it with the handler. `pc` is what `proxy_handler` waits for:
`engine`, `load`, `limit`, `backend`, `record`. Each step of the monitor is taken
together with the step of the request that waits for it (`AskLoad`, `ReadLoad`,
`LoadRead`, `Finish`, `FinishInMemory`), and `Evaluated` is what follows a decision: the
dry run of a whitelisted client, the refusal or the backend. The middleware's verdict,
whether the client is blocked (`Suspended`) and the limiter's verdict (`Limited`) are
arbitrary: they are the subject of the modules above. The backend answers with any status
after any duration, or the call fails or reaches its timeout. `charged` and `forwarded`
are history.

### ScriptCall and ScriptCache

`ScriptCache` has the scripts Redis knows (`loaded`) and per proxy the texts and SHAs
of `RedisClient` (`scripts`, `sha_cache`) and the files `_load_lua_scripts` has still to
look at (`left`). A call goes through `Evalsha`, or through `Eval` when there is no SHA.
When EVALSHA raises NoScriptError the code means to load the script again, but the clause
that would, `except aioredis.exceptions.NoScriptError` (redis_client.py:90), names an
attribute that `redis.asyncio` does not have; evaluating it raises AttributeError, and
line 107 raises that again (`Forgotten`). Lines 91-96 are therefore in no action. That
the package has no such attribute is a fact about redis-py, of which the repository holds
no copy. `LoadScriptFails` is an unreadable file or a SCRIPT LOAD that raises: the text may
be kept without its SHA. `LoseScripts` is a restart of Redis, which may strike between any
two commands; `lost` is history, the scripts a proxy had registered and Redis lost.

`ScriptCall` is the abstract specification: a call is pending, then it has returned a
result and run its script once, or raised and run it at most once, or, without
the script's text, returned None at once. It is the contract that `BucketLimiter` and
`SlidingWindow` assume of a call (`RunScript`, `RunScriptFails`). There a call that raises
is a fault, of which the runs allow `MaxFaults`; after Redis has lost its scripts every call
raises, until the proxy restarts, which is a case of the theorems, as they hold for any
number of faults. `Promise` is the refinement mapping.

## 3. Properties and runs

Two bounds appear in nearly all instances: `MaxClock` (last instant) and `MaxFaults`
(failed commands and restarts). The detector and the proxy also bound the requests
(`MaxRequests`), as their counters grow with every one. Violation counts stop by
themselves, which is one of the properties. `Forever` (a key without TTL) and `PermBlock` lie
beyond the last instant, as they do for any run of the program.

| Run | Instance | Shows |
|---|---|---|
| `engine_concurrent` | 2 tasks, 1 proxy, 1 client, cooldown 2, block 1, clock 0..4, no fault | `LevelsCoverViolations`, `DeadlinesMatchLevels`, `ViolationsStopAtTempBlock` for every copy of a record under any interleaving; `OnlyStaleTasksLiftBlocks`: who overwrites a block in force had fetched another record before |
| `engine_faults` | 1 task, 1 proxy, 1 client, cooldown 2, block 1, clock 0..6, 1 fault, fairness | `TypeOK` and the coherence of all copies with a fallback, half-executed commands, restarts, expiry in the middle of a save; `RefusalsKeepTheTerm`: a request is refused as blocked only for a violation of its client less than a cooldown ago, at TEMP_BLOCK less than a block's duration ago; `OnlyStaleTasksLiftBlocks`: nobody who saw a block in force overwrites it, and until the fault its key is dropped only between HSET and EXPIRE; `EveryRequestIsDecided`; until the fault, `KeepsStandings`: the engine implements `ClientStanding`, and `BlocksHoldTheirTerm`, except between HSET and EXPIRE |
| `buckets` | both algorithms, 2 tasks, 1 proxy, clock 0..3, 1 fault, limits at factor 1 and 1/2 | `AdmissionsBounded` (and `TypeOK`): what a store admits from any instant on is at most burst + rate * time, plus the rate for the time late calls set the bucket back; `RefusalsHaveCause`: who keeps to the lower of the two limits is never refused; `KeepsToPolicer`: both limiters implement `Policer` |
| `sliding_window` | 2 tasks, 1 proxy, windows of 2, clock 0..5, calls up to 2 late, 1 fault, limits of 2 and 1.5 requests | `WindowsWithinLimit`; `SpansWithinTwiceLimit`; `RefusalsLeaveNoTrace`; `EstimatesAreFaithful`: no counter is dropped while a call that needs it is on time (and `TypeOK`) |
| `policy_reload` | 2 policies, 3 entries (one no network), 3 clients, 1 request, 2 edits in any number of writes, at most 2 queued events, fairness | `ListsAreOfOnePolicy`, `QuietVerdictsFollowPolicy`, `EditsTakeEffect` (and `TypeOK`) |
| `detector` | 2 tasks, 1 proxy, interval of 1 s, ticks of 1 s, clock 0..4, 4 requests, 1 fault | `CountersExpire`, `BaselinesExpire`, `AnomaliesHaveCause`: fairness of scores once the update of a baseline has deleted the counter (and `TypeOK`: no variance below its least value) |
| `proxy` | 2 tasks, 1 proxy, slots of 1, TTL 2, clock 1..3, 2 requests, backend calls of half and 1.5 times the tolerated latency, 2 faults, fairness | `OverloadHasCause`, `WhitelistedAreForwarded`, `RequestsAreChargedOnce`, `LoadsCountForwards`, `EveryRequestIsAnswered` (and `TypeOK`: no multiplier leaves its range) |
| `script_cache` | 2 proxies, 2 tasks, 2 scripts, 3 faults, fairness | `CallsKeepPromise`: the cache implements `ScriptCall`; `RaisesHaveCause`: while its commands do not fail a call raises only for a script that Redis has lost; `EveryCallEnds` (and `TypeOK`) |

Why the bounds are enough. With thresholds 1, 2, 3, 4 three violations lead
from nothing to a temporary block; the scores reach CHALLENGE and FULL_BLOCK
without counting. A clock to 4 with cooldown 2 contains block, release, cooldown and a second escalation. The
one to 6 of `engine_faults` also contains a record that a cooldown has reset, its TTL of
2 * cooldown, and a violation whose HSET comes just before that TTL ends, which is the
shortest way to a block lost before its EXPIRE. Two
tasks suffice for every lost update, as a record is overwritten by one task with
what it read earlier. Under faults one task is enough, because the property of each
copy depends on one task and one stored record, and one proxy, because a single fault
puts a record in one fallback only. In the bucket
run the TTL is 2, so a clock to 3 has the key expire and refill. Windows of 2 and
a clock to 5 make three windows: requests at both ends of a window, a late call across
a boundary, and a counter dropped after its TTL of 4. In `policy_reload` requests do
not write what others read, so one is enough; the networks overlap, so that the order of
the two checks matters, and two edits make a reload begin while another edit is under
way. In the detector four requests contain a first one, one that closes the
interval, another that closes it with it, and one that is compared with the result; the
TTLs of counter (3) and baseline (4) both run out before the clock does. In the proxy two
requests and three instants contain a slow or failed request, a load that counts it, one
that no longer does, and a slot that is dropped; a load that overlaps a record and comes
out low needs a third request, and that case is left to the theorem. In `script_cache` three faults
make a SCRIPT LOAD fail, a script disappear and a command fail or a proxy restart;
two scripts suffice, as they differ in nothing but being loaded. What the
instances show for two tasks the theorems below prove for any number.

Time stops at `MaxClock`; a finite clock is harmless for safety and for
`EveryRequestIsDecided`, whose steps do not wait for time. The runs check for
deadlock, except where the number of requests is bounded (`detector`, `proxy`): there
the model stops when they are spent.

Each property of a passing run has a mutant, an operator `Mutant...` next to
the definition it replaces, that makes the property fail: a forgotten level in
the fallback, a cooldown or release one unit early, a block tested before the cooldown, the threshold of a wrong tier,
a violation whose time is not stored, an entry keyed by the wrong thing, a save
that repeats, a check that lets one request too many through, a TTL with rate
and capacity swapped or of one window instead of two, a late call that takes tokens
away, a rollback forgotten or done
twice, lists not cleared, a loop that ends at a bad entry, a thread that dies of a bad
file, a counter without TTL or not deleted, a TTL set on the wrong key, a slot too many, a factor without its least
value, a dry run that decides or is made for everybody, a failed backend call that is not
recorded, a SHA kept without its script or although SCRIPT LOAD failed, a forgotten script
called again without end, or a script sent a second time.

### Fairness

`FairSpec` of `EnforcementEngine` has weak fairness on `Resume(r) \/ Fail(r)` for each task: the event
loop resumes a coroutine whose awaited call has been answered or has raised, and
every awaited call does one or the other. The second half is an assumption. The
pool sets no socket timeout (`src/storage/redis_client.py:35`), so a Redis that
holds the connection open and never answers suspends requests for good.
No fairness is assumed of arrivals, time or faults. `FairSpec` of `ScriptCache` is
the same for a call of `run_script`. `FairSpec` of `ProxyRequest` has weak fairness on
`Proceed(r)`: the commands of Redis as above, and the backend call, which ends because the
client has a timeout of 10 s (`src/proxy/app.py:70`). `FairSpec` of `PolicyReload` has
weak fairness on the watcher thread: it blocks only on its queue, and the
interpreter switches to a runnable thread. The operator need not finish an edit;
`EditsTakeEffect` speaks of edits that are finished.

### Where code and documentation disagree

Each of these is a run that TLC ends with a counterexample.

| Run | Property | What happens |
|---|---|---|
| `block_cut_short` | `BlocksLastUntilDeadline` | the cooldown is tested first and lifts a block before its `block_until`: a FULL_BLOCK always, although it is "persistent" (`README.md:48`), and a TEMP_BLOCK when it is longer than the cooldown, as in the default configuration (block 600 s, cooldown 300 s) |
| `blacklist_skipped` | `BlacklistedAreRefused` | the watcher thread empties both lists before it fills them again; a client that both policies refuse passes meanwhile (`README.md:40`, `README.md:146`) |
| `baseline_expires` | `ActiveBaselinesKept` | the TTL of a baseline is set when the baseline is created and not renewed when it is updated, although it should "Expire after 1 hour of inactivity" (`src/detection/detector.py:70`): the baseline of an active client is dropped every hour and starts again from the default rate |
| `script_forgotten` | `EvictedScriptsAreReloaded` | a call whose script Redis has forgotten is to "reload and run" it (`src/storage/redis_client.py:91`), but the except clause before that raises AttributeError: after a restart of Redis every call by SHA raises until the proxy is restarted, and its limiters count in memory |

Other surprises are in the behaviour of the models, with a property that says what holds
in spite of them:

- Two violations of one client at the same time: the later save overwrites the block of
  the earlier one (engine.py:134 and 235 are a read and a write without a transaction).
  `BlocksHoldTheirTerm` therefore holds for one request of a client at a time only
  (`engine_faults`, and the theorem `BlocksHold`); `OnlyStaleTasksLiftBlocks` says what holds with several.
- The level of a violation is computed from its count and score alone: a client in
  CHALLENGE for its score falls to THROTTLE at its next violation (engine.py:228).
  `LevelsCoverViolations` says how far it may fall.
- The TTL of an old record may end between HSET and EXPIRE of a new block, which is then
  gone (engine.py:86, 97), although nothing failed. `OnlyStaleTasksLiftBlocks`, `BlocksHoldTheirTerm` and
  `ClientStanding` except this case (`Saving`) and no other; all copies stay coherent.
- A proxy's fallback keeps its record of an outage for ever (engine.py:103), and serves it
  whenever the hash is missing: a client whose standing was reset may find the old block
  again. `RefusalsKeepTheTerm` says that this block too ends with the term of its violation,
  because the cooldown is tested on every record that is fetched, and before the block.
- A late timestamp moves `last_updated` back, and the same seconds refill twice
  (token_bucket.lua:25). `AdmissionsBounded` counts that time (`setBack`) and nothing else.
- A baseline may be dropped between the HMGET and the HSET of an evaluation: the HSET then
  creates a key without a TTL (detector.py:96). `BaselinesExpire` says that without a fault
  this is the only way to a baseline that stays for ever.
- Two evaluations may both close an interval, and the DELETE of one discards what others
  have counted (detector.py:105). The rate is then understated, which no property notices.
- Between the HSET of an updated baseline (detector.py:96) and the DELETE of the counter
  (detector.py:105) another evaluation reads the new baseline and counts on from the old
  count: with a span near zero the rate is high, and the client may be reported for requests
  that the baseline already holds. The same goes for a whole interval after a DELETE that
  was lost. `AnomaliesHaveCause` excepts exactly the evaluations that count before the DELETE that
  belongs to their baseline, and all while a DELETE is lost; it says that otherwise no client is
  anomalous for requests that its baseline includes, however many close an interval at once.

Not in any model, as they concern responses or code that never runs: a refusal before the
first tier is reached is answered with the 403 of a block (app.py:186; `README.md:45` says
429, and with `config/default_config.yaml` the first two refusals of a client are of this
kind); the Slowloris detection of `README.md:41` is never called.

## 4. Proofs

`tlapm` checks the eight modules `...Proofs`. The theorems hold for all values of the constants that satisfy the assumptions.

**EnforcementEngineProofs.** `TypeCorrect`, `LevelsCover`, `DeadlinesMatch` and
`CountsStop`: `Spec => []TypeOK` and the three coherence invariants, for any
number of clients, proxies and tasks, any thresholds, durations and scores, any
number of faults, and time passing anywhere.
Assumptions: `TimingAssumption` (cooldown and block duration positive),
`TriggerAssumption` (a positive count and a score per tier), `TriggersAscend`
(counts rise with severity, as in every policy file of the repository;
`AppConfig` does not check it), `EngineAssumption`.
The invariants of the runs are not inductive. A task at `limit` goes on to
violate with the record it holds, so that record must not be that of a blocked
client, or its count would grow past the last tier it may reach; `IInv` adds
this to coherence of every copy. The lemmas show that `Reset`, `Deescalated` and
`Penalised` (of a record that is coherent and not blocked) build coherent records
and that `AfterFetch` hands on only such; each action then moves copies around.

`RefusalsInTerm` states `RefusalsKeepTheTerm`, with every fault and restart. Its invariant,
`BlocksAreEarned`, says that each copy of a record that blocks (in Redis, in a fallback, or held by a
coroutine) is stamped with the arrival of a violation of that client. Neither a reset nor a
release makes a blocking record, so only `Penalised` adds a stamp; the rest is copying, and
coherence (`IInv`) turns the stamp into the deadline.

The other action properties concern what lifts a block. `OverwritesAreStale` states
`OnlyStaleTasksLiftBlocks` for any number of racing coroutines and any faults. Its invariant,
`UnfailedIInv`, adds to `IInv` that a coroutine which goes on has not seen a block in force
(`Heeded`), and, until the first fault, `TimelyIInv`: no record and no coroutine is ahead of
the clock, the fallbacks are empty, and a key outlasts twice the cooldown unless its EXPIRE is due.
As blocks only end with time, what a coroutine overwrites is then another record than it
saw, and what Redis drops is cold or waits for its EXPIRE (`DroppedKeysAreCold`).
`BlocksHold` and `EngineKeepsStandings` (the refinement of `ClientStanding`) need in addition that the
requests of one client are evaluated one after the other, `[]OnePerClient`, an assumption
on the behaviour that the code does not enforce; those of different clients may interleave. Both
speak of the steps until the first fault: a fault does lift blocks, as it loses the hash or
hides it behind an empty fallback. `SerialIInv`
says that a running coroutine and the hash of its client agree (`Abreast`): at the
limiter the hash is what the coroutine holds or has expired, and an HSET to come is a violation,
a cooldown or the end of a block in the terms of `ClientStanding` (`Promised`).

**BucketLimiterProofs.** `TypeCorrect`, `Bounded`, `RefusalsJustified` and `KeepsPolicer`:
the invariants of the run and the refinement of `Policer`, for both algorithms, any
limits, stores and tasks. Assumptions: `CostAssumption`, `LimiterAssumption` (one request
fits into the least capacity), and `LimitsAssumption`: rate
and capacity are scaled together and never above the base, a bucket holds at
least one request. That is engine.py:178-182 as long as the floor of 0.1 under the
rate is not reached; below it the rate no longer shrinks with the capacity, and
the bucket is held for a shorter time than the base limits need to fill it.
The bound is not inductive, since it forgets what is left in the bucket. `IInv`
keeps for each store and each instant a *budget* (`WithinBudget`): what was
admitted since, plus the credit left, is at most what the bound allows at the
time of the last check; a bucket last checked earlier is judged by the credit it
will have then. A decision moves units from credit to admitted (`CheckIsAffordable`,
`BudgetSurvivesDecision`), and an expired key turns into a full bucket, which is
harmless because the TTL is at least the time the base rate takes to fill it
(`TtlIsLongEnough`, `BudgetSurvivesDrop`).
`RefusalsHaveCause` is the bound from the other side. `FloorIInv` says of each store that
what it could surely grant at the lowest limits (`Floor`) is explained by an instant since
which the client has asked for the rest (`Explained`), and that admissions only decline
with a later start (`Declines`); a decision, late or not, charges the client only for what
it admits (`CheckIsGenerous`, `ExplainedAtCheck`), and a dropped key charges nothing. For
`KeepsPolicer` a decision is a `Grant` or a `Refuse` by `CheckIsAffordable`, and a dropped
key is a `Refill` because `IInv` says that it was kept until its bucket was full.

**SlidingWindowProofs.** `TypeCorrect`, `WindowBound`, `SpanBound`, `NoTrace` and
`FaithfulEstimates`: the type invariant and the four properties of the run, for any
window, limits, stores and tasks. Assumptions: `SlidingAssumption` (limits at most
the base limit) and `DelayAssumption`. That a window stays within its limit depends
on its counter being the count of what was admitted; `IInv` says so for every
counter that a punctual call can still read (`CountersMatch`), and that Redis keeps
it until then (`KeptLongEnough`), for calls that are never ahead of the clock nor too
late (`CallsPunctual`). The decision then adds one only below the limit. A stretch of
a window's length lies in two adjacent windows (`SpansCovered`), which gives the
bound on it. The estimate differs from the true one only in a counter
that has expired, whose weight is at most the delay of the call.

**PolicyReloadProofs.** `TypeCorrect`, `OnePolicy` and `QuietVerdicts`: the invariants
of the run for any policies, entries, clients and requests. Assumption:
`PolicyAssumption` (types). `IInv` says what the lists hold at each statement of the
watcher thread (`ListsFollowWatcher`: from `Install` to `ClearBlack` what is left of an
earlier policy, then the entries the loop has visited) and that a quiet request has
so far been judged as the policy in force judges it (`QuietOnCourse`).

**ScriptCacheProofs.** `TypeCorrect`, `OnlyLostScriptsRaise` and `KeepsPromise`:
the type invariant, `RaisesHaveCause` and the refinement of `ScriptCall`, for any number of
proxies, tasks and scripts. Assumption: `CacheAssumption` (a type). The invariant adds that a
call which has not ended has not run its script yet, and that a script whose SHA a proxy
holds is in Redis or among those it has lost. Each action then maps to one step of `ScriptCall` or to
a stutter; a restarted proxy maps to `Raise` of all its calls.

**AnomalyDetectorProofs.** `TypeCorrect`, `CountersDoExpire`, `BaselinesDoExpire` and
`AnomaliesAreFair`.
Assumption: `DetectorAssumption` (positive intervals, `ewma_alpha` between 0 and 1, a
least variance of at most 1). `IInv` adds that an evaluation never lies in the future, that
the baseline of a client without one is not that of an interval, and, the core, that a
counter is younger than the baseline, and than each one fetched, unless the DELETE that
belongs to its update is still to come or a DELETE was lost (`SettledCounters`); the score of an evaluation inherits this at its INCR. For the
baseline, `BaselineIInv` says that one which an evaluation is about to update is still there
(`UpdatesKeepTtl`), as long as nothing was orphaned; its HSET then keeps the TTL, or the
evaluation that is to set one.

**GlobalMonitorProofs.** `MonitorTypeCorrect` and `MonitorIsFair`, of the monitor on its
own (`MonitorSpec`). Assumption: `MonitorAssumption`; `max_error_rate` is below 1, which the
code needs as a divisor and the configuration does not enforce. `MonitorIInv` says of each slot
without a slow or failed request that it has no errors and an average latency within what
is tolerated (`HealthySlots`), the same of the metrics in memory (`HealthyMemory`), and of each
call that it has read no errors in such slots and, if it is quiet, no fewer requests
than they hold now (`SoundCall`).

**ProxyRequestProofs.** `ImplementsMonitor`: every step of the composition is a step of
the monitor or leaves it alone, so that the theorems about the monitor hold of it
(`TypeCorrect`, `OverloadsHaveCause`). `WhitelistedPass` and `ChargedOnce` follow from
`RequestIInv`, which says that a request which waits for engine, load or limiter has not been
charged, and that a whitelisted one is in its dry run, with its decision made, until it is answered
(`SoundRequest`). `CountsForwards` is about the cardinality of the set of counted requests
(`Counted`); `CountIInv` says that they are no more than the requests forwarded and
recorded, that before the first fault and the first expiry they are exactly these, and that no
slot is dropped before its time (`KeptLongEnough`). A record that is executed adds one element
to the set, and its request leaves those still to be recorded in the same step; one that
raised and is repeated in memory adds at most the one it was due.

Every invariant and action property of the passing runs, and each of the three
refinements, is the statement of a theorem. Only model-checked are the liveness
properties (`EveryRequestIsDecided`, `EditsTakeEffect`, `EveryRequestIsAnswered`,
`EveryCallEnds`), which are outside the reach of the prover, like ENABLED and induction
over recursive definitions. The modules under proof declare no RECURSIVE operator.

## 5. What is left out

Within the modelled parts: the rounding of floats; the fields of a decision other
than `allowed` and `escalation_level`; a configuration that changes during a
request, detection or monitoring switched off; logging and metrics. Out of the model
entirely: the contents of HTTP requests and responses, header parsing and fingerprints,
`detect_slowloris`, which keeps no state and is never called, the sample backend, dashboards,
the attack simulator. `ConfigManager` and `IngestionMiddleware` are modelled from the start of the
watcher on; before it there is one thread, and nothing to interleave.

The engine, the limiters and the detector are separate models rather than one: they share
no state, and each is checked against every answer the others may give (scores, limits,
verdicts), which includes all that their composition could.

## 6. Plan

What remains, in this order:

1. The policy of `PolicyReload` composed with the engine, which reads it up to three
   times in one evaluation (engine.py:80, 106, 131).
2. `Retry-After` and `remaining` of all three limiters as what Lua truncation and
   `int()` make of them, and the status of a refusal.
