# Weir QoS: TLA+ models

These modules model the concurrent and stateful parts of Weir, which has two halves:

- **Enforcer.** HAProxy filter code under `src/haproxy-lua/added-files/src/`. `flt_weir.c` holds the per-stream filter and the user-limit table. `rate_limit.c` holds the ip:port throttle table and its sweeper thread. The filter logs event lines over syslog UDP.
- **Aggregator.** `src/syslog_server/src/`. For each worker, a producer thread receives the event lines and cuts each one at its event prefix. It pushes the line on a bounded SPSC queue. A consumer thread parses the lines into per-second counters and per-connection gauges. It flushes them through a hiredis client (`redis_utils.cpp`), and a watcher thread checks that client for DNS changes.

The parts interact in two ways:

- The filter calls into the throttle table (`rl_speed_throttle`, `set_ip_port_key`, `rl_request_end`, `rl_data_transferred`).
- The filter's event lines are what the aggregator parses.

Each model takes the other side of such a boundary as a nondeterministic input:

- `WeirFilter` takes the throttle answer as an input.
- `Aggregator` takes the store connection as an environment boolean.

## Modules

| Module | Code | State | Actions |
|---|---|---|---|
| `WeirFilter` | `flt_weir.c` (C2 user-limit table, C4 filter callbacks, refresh task, CLI dump, the activate-weir parser) | the parsed activate-weir `rule`; `user_limit_state` presence, active counts, last-end tick, shares, log ticks; per-stream `weir_lim_state`; the dump context `show_lim_ctx`; ghosts for freed limits, log gaps and the users a dump listed | `weir_attach`, `weir_enable_filter` (with the opportunistic sweep), `weir_http_headers`, `weir_http_payload` split at its atomic load and `ThrottleLogCas`, `weir_detach`, `weir_ingest_limit_share_update`, `emit_active_request_refresh`, `cli_show_weir_limits`, `Tick`, `Aborted` (a `WEIR_BUG_ON`) |
| `ThrottleTable` | `rate_limit.c` (C3) | `ipKey` (ip_port_key_hashmap), `connCount` (key_ip_port_count_hashmap), `policy` per direction, sweeper direction, per-thread program counter and held key pointer; ghosts `doomed`, `stale`, `uaf` for freed key strings | `SetKeyLocked`/`FreeOldKey` (set_ip_port_key split at its unlock), `EndLocked`/`FreeOldKey` (rl_request_end), `Lookup`/`LookupMiss`/`Use` (rl_speed_throttle and rl_data_transferred split at the unlock in get_key_from_ip_port), `SetThrottleEpoch`, `Sweep` (remove_old_epochs), `Tick`; `AllowedRunTime` translates compute_allowed_run_time with a `RECURSIVE` `Pow2` |
| `RedisConnection` | `redis_utils.cpp`, thread loops of `msg_processor.cpp` (C7) | status, reconnect flag, connected IP, context pointer, ev loop, owed replies, deferred disconnect, consumer and watcher program counters, DNS answer | `ConsumerStart`, `sendToRedisQos`, `DrainBegin`/`DrainEnd` (one `ev_run`), `connectCallbackOk`/`connectCallbackErr`, `replyCallback`, `disconnectCallbackErr`, `reconnectIfNeeded`, `checkResolve`/`checkCompare` (checkIfNeedsReconnect), and the environment's `DnsChange`, `FlushPeriodPasses`, `ConnectIntervalPasses` |
| `Aggregator` | `syslog_server.cpp` `msgProducerThread` (C5), `msg_processor.cpp` and `stringsplit.cpp` (C6) | SPSC queue, consumer position, command map, gauge map, pending count, flush period, clock second; ghosts `accepted`, `stored`, `erased` | `msgProducerThread(dg, e)` (truncation check, newline stripping, prefix cut, log routing), `ConsumerDequeue` (dispatch to `processReq`, `processDataXfer`, `processActiveRequests`, `processReqEnd`), `ConsumerTimeout`, `sendToRedisQos` (`SendAll` or `DropStale`), `Tick`, `PeriodPasses`, `ConnectionFlips` |
| `QosBuckets` | none: the abstract specification of the command map (spec §4.6, §7) | `now`, `buffer`, `sent`, `dropped` | `Add` (counts only go to buckets of the current second), `Publish` (the whole buffer at once), `Expire` (only buckets at least `Ttl` seconds old), `Tick` |

`MC*.tla` give the model values and the small constant sets: streams, users, connections, keys and IPs. `PROJECT.json` maps every definition that models code to its source lines.

### How the models follow the code

- **A locked section is one atomic step.** A call is split where the code releases a lock and then goes on using what it read. Examples:
  - `set_ip_port_key` frees the old key after `pthread_rwlock_unlock`.
  - `get_key_from_ip_port` returns a pointer after unlocking.
  - `weir_http_payload` runs its atomic load and its CAS as separate steps.
- **HAProxy ticks wrap.** `WeirFilter` counts elapsed ticks in `now` and derives `now_ms` as `NowMs == (StartTick + now) % 2^TickBits`. `TickIsExpired` and `TickAdd` follow HAProxy's `tick_is_expired` (a signed difference) and `tick_add` (a sum of 0, which means TICK_ETERNITY, becomes 1). Every tick the filter stores or compares goes through these operators.
- **The user table has a bucket layout.** `cli_show_weir_limits` walks khash buckets, so each user key has a home bucket (`Home`). The model uses the smallest khash table: 4 buckets and at most two keys with distinct hashes. In that table a key always sits in its home bucket, a key put back after `kh_del` reuses it, and no resize happens. Each applet call emits rows until a nondeterministically chosen row does not fit the output buffer.
- **Time is a variable that only grows.** `ThrottleTable` lets `time()` jump through a set of seconds, so that policy ages 0 to 3 and the stale age all occur.
- **Aggregator lines are token sequences.** `"D"` is the delimiter `~|~`. The `"req"` in a user key such as `<<"AK","req">>` is one token. So `Find` (string_view::find) finds `req~|~` inside that key exactly where the C++ does. `Split` is StringSplit's field sequence, and `SplitOk(s,k)` is `finishedSuccessfully()` after k calls of `next()`.
- **Sub-second time in the stale cutoff.** `std::erase_if` compares full time points, while a bucket is keyed by its second. So `DropStale` (through `Erase`) drops every bucket more than `Ttl` seconds older than `now`, and any subset of those exactly `Ttl` seconds older.
- **The activate-weir rule is parsed, samples are fetched.** `activate_weir_limit` is a recursive operator over the words of the configured line (`RuleArgs`). A sample expression is one word: `"expr"` is one `sample_parse_expr` accepts, any other word one it rejects. `Init` stores the parsed rule in `rule`, which never changes. `weir_enable_filter` fetches only the samples `rule` names. A configured user-key sample yields one of `KeySamples`, where `NoUser` is a fetch that gives no string. A configured operation-direction sample yields one of `DirLiterals`. `weir_throttle_log` and `weir_bug_on` include the failed key fetch. `weir_bug_on` configures a line without user-key, which the parser accepts.
- **Datagrams are inputs.** `msgProducerThread` receives an event line with or without a trailing newline, or one of `OtherDatagrams`: an access-log JSON line, Lua log text, or bare newlines. All-newline datagrams reach the `buf_view[0]` read of an empty view. That read is undefined behaviour; the model takes the outcome of a build without library assertions, which reads the `'\n'` still in the buffer.
- **Two clock reads in `processReq`.** It calls `m_time.now()` twice, so the model lets the second turn between the class count and the verb count.

### Refinement

`Aggregator` instantiates `QosBuckets` with `buffer <- cmds`, `sent <- stored` and `dropped <- erased`; `now` and `Ttl` map to themselves. `BucketsRefined == Buckets!Spec` is a property of `aggregator_flush`, so every step of the producer, the consumer and the environment is either a `QosBuckets` step or leaves the mapped state unchanged. Specifically:

- a `processReq` step whose second turns between its two clock reads is one `Add` step with `now' = now + 1`;
- a connected flush is `Publish`;
- a disconnected flush is `Expire`.

`QosBuckets` states its actions as relations between two states. It is the abstract side only and has no run of its own.

## Runs

| Run | Expect | What it shows |
|---|---|---|
| `weir_lifecycle` | pass | No live stream holds a freed user-limit record (`NoDanglingLimit`), and no count is below its live streams (`ActiveCoversLiveStreams`). This holds under every interleaving of two users' streams with the sweep. It also holds while `now_ms` wraps: no user is freed before the grace period after its last request (`NoEarlySweep`). |
| `weir_throttle_log` | pass | Two throttled streams race on the load/CAS of `next_throttle_log_tick`, yet two `weir-throttle` lines are always a full interval apart. |
| `weir_shares` | pass | Shares stay clamped to `UINT_MAX` (`TypeOK`). A `show weir limits` dump of two users may be split over several applet calls. A call can emit a row and run out of room before the next one, and between calls the sweep and new shares change the table. Once the dump ends, it has listed every user that stayed in the table throughout (`CliDumpListsStayedUsers`). `ActivateWeirParsesGrammar` holds in every state. The parser agrees with a declarative grammar of the action on every line of up to five words (name/expression pairs, then the end of the line or a condition). The rule the streams run with is the one the grammar gives. |
| `weir_active_leak` | violation | `active_requests` is incremented on enable but decremented only after headers. So a stream rejected before its headers leaks a count (finding). |
| `weir_bug_on` | violation | A rule without user-key, `activate-weir operation-direction <expr> if <acl>`, is accepted by the parser. Its first request then ends in a `WEIR_BUG_ON` abort, although spec.md calls the sample optional (finding). A failed key fetch has the same effect. An unknown or missing operation-direction sample also ends in an abort (a second finding, shown when `KeySamples` holds only keys). |
| `throttle_backoff` | pass | The allowed run time stays within 1 s, and from age 1 on it is at least `MIN_RUN_TIME_USEC`. Every stale policy is eventually deleted. |
| `throttle_conn_count` | violation | Re-keying an ip:port increments the new key's count without decrementing the old one (finding). |
| `throttle_use_after_free` | violation | Two connections share a client ip:port. One frees the key string after unlocking while the other still reads it (finding). |
| `redis_reconnect` | pass | The context pointer is null exactly when disconnected. After DNS changes, failed connects and lost connections settle, the client ends up connected to the current address. |
| `redis_loop_in_run` | violation | A DNS-change reconnect with replies still owed completes inside `ev_run`. `connect()` then destroys the loop that is running (finding). |
| `aggregator_flush` | pass | Every parsed count is buffered, sent or erased exactly once (`CountsConserved`). The command map keeps emptying even if the store never comes back (`BufferedEventuallyResolved`). The command map implements `QosBuckets` (`BucketsRefined`): counts go only to the current second's buckets, a flush publishes everything, and nothing younger than `redis_qos_ttl` is discarded. |
| `aggregator_prefix` | violation | A `req_end`, `data_xfer` or `active_reqs` line whose user key ends in `req` is cut at the `req~|~` inside the key. `processReq` then drops it (finding). |

Each property of a passing run is paired in `PROJECT.json` with a mutant of the code it is about, and TLC finds the mutant. Examples: the flush condition with `&&` in place of `||`, a command map not cleared after sending, a sweeper that never changes direction, `reconnectIfNeeded` without its disconnect, a stale cutoff of `now + ttl` instead of `now - ttl`, the sweep's grace test as an unsigned comparison, and a dump that counts the row that did not fit as emitted.

## Bounds

These bounds are enough for the cases the properties are about to happen:

- **WeirFilter:** two streams and two users. That is the least needed for a sweep to race another user's stream and for two streams to race a CAS.
  - `now_ms` is 3 bits wide. Every interval is below half its range, as `tick_is_expired` needs. `weir_lifecycle` starts at tick 5, so within `MaxTime` 3 a sweep falls due, and a request-end expiry wraps past 0 and becomes 1.
  - The parser is checked on all 9,331 lines of at most five words over the three argument names, an accepted expression, a rejected one and `if`. Five words hold two full pairs followed by a condition word, or a pair followed by a dangling name and its value.
  - The dump runs only in `weir_shares`, with two users in buckets 0 and 1 (`MCHomeAdjacent`). A call that emits u1 and then runs out of room resumes at u2's bucket, so an offset one too far drops u2. To fit the time budget, this run has one stream slot, one share value and stamp, and `now_ms` starting at 1 with three ticks. That is enough for a user to end its request at tick 1 and be swept at tick 3 between two calls. The two-stream races are covered by the other runs. The repeated rows of the finding need an empty bucket before the emitted rows. They were shown with `Home` u1→1 in a separate check, using an assertion in place of the property.
  - The runs with user symmetry set `ShowLimits` to FALSE, because `Home` is not symmetric.
- **ThrottleTable:**
  - two connections sharing one ip:port for the use-after-free;
  - two keys for re-keying;
  - ratio 3/2 and epoch values on both sides of the clamps;
  - seconds {0, 1, 3, 130}, which cover ages 0, 1 and 3 and a policy older than 120 s.
- **RedisConnection:** three addresses and at most three DNS changes and three failures. So a DNS change can happen while failures are still possible, and the name can move again, to a third address, while a reconnect to the second is under way.
- **Aggregator:**
  - two datagrams and a queue of one, so that the drop on a full queue occurs;
  - a batch count of 2, so that a flush by count and a flush by time both occur;
  - Ttl 1 and MaxTime 4. The clock may pass MaxTime while a bucket is younger than the TTL (`TimeGoesOn`). Buckets are stamped when the line is parsed, so a fixed end of time would freeze a late bucket before it could age;
  - a plain key and a key ending in `req`;
  - every event line with and without a trailing newline, plus a JSON line, a Lua line and a datagram of two newlines;
  - `BufferLen` 64 tokens. No datagram is that long, so the truncation branch is never taken. The real buffer is the socket's receive buffer, which is larger than the largest UDP datagram; that branch can be reached only with an unusually small `rmem_max`.

## Fairness

- **Threads that loop forever get weak fairness.** These are the aggregator's consumer and watcher threads and the sweeper thread.
- **Time and the batch period get weak fairness.** These are `Tick`, `PeriodPasses`, `FlushPeriodPasses` and `ConnectIntervalPasses`.
- **Redis answers get strong fairness only in `RedisConnection`.** These are `connectCallbackOk` and `replyCallback`. They are enabled only while the consumer is inside `ev_run`, so enabledness flickers. Failures are bounded by `MaxFails`, so eventual connection is a statement about a network that settles.
- **Nothing in the environment is fair.** The connection in `Aggregator` may stay down for ever. That is why `BufferedEventuallyResolved` is the spec's promise that buffered state is discarded after `qos_ttl`.

## Faults the models include

- **Lost, reordered and unparseable datagrams.** `Aggregator`'s producer takes any event in any order, or a datagram that is not an event line. A lost datagram is one that is never received.
- **A full queue.** With a queue of one, `try_enqueue` fails and the line is dropped.
- **The store going away.** `ConnectionFlips` may happen at any time and is never fair. `RedisConnection` has failed connects and lost connections, bounded by `MaxFails`, and DNS changes, bounded by `MaxDnsChanges`.
- **Descheduled threads.** A thread may stop at any point between two modelled steps. The clock (`Tick`) can jump over that gap, which is how stale clock reads reach `ThrottleTable`'s decisions.

A wall clock that steps back, and a process crash, are not modelled. Nothing in the aggregator persists across a restart, and the enforcer's tables are in memory.

## Not modelled

- **`apply_bandwidth_limit` and HAProxy's `freq_ctr`.** The first is never called; the second is HAProxy core, not in this repository.
- **Pure I/O.** This covers:
  - the aggregator's YAML configuration, and the option keywords of `parse_weir_flt` (their values are constants of the model);
  - socket creation and receive-buffer sizing;
  - logging.
- **Processor construction and destruction.** The thread loops are modelled as running for ever. The destructor is not modelled; it joins the consumer thread without requesting its stop (a finding without a run: see `PROJECT.json`).
- **The jitter sleep in `rl_speed_throttle`.** It only delays the answer.
- **The text of the store commands.** Each is represented by the count it carries.
- **The byte-sum width.** An `int` overflow in `processDataXfer` is listed as a hazard. It needs about 2^31 bytes in one second.
- **hiredis's deferred disconnect inside `ev_run`.** This is library behaviour, not code under `src/`. `RedisConnection` models it from the library's documented semantics.
