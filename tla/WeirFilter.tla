----------------------------- MODULE WeirFilter -----------------------------
(***************************************************************************)
(* The Weir HAProxy filter (flt_weir.c): the per-stream filter state       *)
(* (struct weir_lim_state) of concurrently running streams and the shared  *)
(* user-limit table (weir_filter_config.user_limit_state) guarded by       *)
(* state_lock.  Each handler that takes state_lock is one atomic step; the *)
(* throttle-log election in weir_http_payload is split at its atomic load  *)
(* and its compare-and-swap, because other threads run in between.        *)
(*                                                                         *)
(* Time is HAProxy's now_ms in abstract ticks, an unsigned counter of     *)
(* TickBits bits that wraps; 0 is TICK_ETERNITY (unset).                   *)
(* The answer of rl_speed_throttle is an input here; ThrottleTable models  *)
(* how it is computed.                                                     *)
(***************************************************************************)
EXTENDS Integers, FiniteSets, Sequences

CONSTANTS
    Streams,        \* streams (one filter instance each), model values
    Users,          \* user keys
    Verbs,          \* HTTP methods seen, e.g. {"GET", "PUT"}
    DirLiterals,    \* values the operation-direction sample can take (NoLit: not configured)
    ShareValues,    \* limit shares the controller may send
    ShareStamps,    \* limit-share timestamps
    UIntMax,        \* UINT_MAX, scaled down
    CleanupInterval,\* USERMAP_CLEANUP_INTERVAL_MS, in ticks
    CleanupGrace,   \* USERMAP_CLEANUP_MIN_MS_SINCE_DISCONNECT, in ticks
    LogInterval,    \* the 1000 ms between two weir-throttle logs, in ticks
    RefreshInterval,\* refresh_interval_ms, in ticks
    MaxTime,        \* bound on the ticks that elapse
    TickBits,       \* width of now_ms, scaled down from 32
    StartTick,      \* now_ms when the filter is parsed
    MaxActive,      \* bound on an active_requests count
    ThrottleAnswers,\* answers rl_speed_throttle may give (TRUE: RL_THROTTLE)
    CliBuckets,     \* n_buckets of user_limit_state
    Home,           \* the bucket each user key hashes to
    ShowLimits,     \* TRUE: "show weir limits" is issued on the CLI
    KeySamples,     \* what the user-key sample can yield (NoUser: no key)
    RuleArgs        \* the words after activate-weir in the configuration

ASSUME CleanupInterval > 0 /\ CleanupGrace > 0 /\ LogInterval > 0
       /\ RefreshInterval > 0 /\ MaxTime \in Nat /\ MaxActive \in Nat
       /\ ThrottleAnswers \subseteq BOOLEAN
       /\ StartTick \in 0..2^TickBits - 1 /\ MaxTime < 2^TickBits
       /\ \A i \in {CleanupInterval, CleanupGrace, LogInterval, RefreshInterval} : i < 2^(TickBits - 1)
       \* khash's smallest table (4 buckets, resized once 3 are occupied) with
       \* keys of distinct hashes: every key sits in its home bucket, a key
       \* put back after kh_del reuses it, and no resize ever moves a key.
       /\ CliBuckets = 4 /\ Cardinality(Users) <= 2 /\ ShowLimits \in BOOLEAN
       /\ Home \in [Users -> 0..CliBuckets - 1]
       /\ \A u, v \in Users : Home[u] = Home[v] => u = v

NoUser == "none"          \* a NULL limit / limit_key pointer
NoLit  == "absent"        \* operation-direction not configured (NULL)
Dirs   == {"up", "dwn"}

\* A user-key sample that is not configured, or whose fetch fails, leaves
\* limit_key NULL.
ASSUME KeySamples \subseteq Users \cup {NoUser} /\ KeySamples \cap Users # {}

-----------------------------------------------------------------------------
(* activate_weir_limit: the argument parser of the activate-weir action.   *)
(* Sample expressions are abstracted to one word: "expr" is a word that    *)
(* sample_parse_expr accepts, any other word is one it rejects.            *)
(* A rule is its set of filled slots (p[0] user-key, p[1]                  *)
(* operation-class, p[2] operation-direction) and the index of the first   *)
(* word left to HAProxy, the ACL condition.                                *)
WeirArgNames == {"user-key", "operation-class", "operation-direction"}

SampleParses(w) == w = "expr"

ParseError == [ok |-> FALSE, slots |-> {}, next |-> 0]

(* The while loop from args[i] on: a word that is not an argument name     *)
(* ends it; a name without a value, or whose value sample_parse_expr       *)
(* rejects, is a parse error; otherwise the slot is (re)filled.            *)
RECURSIVE ParseWeirArgs(_, _, _)
ParseWeirArgs(args, i, slots) ==
    IF i > Len(args) \/ args[i] \notin WeirArgNames
    THEN [ok |-> TRUE, slots |-> slots, next |-> i]
    ELSE IF i + 1 > Len(args) \/ ~SampleParses(args[i + 1]) THEN ParseError
    ELSE ParseWeirArgs(args, i + 2, slots \cup {args[i]})

(* Mutant: *orig_arg is not advanced, so HAProxy reads the action's own   *)
(* arguments again as its condition.                                       *)
ActivateWeirKeepsArg(filterFound, args) ==
    IF ~filterFound \/ args = <<>> THEN ParseError
    ELSE [ParseWeirArgs(args, 1, {}) EXCEPT !.next = 1]

(* No weir filter declared in the proxy, or no word at all: an error.      *)
activate_weir_limit(filterFound, args) ==
    IF ~filterFound \/ args = <<>> THEN ParseError
    ELSE ParseWeirArgs(args, 1, {})

\* The rule of the modelled configuration, which declares the weir filter;
\* HAProxy refuses to start on a parse error.
Rule == activate_weir_limit(TRUE, RuleArgs)

ASSUME RuleArgs \in Seq(WeirArgNames \cup {"expr", "junk", "if"}) /\ Rule.ok


VARIABLES
    now,            \* ticks elapsed since parse_weir_flt (now_ms is NowMs)
    nextCleanup,    \* conf->next_cleanup_tick
    refreshAt,      \* refresh_task->expire
    present,        \* keys of user_limit_state
    active,         \* user_limit.{upload,download}.active_requests
    lastEnd,        \* user_limit.last_request_end_tick
    share,          \* user_limit.{upload,download}.{limit_received,limit_timestamp,bytes_per_second}
    logTick,        \* user_limit.{upload,download}.next_throttle_log_tick
    st,             \* per-stream weir_lim_state plus the stream's progress
    bug,            \* a WEIR_BUG_ON fired: the process aborted
    dangling,       \* ghost: streams whose st->limit was freed by the sweep
    logGap,         \* ghost: least gap between the windows (new_log_tick) of two
                    \* successive weir-throttle lines of one user and direction
    cas,            \* locals of a weir_http_payload call between its load and its CAS
    cli,            \* the show_lim_ctx of a "show weir limits" dump, with ghosts
    rule            \* rule->arg.act of the activate-weir action, as parsed

vars == <<now, nextCleanup, refreshAt, present, active, lastEnd, share,
          logTick, st, bug, dangling, logGap, cas, cli, rule>>

\* weir_enable_filter fetches only the samples the rule configures.
UserKeySamples == IF "user-key" \in rule.slots THEN KeySamples ELSE {NoUser}
DirSamples     == IF "operation-direction" \in rule.slots THEN DirLiterals ELSE {NoLit}

(* Stream progress: "new" (no stream in this slot, or its filter not yet  *)
(* attached), "req" (attached, request rules running), "fwd" (request     *)
(* headers callback ran).  A detached stream frees its slot for the next   *)
(* stream, so Streams bounds the streams that are open at once.            *)
Stages == {"new", "req", "fwd"}

StreamRec == [stage: Stages, addr: BOOLEAN, meth: Verbs, enabled: BOOLEAN,
              headers: BOOLEAN, limit: Users \cup {NoUser},
              dirLit: DirLiterals \cup {NoLit}, held: BOOLEAN]

\* A stream before weir_attach and after weir_detach: its weir_lim_state is
\* zeroed (attach) or no longer exists (detach).
FreshState ==
    [stage |-> "new", addr |-> FALSE, meth |-> CHOOSE m \in Verbs : TRUE,
     enabled |-> FALSE, headers |-> FALSE, limit |-> NoUser, dirLit |-> NoLit,
     held |-> FALSE]

\* No weir_http_payload call is between its atomic load and its CAS.
NoCas == [dir |-> "none", loaded |-> 0, newTick |-> 0]
CasRec == [dir: Dirs, loaded: Nat, newTick: Nat]

\* st->limit was set by weir_enable_filter, and the data filters registered.
Registered(s) == st[s].limit # NoUser

ZeroShare == [received |-> FALSE, ts |-> 0, bps |-> 0]

TickRange == 2^TickBits

\* now_ms.
NowMs == (StartTick + now) % TickRange

\* The difference of two ticks as the int HAProxy computes it.
TickDiff(a, b) == LET m == (a - b) % TickRange
                  IN IF m < TickRange \div 2 THEN m ELSE m - TickRange

\* tick_isset / tick_is_expired / tick_add of HAProxy: expiry is a signed
\* difference, and an addition that lands on 0 (TICK_ETERNITY) gives 1.
TickIsSet(t) == t # 0
TickIsExpired(t, n) == TickIsSet(t) /\ TickDiff(t, n) <= 0
TickAdd(n, d) == IF (n + d) % TickRange = 0 THEN 1 ELSE (n + d) % TickRange

\* verb_direction: PUT and POST upload, everything else downloads.
VerbDirection(m) == IF m \in {"PUT", "POST"} THEN "up" ELSE "dwn"

Live(s) == st[s].stage \in {"req", "fwd"}

TypeOK ==
    /\ now \in 0..MaxTime
    /\ nextCleanup \in 0..TickRange - 1 /\ refreshAt \in 0..TickRange - 1
    /\ present \subseteq Users
    /\ active \in [Users -> [Dirs -> Int]]
    /\ lastEnd \in [Users -> 0..TickRange - 1]
    /\ share \in [Users -> [Dirs -> [received: BOOLEAN, ts: Nat, bps: 0..UIntMax]]]
    /\ logTick \in [Users -> [Dirs -> 0..TickRange - 1]]
    /\ st \in [Streams -> StreamRec]
    /\ bug \in BOOLEAN
    /\ dangling \subseteq Streams
    /\ logGap \in 0..LogInterval
    /\ cas \in [Streams -> CasRec \cup {NoCas}]
    /\ cli \in [on: BOOLEAN, skip: 0..CliBuckets, listed: SUBSET Users,
                stayed: SUBSET Users]
    /\ rule \in [ok: BOOLEAN, slots: SUBSET WeirArgNames, next: Nat]

Init ==
    /\ now = 0
    /\ nextCleanup = TickAdd(StartTick, CleanupInterval)     \* parse_weir_flt
    /\ refreshAt = TickAdd(StartTick, RefreshInterval)       \* task_schedule
    /\ present = {}
    /\ active = [u \in Users |-> [d \in Dirs |-> 0]]
    /\ lastEnd = [u \in Users |-> 0]
    /\ share = [u \in Users |-> [d \in Dirs |-> ZeroShare]]
    /\ logTick = [u \in Users |-> [d \in Dirs |-> 0]]
    /\ st = [s \in Streams |-> FreshState]
    /\ cas = [s \in Streams |-> NoCas]
    /\ rule = Rule
    /\ bug = FALSE
    /\ dangling = {}
    /\ logGap = LogInterval
    /\ cli = [on |-> FALSE, skip |-> 0, listed |-> {}, stayed |-> {}]

-----------------------------------------------------------------------------
(* weir_attach: a zeroed state; remote_addr only for an inet source.       *)
weir_attach(s) ==
    /\ ~bug
    /\ st[s].stage = "new"
    /\ \E hasAddr \in BOOLEAN, m \in Verbs :
          st' = [st EXCEPT ![s].stage = "req", ![s].addr = hasAddr, ![s].meth = m]
    /\ UNCHANGED <<now, nextCleanup, refreshAt, present, active, lastEnd, share,
                   logTick, bug, dangling, logGap, cas, cli>>

(* The sweep at the end of weir_enable_filter: a user with no active      *)
(* request in either direction, whose last request ended CleanupGrace ago, *)
(* is freed.  A freed user_limit goes back to the pool; an absent user     *)
(* holds the zeroed record that pool_zalloc hands out when it is re-added. *)
\* Defect variant: a sweep that checks only the download count.
SweepableOneDir(u, act, n) ==
    /\ act[u]["dwn"] <= 0
    /\ TickIsExpired(TickAdd(lastEnd[u], CleanupGrace), n)

\* Defect variant: the grace period compared as unsigned ticks, not by
\* tick_is_expired.
SweepableUnsigned(u, act, n) ==
    /\ act[u]["dwn"] <= 0
    /\ act[u]["up"] <= 0
    /\ n >= TickAdd(lastEnd[u], CleanupGrace)

Sweepable(u, act, n) ==
    /\ act[u]["dwn"] <= 0
    /\ act[u]["up"] <= 0
    /\ TickIsExpired(TickAdd(lastEnd[u], CleanupGrace), n)

Sweep(freed, act) ==
    /\ active' = [v \in Users |-> IF v \in freed THEN [x \in Dirs |-> 0] ELSE act[v]]
    /\ lastEnd' = [v \in Users |-> IF v \in freed THEN 0 ELSE lastEnd[v]]
    /\ share' = [v \in Users |-> IF v \in freed THEN [x \in Dirs |-> ZeroShare] ELSE share[v]]
    /\ logTick' = [v \in Users |-> IF v \in freed THEN [x \in Dirs |-> 0] ELSE logTick[v]]
    /\ dangling' = dangling \cup {t \in Streams : Live(t) /\ st[t].limit \in freed}

(* weir_enable_filter, run by an activate-weir rule in the request or the  *)
(* response rules.  A second activation is ignored (a stuttering step).    *)
(* An operation-direction other than "up"/"dwn" returns after enabled was  *)
(* set and before the limit is looked up.  Otherwise a missing user key    *)
(* trips WEIR_BUG_ON(st->limit_key == NULL) before the table is touched.   *)
weir_enable_filter(s) ==
    /\ ~bug
    /\ Live(s)
    /\ ~st[s].enabled
    /\ \E u \in UserKeySamples, lit \in DirSamples :
        LET d       == VerbDirection(st[s].meth)
            act1    == [active EXCEPT ![u][d] = @ + 1]
            doSweep == TickIsExpired(nextCleanup, NowMs)
            freed   == IF doSweep THEN {v \in present \cup {u} : Sweepable(v, act1, NowMs)}
                                  ELSE {}
        IN \/ /\ lit \notin {"up", "dwn", NoLit}
              /\ st' = [st EXCEPT ![s].enabled = TRUE, ![s].dirLit = lit]
              /\ UNCHANGED <<nextCleanup, present, active, lastEnd, share, logTick, dangling, cli, bug>>
           \/ /\ lit \in {"up", "dwn", NoLit} /\ u = NoUser
              /\ st' = [st EXCEPT ![s].enabled = TRUE, ![s].dirLit = lit]
              /\ bug' = TRUE
              /\ UNCHANGED <<nextCleanup, present, active, lastEnd, share, logTick, dangling, cli>>
           \/ /\ lit \in {"up", "dwn", NoLit} /\ u # NoUser
              /\ active[u][d] < MaxActive                    \* model bound
              /\ st' = [st EXCEPT ![s].enabled = TRUE, ![s].dirLit = lit, ![s].limit = u]
              /\ present' = (present \cup {u}) \ freed
              /\ Sweep(freed, act1)
              /\ nextCleanup' = IF doSweep THEN TickAdd(NowMs, CleanupInterval) ELSE nextCleanup
              /\ cli' = [cli EXCEPT !.stayed = @ \cap present']
              /\ UNCHANGED bug
    /\ UNCHANGED <<now, refreshAt, logGap, cas>>

(* weir_http_headers for the request: marks headers_processed and emits   *)
(* the req line.  The WEIR_BUG_ONs abort the process.                      *)
weir_http_headers(s) ==
    /\ ~bug
    /\ st[s].stage = "req"
    /\ IF st[s].enabled /\ st[s].addr
       THEN /\ st' = [st EXCEPT ![s].stage = "fwd", ![s].headers = TRUE]
            /\ bug' = (st[s].limit = NoUser \/ st[s].dirLit = NoLit)
       ELSE /\ st' = [st EXCEPT ![s].stage = "fwd"]
            /\ UNCHANGED bug
    /\ UNCHANGED <<now, nextCleanup, refreshAt, present, active, lastEnd, share,
                   logTick, dangling, logGap, cas, cli>>

(* weir_http_payload, first part, for a stream with a remote address whose *)
(* next_allowed_send_tick is unset or expired (without an address the      *)
(* bytes are forwarded and nothing changes).  A missing operation-         *)
(* direction trips WEIR_BUG_ON; otherwise rl_speed_throttle decides.  Not  *)
(* throttled: forward the bytes.  Throttled: hold the stream until now+1   *)
(* and, if the user's log tick is unset or expired, keep the loaded value  *)
(* and new_log_tick for the CAS.                                           *)
PayloadDir(chn) == IF chn = "req" THEN "up" ELSE "dwn"

weir_http_payload(s) ==
    /\ ~bug
    /\ st[s].stage = "fwd" /\ Registered(s) /\ st[s].addr /\ cas[s] = NoCas
    /\ ~st[s].held
    /\ \/ /\ st[s].dirLit = NoLit
          /\ bug' = TRUE
          /\ UNCHANGED <<st, cas>>
       \/ /\ st[s].dirLit # NoLit
          /\ \E chn \in {"req", "res"}, throttled \in ThrottleAnswers :
              LET d == PayloadDir(chn)
                  v == logTick[st[s].limit][d]
              IN /\ st' = [st EXCEPT ![s].held = throttled]
                 /\ cas' = IF throttled /\ (~TickIsSet(v) \/ TickIsExpired(v, NowMs))
                           THEN [cas EXCEPT ![s] = [dir |-> d, loaded |-> v,
                                                    newTick |-> TickAdd(NowMs, LogInterval)]]
                           ELSE cas
          /\ UNCHANGED bug
    /\ UNCHANGED <<now, nextCleanup, refreshAt, present, active, lastEnd, share,
                   logTick, dangling, logGap, cli>>

\* Ghost bookkeeping of a weir-throttle line for window w, emitted while the
\* user's log tick held prev (0 after the user was created).
LogLine(g, prev, w) ==
    IF prev = 0 \/ TickDiff(w, prev) >= g THEN g ELSE TickDiff(w, prev)

\* Defect variant: a plain store of new_log_tick in place of the CAS.
ThrottleLogStore(s) ==
    /\ ~bug
    /\ cas[s] # NoCas
    /\ LET u == st[s].limit
           c == cas[s]
       IN /\ logTick' = [logTick EXCEPT ![u][c.dir] = c.newTick]
          /\ logGap' = LogLine(logGap, logTick[u][c.dir], c.newTick)
    /\ cas' = [cas EXCEPT ![s] = NoCas]
    /\ UNCHANGED <<now, nextCleanup, refreshAt, present, active, lastEnd, share,
                   st, bug, dangling, cli>>

(* weir_http_payload, second part: HA_ATOMIC_CAS of the log tick.  Only   *)
(* the thread whose CAS succeeds emits the weir-throttle line.             *)
ThrottleLogCas(s) ==
    /\ ~bug
    /\ cas[s] # NoCas
    /\ LET u == st[s].limit
           c == cas[s]
       IN IF logTick[u][c.dir] = c.loaded
          THEN /\ logTick' = [logTick EXCEPT ![u][c.dir] = c.newTick]
               /\ logGap' = LogLine(logGap, logTick[u][c.dir], c.newTick)
          ELSE UNCHANGED <<logTick, logGap>>
    /\ cas' = [cas EXCEPT ![s] = NoCas]
    /\ UNCHANGED <<now, nextCleanup, refreshAt, present, active, lastEnd, share,
                   st, bug, dangling, cli>>

\* Defect variant: detach gives the request back to the download count
\* whatever the method.
DetachDownload(s) ==
    /\ ~bug
    /\ Live(s) /\ cas[s] = NoCas
    /\ IF st[s].enabled /\ st[s].headers /\ st[s].addr
       THEN /\ lastEnd' = [lastEnd EXCEPT ![st[s].limit] = NowMs]
            /\ active' = [active EXCEPT ![st[s].limit]["dwn"] = @ - 1]
       ELSE UNCHANGED <<lastEnd, active>>
    /\ st' = [st EXCEPT ![s] = FreshState]
    /\ dangling' = dangling \ {s}
    /\ UNCHANGED <<now, nextCleanup, refreshAt, present, share, logTick, bug,
                   logGap, cas, cli>>

(* weir_detach: only a stream that was enabled and whose request headers  *)
(* were processed gives its active request back and ends the request in   *)
(* the ip:port table (rl_request_end, modelled in ThrottleTable).          *)
weir_detach(s) ==
    /\ ~bug
    /\ Live(s) /\ cas[s] = NoCas
    /\ IF st[s].enabled /\ st[s].headers /\ st[s].addr
       THEN LET u == st[s].limit
                d == VerbDirection(st[s].meth)
            IN /\ lastEnd' = [lastEnd EXCEPT ![u] = NowMs]
               /\ active' = [active EXCEPT ![u][d] = @ - 1]
       ELSE UNCHANGED <<lastEnd, active>>
    /\ st' = [st EXCEPT ![s] = FreshState]
    /\ dangling' = dangling \ {s}
    /\ UNCHANGED <<now, nextCleanup, refreshAt, present, share, logTick, bug,
                   logGap, cas, cli>>

\* Defect variant: the share is stored without the clamp to UINT_MAX.
IngestUnclamped ==
    /\ ~bug
    /\ \E u \in Users, d \in Dirs, ts \in ShareStamps, val \in ShareValues :
        /\ present' = present \cup {u}
        /\ share' = [share EXCEPT ![u][d] =
                        IF ts >= share[u][d].ts
                        THEN [received |-> TRUE, ts |-> ts, bps |-> val]
                        ELSE [share[u][d] EXCEPT !.received = TRUE]]
    /\ UNCHANGED <<now, nextCleanup, refreshAt, active, lastEnd, logTick, st, bug,
                   dangling, logGap, cas, cli>>

(* weir_ingest_limit_share_update for this instance: creates the user if  *)
(* absent, clamps the share to UINT_MAX, marks the share received and      *)
(* stores it only if its timestamp is not older.  An unknown direction     *)
(* string only creates the user.                                           *)
weir_ingest_limit_share_update ==
    /\ ~bug
    /\ \E u \in Users, d \in Dirs \cup {"other"}, ts \in ShareStamps, val \in ShareValues :
        /\ present' = present \cup {u}
        /\ share' = IF d \notin Dirs THEN share
                    ELSE [share EXCEPT ![u][d] =
                            IF ts >= @.ts
                            THEN [received |-> TRUE, ts |-> ts,
                                  bps |-> IF val > UIntMax THEN UIntMax ELSE val]
                            ELSE [@ EXCEPT !.received = TRUE]]
    /\ UNCHANGED <<now, nextCleanup, refreshAt, active, lastEnd, logTick, st, bug,
                   dangling, logGap, cas, cli>>

(* emit_active_request_refresh: reads the table under the read lock, emits *)
(* active_reqs lines and re-arms the task.                                 *)
emit_active_request_refresh ==
    /\ ~bug
    /\ TickIsExpired(refreshAt, NowMs)
    /\ refreshAt' = TickAdd(NowMs, RefreshInterval)
    /\ UNCHANGED <<now, nextCleanup, present, active, lastEnd, share, logTick,
                   st, bug, dangling, logGap, cas, cli>>

(* cli_show_weir_limits: one call of the "show weir limits" applet.  The  *)
(* context is zeroed before the first call of a dump.  Under the read lock *)
(* the call walks the buckets from kh_begin + ctx->skip and emits the row  *)
(* of every bucket that holds a key, until a row does not fit the output   *)
(* buffer (the call returns 0 and the applet is called again later) or the *)
(* last bucket is passed (the dump ends).  Ghosts: the users listed so     *)
(* far, and the users present since the first call (stayed, narrowed by    *)
(* the sweep).                                                              *)
\* Defect variant: the row that did not fit is counted as emitted.
ResumeSkipPastFailed(skip, n) == skip + n + 1

\* ctx->skip after a call that emitted n rows and then ran out of room.
ResumeSkip(skip, n) == skip + n

cli_show_weir_limits ==
    /\ ~bug
    /\ ShowLimits
    /\ LET skip   == IF cli.on THEN cli.skip ELSE 0
           listed == IF cli.on THEN cli.listed ELSE {}
           stayed == IF cli.on THEN cli.stayed ELSE present
       IN \E c \in skip..CliBuckets :
            LET rows == {u \in present : Home[u] \in skip..c - 1}
                full == c < CliBuckets /\ \E u \in present : Home[u] = c
            IN /\ full \/ c = CliBuckets
               /\ cli' = [on |-> full,
                          skip |-> IF full THEN ResumeSkip(skip, Cardinality(rows)) ELSE 0,
                          listed |-> listed \cup rows, stayed |-> stayed]
    /\ UNCHANGED <<now, nextCleanup, refreshAt, present, active, lastEnd, share,
                   logTick, st, bug, dangling, logGap, cas>>

(* now_ms advances.  A next_allowed_send_tick of now_ms + 1 expires.       *)
Tick ==
    /\ now < MaxTime
    /\ now' = now + 1
    /\ st' = [s \in Streams |-> [st[s] EXCEPT !.held = FALSE]]
    /\ UNCHANGED <<nextCleanup, refreshAt, present, active, lastEnd, share,
                   logTick, bug, dangling, logGap, cas, cli>>

(* After a WEIR_BUG_ON the process is gone: nothing more happens. *)
Aborted ==
    /\ bug
    /\ UNCHANGED vars

\* The configuration, and with it the parsed rule, stays as loaded.
Next ==
    /\ UNCHANGED rule
    /\ \/ \E s \in Streams :
             \/ weir_attach(s)
             \/ weir_enable_filter(s)
             \/ weir_http_headers(s)
             \/ weir_http_payload(s)
             \/ ThrottleLogCas(s)
             \/ weir_detach(s)
       \/ weir_ingest_limit_share_update
       \/ emit_active_request_refresh
       \/ cli_show_weir_limits
       \/ Tick
       \/ Aborted

Spec == Init /\ [][Next]_vars

-----------------------------------------------------------------------------
CountedStreams(u, d) ==
    {s \in Streams : Live(s) /\ st[s].limit = u /\ VerbDirection(st[s].meth) = d}

(* The comment on weir_lim_state.limit: the pointer stays valid for the     *)
(* stream's lifetime because the sweep in weir_enable_filter frees a user   *)
(* only after its last request ended.  No live stream ever holds a freed    *)
(* user_limit.                                                              *)
NoDanglingLimit == dangling = {}

(* The active-request count of a user never drops below the number of its  *)
(* live streams that counted themselves in weir_enable_filter: the count   *)
(* the sweep trusts never under-reports a running request.                 *)
ActiveCoversLiveStreams ==
    \A u \in present, d \in Dirs : active[u][d] >= Cardinality(CountedStreams(u, d))

(* The atomic CAS on next_throttle_log_tick elects one logger per window:  *)
(* the windows (new_log_tick) of two weir-throttle lines for the same user *)
(* and direction are at least one log interval apart, however many threads *)
(* throttle that user at once.                                              *)
ThrottleLogOncePerInterval ==
    logGap = LogInterval

(* spec.md 8, active-request conservation: the active count of a user     *)
(* equals its live counted streams, so it returns to 0 once they are gone. *)
ActiveRequestsConserved ==
    \A u \in present, d \in Dirs : active[u][d] = Cardinality(CountedStreams(u, d))

(* The sweep in weir_enable_filter frees a user only once                  *)
(* USERMAP_CLEANUP_MIN_MS_SINCE_DISCONNECT has passed since its last       *)
(* request ended, also when now_ms wraps around in between: a step that    *)
(* drops a user whose last_request_end_tick is set comes at least          *)
(* CleanupGrace ticks after that tick.                                     *)
NoEarlySweep ==
    [][\A u \in present \ present' :
         TickIsSet(lastEnd[u]) => (NowMs - lastEnd[u]) % TickRange >= CleanupGrace]_vars

(* The comment on cli_show_weir_limits: the applet is called until it has  *)
(* emitted all the required data.  A dump that ends lists every user that  *)
(* stayed in the table from its first call to its last, however many      *)
(* calls the output buffer splits it into and whatever the sweep removes   *)
(* in between.                                                              *)
CliDumpListsStayedUsers ==
    [][cli.on /\ ~cli'.on => cli'.stayed \subseteq cli'.listed]_vars

\* The activate-weir lines checked against the grammar: every word
\* sequence of up to MaxRuleArgs words.
MaxRuleArgs == 5
RuleArgSeqs ==
    UNION {[1..n -> WeirArgNames \cup {"expr", "junk", "if"}] : n \in 0..MaxRuleArgs}

\* args[1..n] is n/2 pairs of an argument name and an accepted expression.
IsPairs(args, n) ==
    /\ n % 2 = 0 /\ n <= Len(args)
    /\ \A j \in 1..n : IF j % 2 = 1 THEN args[j] \in WeirArgNames ELSE SampleParses(args[j])

\* The grammar of the action: name/expression pairs, then anything that
\* does not start with an argument name.
RuleGrammar(args) ==
    LET n == CHOOSE n \in 0..Len(args) : IsPairs(args, n) /\ ~IsPairs(args, n + 2)
    IN IF args # <<>> /\ (n = Len(args) \/ args[n + 1] \notin WeirArgNames)
       THEN [ok |-> TRUE, slots |-> {args[j] : j \in {i \in 1..n : i % 2 = 1}}, next |-> n + 1]
       ELSE ParseError

\* The parser on every bounded line (a constant: TLC evaluates it once).
ParserMatchesGrammar ==
    \A args \in RuleArgSeqs : activate_weir_limit(TRUE, args) = RuleGrammar(args)

(* activate_weir_limit accepts exactly the lines of the action's grammar:  *)
(* leading user-key / operation-class / operation-direction pairs, each    *)
(* with an expression sample_parse_expr accepts, followed by the end of    *)
(* the line or a word that is not an argument name (the ACL condition,     *)
(* which it leaves to HAProxy); it fills the slots named and stops at the  *)
(* first word after the pairs.  In particular a line with no user-key,     *)
(* such as "activate-weir if TRUE", is accepted.  The rule the streams    *)
(* run with is, in every state, the one the grammar gives for the          *)
(* configured line.                                                        *)
ActivateWeirParsesGrammar ==
    /\ rule = RuleGrammar(RuleArgs)
    /\ ParserMatchesGrammar

(* No WEIR_BUG_ON aborts the process. *)
NoFatalAssertion == ~bug
====
