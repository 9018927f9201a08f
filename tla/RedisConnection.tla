--------------------------- MODULE RedisConnection ---------------------------
(***************************************************************************)
(* The store client of the syslog server (redis_utils.cpp): one            *)
(* RedisServerConnection used by two threads of a Processor                *)
(* (msg_processor.cpp).                                                    *)
(*                                                                         *)
(*  - The consumer thread (messageConsumerThread) connects once, then      *)
(*    loops: sendToRedisQos (which reconnects when disconnected and the    *)
(*    connect interval has passed, or pipelines commands when connected),  *)
(*    drainRedisCmdPipeline (one non-blocking ev_run, from which hiredis   *)
(*    calls connectCallback, replyCallback and disconnectCallback), and    *)
(*    reconnectIfNeeded.                                                   *)
(*  - The watcher thread (checkRedisServerConnThread) calls                *)
(*    checkIfNeedsReconnect every check interval: while connected and not *)
(*    yet flagged it resolves the host name and flags a reconnect when no  *)
(*    resolved address is the connected peer's.                            *)
(*                                                                         *)
(* The environment changes what the host name resolves to, loses          *)
(* connections and fails connection attempts (a bounded number of times), *)
(* and lets time pass.  Statistics counters and log lines are left out.    *)
(***************************************************************************)
EXTENDS Naturals

CONSTANTS
    Ips,            \* addresses the Redis host name can resolve to
    MaxDnsChanges,  \* bound on changes of the host name's address
    MaxFails        \* bound on failed connects and lost connections

ASSUME Ips # {} /\ MaxDnsChanges \in Nat /\ MaxFails \in Nat

NoIp    == "noip"       \* m_redis_ip before any connection
NullCtx == "null"       \* m_async_context == nullptr

States == {"disconnected", "connecting", "connected", "disconnecting"}

VARIABLES
    status,         \* m_connection_status
    needsReconnect, \* m_needs_reconnect
    redisIp,        \* m_redis_ip: the peer address of the last connection made
    ctx,            \* m_async_context: NullCtx, or the address it connects to
    loop,           \* m_loop: "none" or "live"
    pending,        \* the context owes replies to pipelined commands
    closing,        \* redisAsyncDisconnect deferred until those replies arrive
    cpc,            \* the consumer thread's place in its loop
    inRun,          \* the consumer thread is inside ev_run(m_loop)
    wpc,            \* the watcher thread's place in checkIfNeedsReconnect
    wRes,           \* the address the watcher's getaddrinfo returned
    dns,            \* what the host name resolves to now
    dnsChanges,     \* how often it has changed
    fails,          \* failures the environment has caused
    flushDue,       \* metrics_batch_period has passed since the last flush
    connectDue,     \* check_conn_interval has passed since the last connect
    freedInRun      \* ghost: ev_loop_destroy ran on the loop ev_run was running

vars == <<status, needsReconnect, redisIp, ctx, loop, pending, closing, cpc, inRun,
          wpc, wRes, dns, dnsChanges, fails, flushDue, connectDue, freedInRun>>

conn  == <<status, ctx, loop, freedInRun, fails>>
env   == <<dns, dnsChanges>>
watch == <<wpc, wRes>>

TypeOK ==
    /\ status \in States
    /\ needsReconnect \in BOOLEAN
    /\ redisIp \in Ips \cup {NoIp}
    /\ ctx \in Ips \cup {NullCtx}
    /\ loop \in {"none", "live"}
    /\ pending \in BOOLEAN /\ closing \in BOOLEAN /\ inRun \in BOOLEAN
    /\ cpc \in {"start", "send", "drain", "run", "reconnect"}
    /\ wpc \in {"idle", "cmp"}
    /\ wRes \in Ips \cup {NoIp}
    /\ dns \in Ips /\ dnsChanges \in 0..MaxDnsChanges
    /\ fails \in 0..MaxFails
    /\ flushDue \in BOOLEAN /\ connectDue \in BOOLEAN /\ freedInRun \in BOOLEAN

Init ==
    /\ status = "disconnected"
    /\ needsReconnect = FALSE
    /\ redisIp = NoIp
    /\ ctx = NullCtx
    /\ loop = "none"
    /\ pending = FALSE /\ closing = FALSE /\ inRun = FALSE
    /\ cpc = "start"
    /\ wpc = "idle" /\ wRes = NoIp
    /\ dns \in Ips /\ dnsChanges = 0
    /\ fails = 0
    /\ flushDue = FALSE /\ connectDue = FALSE
    /\ freedInRun = FALSE

-----------------------------------------------------------------------------
(***************************************************************************)
(* connect(), entered with status st and context c.  Unless disconnected   *)
(* it only logs.  Otherwise redisAsyncConnect resolves the host name now;  *)
(* a failed allocation or an immediate error leaves it disconnected.  On   *)
(* success the old event loop, if any, is destroyed (ev_loop_destroy) and  *)
(* a new one made, and the context waits for its connect callback.         *)
(***************************************************************************)
ConnectFrom(st, c) ==
    \/ /\ st # "disconnected"
       /\ status' = st /\ ctx' = c
       /\ UNCHANGED <<loop, freedInRun, fails>>
    \/ /\ st = "disconnected"
       /\ fails < MaxFails
       /\ fails' = fails + 1
       /\ status' = st /\ ctx' = c
       /\ UNCHANGED <<loop, freedInRun>>
    \/ /\ st = "disconnected"
       /\ status' = "connecting"
       /\ ctx' = dns
       /\ loop' = "live"
       /\ freedInRun' = (freedInRun \/ (loop = "live" /\ inRun))
       /\ UNCHANGED fails

(* disconnectCallback(c, REDIS_OK): disconnected, the context pointer     *)
(* cleared, and connect() called at once.                                  *)
DisconnectOkThenConnect == ConnectFrom("disconnected", NullCtx)

-----------------------------------------------------------------------------
(* messageConsumerThread, before its loop: connect().                     *)
ConsumerStart ==
    /\ cpc = "start"
    /\ ConnectFrom(status, ctx)
    /\ connectDue' = FALSE
    /\ cpc' = "send"
    /\ UNCHANGED <<needsReconnect, redisIp, pending, closing, inRun, watch, env, flushDue>>

(***************************************************************************)
(* sendToRedisQos.  Not due: return.  Due and not connected: connect() if  *)
(* the connect interval has passed (the buffered commands stay or are      *)
(* dropped, which this module does not track).  Due and connected: the     *)
(* buffered commands, if any, go into the pipeline (addCommand).           *)
(***************************************************************************)
sendToRedisQos ==
    /\ cpc = "send"
    /\ cpc' = "drain"
    /\ \/ /\ ~flushDue
          /\ UNCHANGED <<conn, pending, connectDue, flushDue>>
       \/ /\ flushDue /\ status # "connected"
          /\ flushDue' = FALSE
          /\ IF connectDue
                THEN connectDue' = FALSE /\ ConnectFrom(status, ctx)
                ELSE UNCHANGED <<connectDue, conn>>
          /\ UNCHANGED pending
       \/ /\ flushDue /\ status = "connected"
          /\ flushDue' = FALSE
          /\ \E cmds \in BOOLEAN : pending' = (pending \/ cmds)
          /\ UNCHANGED <<conn, connectDue>>
    /\ UNCHANGED <<needsReconnect, redisIp, closing, inRun, watch, env>>

(* drainRedisCmdPipeline: ev_run(m_loop, EVRUN_NOWAIT) if there is a loop. *)
DrainBegin ==
    /\ cpc = "drain"
    /\ \/ loop = "none" /\ cpc' = "reconnect" /\ UNCHANGED inRun
       \/ loop = "live" /\ cpc' = "run" /\ inRun' = TRUE
    /\ UNCHANGED <<conn, needsReconnect, redisIp, pending, closing, watch, env, flushDue, connectDue>>

DrainEnd ==
    /\ cpc = "run"
    /\ cpc' = "reconnect" /\ inRun' = FALSE
    /\ UNCHANGED <<conn, needsReconnect, redisIp, pending, closing, watch, env, flushDue, connectDue>>

-----------------------------------------------------------------------------
(* Callbacks hiredis makes from inside ev_run.                             *)

(* connectCallback(c, REDIS_OK): connected; the peer address is stored.   *)
connectCallbackOk ==
    /\ inRun /\ status = "connecting"
    /\ status' = "connected"
    /\ redisIp' = ctx
    /\ UNCHANGED <<ctx, loop, freedInRun, fails, needsReconnect, pending, closing, cpc, inRun,
                   watch, env, flushDue, connectDue>>

\* Mutant: the failed context is not cleared.
connectCallbackErrKeepCtx ==
    /\ inRun /\ status = "connecting"
    /\ fails < MaxFails
    /\ fails' = fails + 1
    /\ status' = "disconnected"
    /\ UNCHANGED <<ctx, loop, freedInRun, redisIp, needsReconnect, pending, closing, cpc, inRun,
                   watch, env, flushDue, connectDue>>

(* connectCallback(c, error): disconnected, context pointer cleared.      *)
connectCallbackErr ==
    /\ inRun /\ status = "connecting"
    /\ fails < MaxFails
    /\ fails' = fails + 1
    /\ status' = "disconnected"
    /\ ctx' = NullCtx
    /\ UNCHANGED <<loop, freedInRun, redisIp, needsReconnect, pending, closing, cpc, inRun,
                   watch, env, flushDue, connectDue>>

(***************************************************************************)
(* replyCallback for the last owed reply.  If redisAsyncDisconnect was     *)
(* deferred for it, hiredis now disconnects and calls                      *)
(* disconnectCallback(c, REDIS_OK), which calls connect() while ev_run is  *)
(* still running the loop connect() destroys.                              *)
(***************************************************************************)
replyCallback ==
    /\ inRun /\ pending
    /\ status \in {"connected", "disconnecting"}
    /\ pending' = FALSE
    /\ IF closing
          THEN closing' = FALSE /\ DisconnectOkThenConnect
          ELSE UNCHANGED <<closing, conn>>
    /\ UNCHANGED <<needsReconnect, redisIp, cpc, inRun, watch, env, flushDue, connectDue>>

(* The connection is lost: disconnectCallback(c, error) leaves it         *)
(* disconnected, with no reconnect of its own.                             *)
disconnectCallbackErr ==
    /\ inRun
    /\ status \in {"connected", "disconnecting"}
    /\ fails < MaxFails
    /\ fails' = fails + 1
    /\ status' = "disconnected"
    /\ ctx' = NullCtx
    /\ pending' = FALSE /\ closing' = FALSE
    /\ UNCHANGED <<loop, freedInRun, needsReconnect, redisIp, cpc, inRun, watch, env,
                   flushDue, connectDue>>

\* Mutant: disconnecting is set but redisAsyncDisconnect is never called.
reconnectIfNeededNoDisconnect ==
    /\ cpc = "reconnect"
    /\ cpc' = "send"
    /\ needsReconnect' = FALSE
    /\ IF needsReconnect /\ status = "connected"
          THEN status' = "disconnecting" /\ UNCHANGED <<ctx, loop, freedInRun, fails, closing>>
          ELSE UNCHANGED <<conn, closing>>
    /\ UNCHANGED <<redisIp, pending, inRun, watch, env, flushDue, connectDue>>

(***************************************************************************)
(* reconnectIfNeeded.  If flagged and connected: disconnecting, then       *)
(* redisAsyncDisconnect, which with no owed replies disconnects at once    *)
(* (disconnectCallback(c, REDIS_OK) and connect(), outside ev_run) and     *)
(* otherwise waits for them.  The flag is cleared whenever it was set,     *)
(* connected or not.                                                       *)
(***************************************************************************)
reconnectIfNeeded ==
    /\ cpc = "reconnect"
    /\ cpc' = "send"
    /\ needsReconnect' = FALSE
    /\ IF needsReconnect /\ status = "connected"
          THEN IF pending
                  THEN status' = "disconnecting" /\ closing' = TRUE
                       /\ UNCHANGED <<ctx, loop, freedInRun, fails>>
                  ELSE DisconnectOkThenConnect /\ UNCHANGED closing
          ELSE UNCHANGED <<conn, closing>>
    /\ UNCHANGED <<redisIp, pending, inRun, watch, env, flushDue, connectDue>>

-----------------------------------------------------------------------------
(* checkIfNeedsReconnect, up to getaddrinfo: only while connected and not *)
(* flagged; the resolved address is kept.  (A failed lookup returns with  *)
(* nothing changed.)                                                       *)
checkResolve ==
    /\ wpc = "idle"
    /\ status = "connected" /\ ~needsReconnect
    /\ wpc' = "cmp" /\ wRes' = dns
    /\ UNCHANGED <<conn, needsReconnect, redisIp, pending, closing, cpc, inRun, env,
                   flushDue, connectDue>>

(* The rest of checkIfNeedsReconnect: m_redis_ip, read now, is compared    *)
(* with the resolved address and the flag written.                         *)
checkCompare ==
    /\ wpc = "cmp"
    /\ needsReconnect' = (wRes # redisIp)
    /\ wpc' = "idle" /\ wRes' = NoIp
    /\ UNCHANGED <<conn, redisIp, pending, closing, cpc, inRun, env, flushDue, connectDue>>

-----------------------------------------------------------------------------
(* Environment.                                                            *)
DnsChange ==
    /\ dnsChanges < MaxDnsChanges
    /\ \E ip \in Ips \ {dns} : dns' = ip
    /\ dnsChanges' = dnsChanges + 1
    /\ UNCHANGED <<conn, needsReconnect, redisIp, pending, closing, cpc, inRun, watch,
                   flushDue, connectDue>>

FlushPeriodPasses ==
    /\ ~flushDue /\ flushDue' = TRUE
    /\ UNCHANGED <<conn, needsReconnect, redisIp, pending, closing, cpc, inRun, watch, env,
                   connectDue>>

ConnectIntervalPasses ==
    /\ ~connectDue /\ connectDue' = TRUE
    /\ UNCHANGED <<conn, needsReconnect, redisIp, pending, closing, cpc, inRun, watch, env,
                   flushDue>>

Consumer ==
    ConsumerStart \/ sendToRedisQos \/ DrainBegin \/ DrainEnd \/ reconnectIfNeeded

Callbacks ==
    connectCallbackOk \/ connectCallbackErr \/ replyCallback \/ disconnectCallbackErr

Watcher == checkResolve \/ checkCompare

Next ==
    Consumer \/ Callbacks \/ Watcher
    \/ DnsChange \/ FlushPeriodPasses \/ ConnectIntervalPasses

(***************************************************************************)
(* Both threads run forever and time passes, so their steps are weakly     *)
(* fair.  A callback can only be dispatched while ev_run is running, which *)
(* the consumer enters and leaves in every iteration, so the server's      *)
(* answers (a successful connect, a reply) are strongly fair: an answer    *)
(* the server keeps giving is eventually dispatched.  Failures and DNS     *)
(* changes are not fair, and are bounded.                                  *)
(***************************************************************************)
Spec ==
    /\ Init /\ [][Next]_vars
    /\ WF_vars(Consumer) /\ WF_vars(Watcher)
    /\ WF_vars(FlushPeriodPasses) /\ WF_vars(ConnectIntervalPasses)
    /\ SF_vars(connectCallbackOk) /\ SF_vars(replyCallback)

-----------------------------------------------------------------------------
(* The context pointer is set exactly while a connection is in progress,  *)
(* up or being closed: connect()'s assertion that it is null when          *)
(* disconnected holds, and addCommand never gets a null context.           *)
CtxMatchesStatus == (status = "disconnected") <=> (ctx = NullCtx)

(* Once the host name stops changing and the network stops failing, the  *)
(* client ends up connected, for good, to the address the name resolves  *)
(* to.                                                                     *)
ConnectedToCurrentIp == <>[](status = "connected" /\ redisIp = dns)

(* connect() never destroys the event loop that ev_run is running.        *)
NoLoopDestroyedInRun == ~freedInRun

====
