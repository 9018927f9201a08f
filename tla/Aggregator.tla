----------------------------- MODULE Aggregator -----------------------------
(***************************************************************************)
(* One aggregator worker (src/syslog_server/src): the UDP producer thread  *)
(* that cuts each syslog datagram at the first event prefix it finds and   *)
(* pushes it on the SPSC queue (syslog_server.cpp msgProducerThread), and  *)
(* the consumer thread that parses queued lines into the per-second        *)
(* command map and the connection gauges and flushes them to the store     *)
(* (msg_processor.cpp).                                                    *)
(*                                                                         *)
(* A line is a sequence of tokens: "D" stands for the delimiter "~|~", and *)
(* every other token for a run of characters that contains no delimiter.   *)
(* A user key is itself a token sequence, so a key that ends in the        *)
(* characters "req" is written <<..., "req">>: substring search over       *)
(* tokens then finds "req~|~" inside it exactly where string_view::find    *)
(* finds it in the characters.                                             *)
(*                                                                         *)
(* The store connection is an environment boolean here; its protocol is    *)
(* the subject of RedisConnection.                                         *)
(***************************************************************************)
EXTENDS Integers, Sequences, SequencesExt, TLC

CONSTANTS
    Keys,       \* user keys the enforcer logs, as token sequences
    Classes,    \* request classes, as token sequences (<<>> = none)
    Nums,       \* decimal tokens the enforcer prints for counts and bytes
    Ttl,        \* redis_qos_ttl, in seconds
    BatchCount, \* metrics_batch_count
    QueueSize,  \* msg_queue_size: capacity of the SPSC queue
    MaxTime,    \* last second the model reaches
    MaxEmits,   \* number of datagrams the enforcer sends
    OtherDatagrams, \* datagrams that are not event lines (access-log JSON,
                    \* Lua log text, bare newlines), as token sequences
    BufferLen   \* buffer_len (the socket receive buffer), in tokens

NumVal == ("1" :> 1) @@ ("2" :> 2) @@ ("3" :> 3)
ASSUME Nums \subseteq DOMAIN NumVal /\ Ttl \in Nat /\ BatchCount \in Nat \ {0}

VARIABLES
    now,        \* wall-clock second of m_time.now()
    periodDue,  \* metrics_batch_period_msec has elapsed since the last flush
    queue,      \* m_haprxy_mesg_q: records [data, ev]; ev is a ghost
    cpc,        \* consumer loop position: "deq" or "send"
    cmds,       \* m_qos_redis_commands: [user, sec, cat] -> count
    gauges,     \* m_qos_redis_active_reqs: [dir, inst, user] -> value
    notSent,    \* m_qos_not_send_count
    connected,  \* m_qos_redis_conn->connected()
    emits,      \* datagrams sent so far (bounded by MaxEmits)
    accepted,   \* ghost: counts the handlers folded into cmds, per key
    stored,     \* ghost: counts sent to the store by HINCRBY, per key
    erased      \* ghost: counts dropped as stale while disconnected

vars == <<now, periodDue, queue, cpc, cmds, gauges, notSent, connected,
          emits, accepted, stored, erased>>

-----------------------------------------------------------------------------
(* Event lines as flt_weir.c and rate_limit.c format them; "hdr" is the   *)
(* syslog header send_log puts in front.                                  *)

Events ==
    [type: {"req"}, key: Keys, n: Nums, cls: Classes]
    \cup [type: {"req_end", "data_xfer", "active_reqs"}, key: Keys, n: Nums, cls: {<<>>}]

Line(e) ==
    <<"hdr">> \o
    CASE e.type = "req" ->
            <<"req", "D", "IP", "D">> \o e.key \o
            <<"D", "PUT", "D", "up", "D", "I", "D", e.n, "D">> \o e.cls
      [] e.type = "req_end" ->
            <<"req_end", "D", "IP", "D">> \o e.key \o
            <<"D", "PUT", "D", "up", "D", "I", "D", e.n>>
      [] e.type = "data_xfer" ->
            <<"data_xfer", "D", "IP", "D">> \o e.key \o <<"D", "up", "D", e.n>>
      [] e.type = "active_reqs" ->
            <<"active_reqs", "D", "I", "D">> \o e.key \o <<"D", "up", "D", e.n>>

Prefix(t) == <<t, "D">>     \* RawEvents::reqStart() etc.: "<t>~|~"

(* string_view::find: the first index of pat in s, 0 for npos. *)
Find(s, pat) == IF pat \in SubSeqs(s) THEN IndexFirstSubSeq(pat, s) ELSE 0

(* The producer's search: the first prefix, in this order, that occurs    *)
(* anywhere in the line wins.                                             *)
ProducerPrefixOrder == <<"req", "req_end", "data_xfer", "active_reqs", "req_end">>

RECURSIVE FirstFound(_, _)
FirstFound(s, order) ==
    IF order = <<>> THEN 0
    ELSE LET p == Find(s, Prefix(Head(order)))
         IN IF p # 0 THEN p ELSE FirstFound(s, Tail(order))

(* StringSplit over "~|~": the fields, empty ones included, are the runs *)
(* between consecutive delimiter positions.                               *)
Split(s) ==
    LET cut == <<0>> \o SelectSeq([j \in 1..Len(s) |-> j], LAMBDA j : s[j] = "D")
                   \o <<Len(s) + 1>>
    IN [i \in 1..Len(cut) - 1 |-> SubSeq(s, cut[i] + 1, cut[i + 1] - 1)]

(* After k calls of next(), finishedSuccessfully() holds iff the line has *)
(* exactly k fields.                                                      *)
SplitOk(s, k) == Len(Split(s)) = k

(* from_chars accepts a field that starts with a digit. *)
IsNum(f) == Len(f) > 0 /\ f[1] \in DOMAIN NumVal

IsPrintable(f) == \A i \in 1..Len(f) : f[i] # "ctl"

AddTo(f, k, v) == IF k \in DOMAIN f THEN [f EXCEPT ![k] = @ + v] ELSE f @@ (k :> v)
SetTo(f, k, v) == (k :> v) @@ f
(* One count under the verb key and, if present, one under the class key. *)
AddEach(f, cls, verbKey) ==
    LET g == IF cls = {} THEN f ELSE AddTo(f, CHOOSE c \in cls : TRUE, 1)
    IN AddTo(g, verbKey, 1)
Get(f, k) == IF k \in DOMAIN f THEN f[k] ELSE 0

-----------------------------------------------------------------------------
Init ==
    /\ now = 0
    /\ periodDue = FALSE
    /\ queue = <<>>
    /\ cpc = "deq"
    /\ cmds = <<>>
    /\ gauges = <<>>
    /\ notSent = 0
    /\ connected = TRUE
    /\ emits = 0
    /\ accepted = <<>>
    /\ stored = <<>>
    /\ erased = <<>>

(* The ghost event of a datagram that is not an event line. *)
NoEvent == [type |-> "none", key |-> <<>>, n |-> "1", cls |-> <<>>]

(* The view without its trailing "\n" characters ("nl" tokens). *)
StripNewlines(s) ==
    LET keep == {j \in 0..Len(s) : \A i \in j + 1..Len(s) : s[i] = "nl"}
    IN SubSeq(s, 1, Min(keep))

-----------------------------------------------------------------------------
(* msgProducerThread, one recvfrom of datagram dg: a datagram that fills   *)
(* the buffer is taken as truncated and skipped; otherwise the trailing    *)
(* newlines are stripped and the view is cut at the first prefix found and *)
(* enqueued, or dropped when try_enqueue finds the queue full.  A view     *)
(* with no prefix only goes to the access log or the info log.  When the   *)
(* datagram was all newlines that test reads buf_view[0] of an empty view, *)
(* which is undefined; without library assertions it reads the '\n' still  *)
(* in the buffer, so the datagram is logged too.                           *)
msgProducerThread(dg, e) ==
    /\ emits < MaxEmits
    /\ emits' = emits + 1
    /\ LET v == StripNewlines(dg)
           p == FirstFound(v, ProducerPrefixOrder)
       IN IF Len(dg) < BufferLen /\ p # 0 /\ Len(queue) < QueueSize
          THEN queue' = Append(queue, [data |-> SubSeq(v, p, Len(v)), ev |-> e])
          ELSE UNCHANGED queue
    /\ UNCHANGED <<now, periodDue, cpc, cmds, gauges, notSent, connected,
                   accepted, stored, erased>>

(* The clock stops at MaxTime, but not while a buffered bucket is still   *)
(* younger than redis_qos_ttl: buckets are stamped when the consumer      *)
(* parses the line, so the bound must not freeze their ageing.            *)
TimeGoesOn == now < MaxTime \/ \E k \in DOMAIN cmds : k.sec >= now - Ttl

ConnKey(dir, inst, user) == [dir |-> dir, inst |-> inst, user |-> user]

(* processReq: 8 fields, a numeric active count and a printable key; the  *)
(* class and the verb are stamped by two separate calls of m_time.now(),  *)
(* between which the second may turn.                                     *)
processReq(d) ==
    LET F == Split(d) IN
    IF SplitOk(d, 8) /\ IsNum(F[7]) /\ IsPrintable(F[3])
    THEN \E t2 \in {now} \cup {t \in {now + 1} : TimeGoesOn} :
           LET clsKey  == [user |-> F[3], sec |-> now, cat |-> F[8]]
               verbKey == [user |-> F[3], sec |-> t2, cat |-> F[4]]
               cls     == IF Len(F[8]) > 0 THEN {clsKey} ELSE {}
           IN /\ cmds' = AddEach(cmds, cls, verbKey)
              /\ accepted' = AddEach(accepted, cls, verbKey)
              /\ gauges' = SetTo(gauges, ConnKey(F[5], F[6], F[3]), NumVal[F[7][1]])
              /\ notSent' = notSent + 1
              /\ now' = t2
              /\ periodDue' = (periodDue \/ t2 # now)
    ELSE UNCHANGED <<cmds, accepted, gauges, notSent, now, periodDue>>

(* processDataXfer: 5 fields, numeric length, printable non-empty key.    *)
processDataXfer(d) ==
    LET F == Split(d)
        k == [user |-> F[3], sec |-> now, cat |-> <<"bnd_">> \o F[4]]
    IN IF SplitOk(d, 5) /\ IsNum(F[5]) /\ IsPrintable(F[3]) /\ Len(F[3]) > 0
       THEN /\ cmds' = AddTo(cmds, k, NumVal[F[5][1]])
            /\ accepted' = AddTo(accepted, k, NumVal[F[5][1]])
            /\ notSent' = notSent + 1
            /\ UNCHANGED <<gauges, now, periodDue>>
       ELSE UNCHANGED <<cmds, accepted, gauges, notSent, now, periodDue>>

(* processActiveRequests and processReqEnd set a connection gauge.        *)
SetGauge(d, k, dirF, instF, userF, numF) ==
    LET F == Split(d) IN
    /\ IF SplitOk(d, k) /\ IsNum(F[numF])
       THEN /\ gauges' = SetTo(gauges, ConnKey(F[dirF], F[instF], F[userF]), NumVal[F[numF][1]])
            /\ notSent' = notSent + 1
       ELSE UNCHANGED <<gauges, notSent>>
    /\ UNCHANGED <<cmds, accepted, now, periodDue>>

processActiveRequests(d) == SetGauge(d, 5, 4, 2, 3, 5)
processReqEnd(d) == SetGauge(d, 7, 5, 6, 3, 7)

(* messageConsumerThread, first half of an iteration: dispatch a dequeued *)
(* line on the prefix it starts with.                                     *)
Dispatch(d) ==
    CASE IsPrefix(Prefix("req"), d)         -> processReq(d)
      [] IsPrefix(Prefix("data_xfer"), d)   -> processDataXfer(d)
      [] IsPrefix(Prefix("active_reqs"), d) -> processActiveRequests(d)
      [] IsPrefix(Prefix("req_end"), d)     -> processReqEnd(d)
      [] OTHER -> UNCHANGED <<cmds, accepted, gauges, notSent, now, periodDue>>

ConsumerDequeue ==
    /\ cpc = "deq"
    /\ queue # <<>>
    /\ Dispatch(Head(queue).data)
    /\ queue' = Tail(queue)
    /\ cpc' = "send"
    /\ UNCHANGED <<connected, emits, stored, erased>>

(* wait_dequeue_timed returns empty after 100 us. *)
ConsumerTimeout ==
    /\ cpc = "deq"
    /\ queue = <<>>
    /\ cpc' = "send"
    /\ UNCHANGED <<now, periodDue, queue, cmds, gauges, notSent, connected,
                   emits, accepted, stored, erased>>

(* Mutant: flush only when both the period and the count are reached. *)
FlushDueBoth == periodDue /\ notSent >= BatchCount

FlushDue == periodDue \/ notSent >= BatchCount

(* Buckets std::erase_if removes: those whose timestamp is before         *)
(* now - redis_qos_ttl.  The comparison is of full time points while a    *)
(* bucket is identified by its second, so a bucket exactly Ttl seconds    *)
(* older than now goes or stays according to the sub-second parts of the  *)
(* two readings: any subset of those buckets goes.                        *)
Erase(cutoff) ==
    \E edge \in SUBSET {k \in DOMAIN cmds : k.sec = cutoff} :
        LET stale == {k \in DOMAIN cmds : k.sec < cutoff} \cup edge
        IN /\ cmds' = [k \in DOMAIN cmds \ stale |-> cmds[k]]
           /\ erased' = [k \in DOMAIN erased \cup stale |->
                            Get(erased, k) + (IF k \in stale THEN cmds[k] ELSE 0)]

(* Mutant: the cutoff is computed as now + ttl instead of now - ttl. *)
DropStaleAhead ==
    /\ Erase(now + Ttl)
    /\ gauges' = <<>>
    /\ UNCHANGED stored

(* Disconnected: drop the buckets older than redis_qos_ttl and the gauges. *)
DropStale ==
    /\ Erase(now - Ttl)
    /\ gauges' = <<>>
    /\ UNCHANGED stored

(* Mutant: the command map is not cleared after it is sent. *)
SendAllKeepBuffer ==
    /\ stored' = [k \in DOMAIN stored \cup DOMAIN cmds |-> Get(stored, k) + Get(cmds, k)]
    /\ gauges' = <<>>
    /\ UNCHANGED <<cmds, erased>>

(* Connected: HINCRBY every bucket (plus EXPIRE), SET every gauge, clear. *)
SendAll ==
    /\ stored' = [k \in DOMAIN stored \cup DOMAIN cmds |-> Get(stored, k) + Get(cmds, k)]
    /\ cmds' = <<>>
    /\ gauges' = <<>>
    /\ UNCHANGED erased

(* sendToRedisQos, second half of an iteration. *)
sendToRedisQos ==
    /\ cpc = "send"
    /\ cpc' = "deq"
    /\ IF FlushDue
       THEN /\ periodDue' = FALSE
            /\ notSent' = 0
            /\ IF connected THEN SendAll ELSE DropStale
       ELSE UNCHANGED <<periodDue, notSent, cmds, gauges, stored, erased>>
    /\ UNCHANGED <<now, queue, connected, emits, accepted>>

-----------------------------------------------------------------------------
(* Environment: time, the batch period and the store connection.          *)
Tick ==
    /\ TimeGoesOn
    /\ now' = now + 1
    /\ periodDue' = TRUE
    /\ UNCHANGED <<queue, cpc, cmds, gauges, notSent, connected, emits,
                   accepted, stored, erased>>

PeriodPasses ==
    /\ ~periodDue
    /\ periodDue' = TRUE
    /\ UNCHANGED <<now, queue, cpc, cmds, gauges, notSent, connected, emits,
                   accepted, stored, erased>>

ConnectionFlips ==
    /\ connected' = ~connected
    /\ UNCHANGED <<now, periodDue, queue, cpc, cmds, gauges, notSent, emits,
                   accepted, stored, erased>>

Consumer == ConsumerDequeue \/ ConsumerTimeout \/ sendToRedisQos

Next ==
    \/ \E e \in Events, nl \in {<<>>, <<"nl">>} : msgProducerThread(Line(e) \o nl, e)
    \/ \E dg \in OtherDatagrams : msgProducerThread(dg, NoEvent)
    \/ Consumer
    \/ Tick
    \/ PeriodPasses
    \/ ConnectionFlips

(* The consumer thread loops forever and time passes; the store may stay  *)
(* down for ever, so the connection gets no fairness.                     *)
Spec == Init /\ [][Next]_vars /\ WF_vars(Consumer) /\ WF_vars(Tick) /\ WF_vars(PeriodPasses)

-----------------------------------------------------------------------------
(* Every count a handler folded into m_qos_redis_commands is, at every    *)
(* moment, in exactly one place: still buffered, sent to the store by a   *)
(* flush, or erased as stale by a disconnected flush; sendToRedisQos      *)
(* never loses nor repeats a count.                                       *)
CountsConserved ==
    \A k \in DOMAIN accepted :
        accepted[k] = Get(stored, k) + Get(cmds, k) + Get(erased, k)

(* The command map behaves as QosBuckets promises: the consumer adds      *)
(* counts only to buckets of the second m_time.now() returns during the   *)
(* step, a connected sendToRedisQos publishes the whole map and clears it, *)
(* and a disconnected one discards only buckets older than redis_qos_ttl. *)
Buckets == INSTANCE QosBuckets WITH buffer <- cmds, sent <- stored, dropped <- erased

BucketsRefined == Buckets!Spec

(* Spec §7: store unavailability causes buffered counters to be discarded *)
(* after redis_qos_ttl rather than grow: whether or not the store ever    *)
(* comes back, the command map empties again and again, so every bucket   *)
(* of it eventually leaves it.                                            *)
BufferedEventuallyResolved == []<>(DOMAIN cmds = {})

(* Every event line the producer enqueues starts at its own event prefix, *)
(* so messageConsumerThread hands it to the handler of its own type.      *)
EventsReachTheirHandler ==
    \A i \in 1..Len(queue) : IsPrefix(Prefix(queue[i].ev.type), queue[i].data)

====
