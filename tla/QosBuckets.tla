----------------------------- MODULE QosBuckets -----------------------------
(***************************************************************************)
(* What the aggregator promises about its per-second counters (spec §4.6,  *)
(* §7), stated without queues, parsing or flush triggers.  A counter is a  *)
(* bucket of a user, a second and a category.  Counts are only ever added  *)
(* to buckets of the current second (or of the second the clock is just   *)
(* turning to); a flush publishes the whole buffer at once; and a bucket   *)
(* is discarded without being published only once it is redis_qos_ttl     *)
(* seconds old.                                                           *)
(*                                                                         *)
(* The actions are stated over both states of a step, as relations, since *)
(* the module serves as the abstract side of a refinement: Aggregator      *)
(* instantiates it with its own variables and checks Spec as a property.   *)
(***************************************************************************)
EXTENDS Integers

CONSTANT Ttl        \* redis_qos_ttl, in seconds

VARIABLES
    now,        \* the current second
    buffer,     \* bucket -> count not yet published
    sent,       \* bucket -> count published to the store
    dropped     \* bucket -> count discarded as stale

vars == <<now, buffer, sent, dropped>>

Count(f, k) == IF k \in DOMAIN f THEN f[k] ELSE 0

(* f' holds f plus the counts g, bucket by bucket. *)
Merged(f, g) == [k \in DOMAIN f \cup DOMAIN g |-> Count(f, k) + Count(g, k)]

Init ==
    /\ now = 0
    /\ DOMAIN buffer = {}
    /\ DOMAIN sent = {}
    /\ DOMAIN dropped = {}

(* Counts are added, never taken away, and only to buckets stamped with   *)
(* the second the step starts or ends in; the clock moves by at most one. *)
Add ==
    /\ now' \in {now, now + 1}
    /\ DOMAIN buffer \subseteq DOMAIN buffer'
    /\ \A k \in DOMAIN buffer' :
          /\ buffer'[k] >= Count(buffer, k)
          /\ buffer'[k] > Count(buffer, k) => k.sec \in {now, now'}
    /\ UNCHANGED <<sent, dropped>>

(* The whole buffer is published in one flush and the buffer is empty.    *)
Publish ==
    /\ sent' = Merged(sent, buffer)
    /\ DOMAIN buffer' = {}
    /\ UNCHANGED <<now, dropped>>

(* Some buckets at least Ttl seconds older than the current second leave  *)
(* the buffer unpublished; the others are kept as they are.               *)
Expire ==
    \E gone \in SUBSET {k \in DOMAIN buffer : k.sec <= now - Ttl} :
        /\ buffer' = [k \in DOMAIN buffer \ gone |-> buffer[k]]
        /\ dropped' = Merged(dropped, [k \in gone |-> buffer[k]])
        /\ UNCHANGED <<now, sent>>

Tick ==
    /\ now' = now + 1
    /\ UNCHANGED <<buffer, sent, dropped>>

Next == Add \/ Publish \/ Expire \/ Tick

Spec == Init /\ [][Next]_vars

====
