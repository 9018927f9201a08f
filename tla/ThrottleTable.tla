---------------------------- MODULE ThrottleTable ----------------------------
(***************************************************************************)
(* The throttle table of rate_limit.c: the ip:port -> user-key map with    *)
(* its inverse connection count (ip_port_key_hashmap and                   *)
(* key_ip_port_count_hashmap under ip_port_key_hashmap_lck), the two       *)
(* per-direction policy maps (key_*_speed_epoch_hashmap, each under its    *)
(* own rwlock), the stale-policy sweeper thread, and the calls the filter  *)
(* threads make into it.                                                   *)
(*                                                                         *)
(* Each worker thread serves one connection (Conns) with a fixed client    *)
(* ip:port (ConnIp).  A call that takes a lock and then uses memory it got *)
(* under an earlier lock is split at the unlock: set_ip_port_key and       *)
(* remove_from_ip_port_key_hash free the old key string after unlocking;   *)
(* rl_speed_throttle and rl_data_transferred use the key pointer that      *)
(* get_key_from_ip_port returned after unlocking.                          *)
(***************************************************************************)
EXTENDS Integers, FiniteSets

CONSTANTS
    Conns,          \* worker threads, one connection each
    IpPorts,        \* client ip:port values (uint64 ip << 32 | port)
    ConnIp,         \* [Conns -> IpPorts]
    Keys,           \* user keys
    Ratios,         \* diff_ratio values, as <<numerator, denominator>>
    EpochUsecs,     \* epoch_us values sent with a policy
    UsecSamples,    \* tv_usec values at which the filter asks rl_speed_throttle
    Seconds,        \* the wall-clock seconds the model visits (time() may jump)
    MaxCount        \* model bound on a key's connection count

ASSUME ConnIp \in [Conns -> IpPorts] /\ Seconds \subseteq Nat /\ 0 \in Seconds /\ MaxCount \in Nat

UnitUsecsInSec     == 1000000    \* UNIT_USECS_IN_SEC
MinRunTimeUsec     == 50000      \* MIN_RUN_TIME_USEC
BackoffWindow      == 6          \* BACKOFF_WINDOW_EPOCHS
StalePolicyAge     == 120        \* SPEED_TABLE_STALE_POLICY_AGE_SEC

NoKey    == "none"
Dirs     == {"up", "dwn"}

VARIABLES
    sec,            \* gettimeofday()/time() in seconds
    ipKey,          \* ip_port_key_hashmap: ip:port -> key (NoKey: absent)
    connCount,      \* key_ip_port_count_hashmap: key -> count (0: absent)
    policy,         \* key_{upload,download}_speed_epoch_hashmap
    sweepDir,       \* the direction remove_old_epochs sweeps next
    pc,             \* where each worker thread is
    held,           \* the call a thread is in and the key pointer it holds
    doomed,         \* ghost: for a thread about to free a key string, the threads holding it
    stale,          \* ghost: threads whose held key string has been freed
    uaf,            \* ghost: a freed key string was read
    decision        \* ghost: the last rl_speed_throttle answer of each thread

vars == <<sec, ipKey, connCount, policy, sweepDir, pc, held, doomed, stale, uaf, decision>>

NoHeld   == "nothing"    \* the thread holds no key pointer
Detached == "detached"   \* it holds a key string no longer in the map
NoPolicy == [recv |-> -1, ratio |-> <<1, 1>>, elapsed |-> 0, prev |-> <<0, 1>>]
NoDecision == [throttle |-> FALSE, valid |-> FALSE, age |-> 0, allowed |-> 0]

PcValues == {"idle", "setFree", "use", "endFree"}
Ops      == {"throttle", "xfer"}
HeldRec  == [ip: IpPorts \cup {NoHeld, Detached}, key: Keys \cup {NoKey}, op: Ops,
             dir: Dirs, curr: Seconds, usec: UsecSamples \cup {0}]

PolicyRec == [recv: Seconds, ratio: Ratios, elapsed: 0..UnitUsecsInSec - 1,
              prev: Ratios \cup {<<0, 1>>}]

TypeOK ==
    /\ sec \in Seconds
    /\ ipKey \in [IpPorts -> Keys \cup {NoKey}]
    /\ connCount \in [Keys -> Nat]
    /\ policy \in [Dirs -> [Keys -> PolicyRec \cup {NoPolicy}]]
    /\ sweepDir \in Dirs
    /\ pc \in [Conns -> PcValues]
    /\ held \in [Conns -> HeldRec]
    /\ doomed \in [Conns -> SUBSET Conns]
    /\ stale \subseteq Conns
    /\ uaf \in BOOLEAN
    /\ decision \in [Conns -> [throttle: BOOLEAN, valid: BOOLEAN, age: Nat, allowed: Nat]]

NoHold == [ip |-> NoHeld, key |-> NoKey, op |-> "throttle", dir |-> "dwn", curr |-> 0, usec |-> 0]

Init ==
    /\ sec = 0
    /\ ipKey = [p \in IpPorts |-> NoKey]
    /\ connCount = [k \in Keys |-> 0]
    /\ policy = [d \in Dirs |-> [k \in Keys |-> NoPolicy]]
    /\ sweepDir = "dwn"                       \* remove_old_epochs starts with RL_DOWNLOAD
    /\ pc = [c \in Conns |-> "idle"]
    /\ held = [c \in Conns |-> NoHold]
    /\ doomed = [c \in Conns |-> {}]
    /\ stale = {}
    /\ uaf = FALSE
    /\ decision = [c \in Conns |-> NoDecision]

-----------------------------------------------------------------------------
(* is_valid_violation_policy: the age is a uint32 difference, so a policy *)
(* received in a second the clock has since gone back before has an age    *)
(* near 2^32 and is not valid.                                             *)
IsValidPolicy(p, curr) == curr >= p.recv /\ curr - p.recv <= BackoffWindow

\* 2^n for the pow(2, policy_age - 1) of compute_allowed_run_time.
RECURSIVE Pow2(_)
Pow2(n) == IF n = 0 THEN 1 ELSE 2 * Pow2(n - 1)

\* (uint64_t)((double)elapsed / diff_ratio), for a positive ratio num/den.
ScaledRunTime(p) == (p.elapsed * p.ratio[2]) \div p.ratio[1]

(* Mutant: the allowed run time is not capped at one second.            *)
AllowedRunTimeUnclamped(p, curr) ==
    LET age     == curr - p.recv
        allowed == IF ScaledRunTime(p) > MinRunTimeUsec THEN ScaledRunTime(p) ELSE MinRunTimeUsec
    IN IF age = 0 THEN 0 ELSE allowed * Pow2(age - 1)

(* compute_allowed_run_time, for a valid policy (age 0..6). *)
AllowedRunTime(p, curr) ==
    LET age     == curr - p.recv
        allowed == IF ScaledRunTime(p) > MinRunTimeUsec THEN ScaledRunTime(p) ELSE MinRunTimeUsec
        scaled  == allowed * Pow2(age - 1)
    IN IF age = 0 THEN 0
       ELSE IF scaled < UnitUsecsInSec THEN scaled ELSE UnitUsecsInSec

-----------------------------------------------------------------------------
(* incr_num_connections_of_a_key: insert with 1 or add one.              *)
IncrCount(cnt, k) == [cnt EXCEPT ![k] = @ + 1]

(* decr_num_connections_of_a_key: an absent key is left alone, a count of *)
(* one deletes the entry, a larger one is decremented.                     *)
DecrCount(cnt, k) == IF cnt[k] = 0 THEN cnt ELSE [cnt EXCEPT ![k] = @ - 1]

\* The threads in a call that hold the key string now stored for ip:port p.
HoldersOf(p) == {t \in Conns : pc[t] = "use" /\ held[t].ip = p}

\* Those threads now hold a string that is out of the map.
DetachHolders(p) ==
    [t \in Conns |-> IF t \in HoldersOf(p) THEN [held[t] EXCEPT !.ip = Detached] ELSE held[t]]

-----------------------------------------------------------------------------
(***************************************************************************)
(* set_ip_port_key(ip, port, key), up to its unlock: under the write lock  *)
(* the fresh copy of key replaces the stored string of ip:port (which is   *)
(* kept in p to be freed) and the count of key is incremented.  The count *)
(* of the key the ip:port was mapped to before is left as it is.           *)
(***************************************************************************)
SetKeyLocked(c, k) ==
    LET ip == ConnIp[c] IN
    /\ pc[c] = "idle"
    /\ connCount[k] < MaxCount                 \* model bound
    /\ ipKey' = [ipKey EXCEPT ![ip] = k]
    /\ connCount' = IncrCount(connCount, k)
    /\ doomed' = [doomed EXCEPT ![c] = IF ipKey[ip] # NoKey THEN HoldersOf(ip) ELSE {}]
    /\ held' = DetachHolders(ip)
    /\ pc' = [pc EXCEPT ![c] = "setFree"]
    /\ UNCHANGED <<sec, policy, sweepDir, stale, uaf, decision>>

(***************************************************************************)
(* rl_request_end -> remove_from_ip_port_key_hash, up to its unlock: the   *)
(* entry of the ip:port is deleted and its key's count decremented; the    *)
(* string is kept to be freed.  With no entry the call does nothing.       *)
(***************************************************************************)
EndLocked(c) ==
    LET ip == ConnIp[c] IN
    /\ pc[c] = "idle"
    /\ ipKey[ip] # NoKey
    /\ ipKey' = [ipKey EXCEPT ![ip] = NoKey]
    /\ connCount' = DecrCount(connCount, ipKey[ip])
    /\ doomed' = [doomed EXCEPT ![c] = HoldersOf(ip)]
    /\ held' = DetachHolders(ip)
    /\ pc' = [pc EXCEPT ![c] = "endFree"]
    /\ UNCHANGED <<sec, policy, sweepDir, stale, uaf, decision>>

(* The free(p) / free(access_key) after the unlock of either call: every  *)
(* thread still holding that string now holds freed memory.                *)
FreeOldKey(c) ==
    /\ pc[c] \in {"setFree", "endFree"}
    /\ stale' = stale \cup doomed[c]
    /\ doomed' = [doomed EXCEPT ![c] = {}]
    /\ pc' = [pc EXCEPT ![c] = "idle"]
    /\ UNCHANGED <<sec, ipKey, connCount, policy, sweepDir, held, uaf, decision>>

(***************************************************************************)
(* rl_speed_throttle / rl_data_transferred, up to the unlock inside        *)
(* get_key_from_ip_port: the current second and tv_usec are read, then the *)
(* key pointer of the thread's ip:port.                                    *)
(***************************************************************************)
Lookup(c, op, d, us) ==
    LET ip == ConnIp[c] IN
    /\ pc[c] = "idle"
    /\ ipKey[ip] # NoKey
    /\ held' = [held EXCEPT ![c] = [ip |-> ip, key |-> ipKey[ip], op |-> op, dir |-> d,
                                    curr |-> sec, usec |-> us]]
    /\ pc' = [pc EXCEPT ![c] = "use"]
    /\ UNCHANGED <<sec, ipKey, connCount, policy, sweepDir, doomed, stale, uaf, decision>>

(* rl_speed_throttle of an ip:port with no key: RL_NO_THROTTLE.            *)
(* (rl_data_transferred with no key returns having done nothing.)          *)
LookupMiss(c) ==
    /\ pc[c] = "idle"
    /\ ipKey[ConnIp[c]] = NoKey
    /\ decision' = [decision EXCEPT ![c] = NoDecision]
    /\ UNCHANGED <<sec, ipKey, connCount, policy, sweepDir, pc, held, doomed, stale, uaf>>

(* get_epoch_sec from the unlock on: the policy of the key and direction  *)
(* under the policy read lock, is_valid_violation_policy and               *)
(* compute_allowed_run_time; rl_speed_throttle throttles unless tv_usec is *)
(* below the allowed run time.                                             *)
Decide(h) ==
    LET pol   == policy[h.dir][h.key]
        valid == pol # NoPolicy /\ IsValidPolicy(pol, h.curr)
        allow == IF valid THEN AllowedRunTime(pol, h.curr) ELSE 0
    IN [throttle |-> valid /\ h.usec >= allow, valid |-> valid,
        age |-> IF valid THEN h.curr - pol.recv ELSE 0, allowed |-> allow]

(***************************************************************************)
(* The rest of the call, after get_key_from_ip_port has unlocked: the key  *)
(* string is read (strlen, hashing, logging), which is a use after free if *)
(* another thread has freed it meanwhile.                                  *)
(***************************************************************************)
Use(c) ==
    /\ pc[c] = "use"
    /\ uaf' = (uaf \/ c \in stale)
    /\ stale' = stale \ {c}
    /\ doomed' = [t \in Conns |-> doomed[t] \ {c}]
    /\ decision' = IF held[c].op = "throttle"
                   THEN [decision EXCEPT ![c] = Decide(held[c])] ELSE decision
    /\ held' = [held EXCEPT ![c] = NoHold]
    /\ pc' = [pc EXCEPT ![c] = "idle"]
    /\ UNCHANGED <<sec, ipKey, connCount, policy, sweepDir>>

-----------------------------------------------------------------------------
\* Mutant: epoch_us is stored whole, not reduced to the microsecond in its second.
SetThrottleEpochNoModulo(k, d, r, eus) ==
    LET old == policy[d][k] IN
    /\ policy' = [policy EXCEPT ![d][k] =
                    [recv |-> sec, ratio |-> r, elapsed |-> eus,
                     prev |-> IF old # NoPolicy THEN old.ratio ELSE <<0, 1>>]]
    /\ UNCHANGED <<sec, ipKey, connCount, sweepDir, pc, held, doomed, stale, uaf, decision>>

(***************************************************************************)
(* set_throttle_epoch_us(key, epoch_us, dir, diff_ratio), under the write  *)
(* lock of the direction's map: the policy is received now, with the      *)
(* elapsed microseconds of epoch_us and, when the key had a policy, that  *)
(* policy's ratio as the previous one.                                     *)
(***************************************************************************)
SetThrottleEpoch(k, d, r, eus) ==
    LET old == policy[d][k] IN
    /\ policy' = [policy EXCEPT ![d][k] =
                    [recv |-> sec, ratio |-> r, elapsed |-> eus % UnitUsecsInSec,
                     prev |-> IF old # NoPolicy THEN old.ratio ELSE <<0, 1>>]]
    /\ UNCHANGED <<sec, ipKey, connCount, sweepDir, pc, held, doomed, stale, uaf, decision>>

\* The test remove_old_epochs deletes an entry by.
StalePolicy(pol) ==
    pol # NoPolicy /\ sec > pol.recv /\ sec - pol.recv > StalePolicyAge

\* Mutant: the sweeper never switches direction.
SweepOneDir ==
    /\ policy' = [policy EXCEPT ![sweepDir] =
                    [k \in Keys |-> IF StalePolicy(policy[sweepDir][k]) THEN NoPolicy
                                    ELSE policy[sweepDir][k]]]
    /\ UNCHANGED <<sweepDir, sec, ipKey, connCount, pc, held, doomed, stale, uaf, decision>>

(***************************************************************************)
(* One pass of the remove_old_epochs loop: under the write lock of the    *)
(* direction's map every stale policy is deleted, then the other          *)
(* direction is next.                                                      *)
(***************************************************************************)
Sweep ==
    /\ policy' = [policy EXCEPT ![sweepDir] =
                    [k \in Keys |-> IF StalePolicy(policy[sweepDir][k]) THEN NoPolicy
                                    ELSE policy[sweepDir][k]]]
    /\ sweepDir' = IF sweepDir = "dwn" THEN "up" ELSE "dwn"
    /\ UNCHANGED <<sec, ipKey, connCount, pc, held, doomed, stale, uaf, decision>>

(* The wall clock moves on; a thread may be descheduled for any time.     *)
Tick ==
    /\ \E s \in Seconds : s > sec /\ sec' = s
    /\ UNCHANGED <<ipKey, connCount, policy, sweepDir, pc, held, doomed, stale, uaf, decision>>

Next ==
    \/ \E c \in Conns, k \in Keys : SetKeyLocked(c, k)
    \/ \E c \in Conns : EndLocked(c) \/ FreeOldKey(c) \/ LookupMiss(c) \/ Use(c)
    \/ \E c \in Conns, op \in Ops, d \in Dirs, us \in UsecSamples : Lookup(c, op, d, us)
    \/ \E k \in Keys, d \in Dirs, r \in Ratios, eus \in EpochUsecs : SetThrottleEpoch(k, d, r, eus)
    \/ Sweep
    \/ Tick

(* The sweeper thread loops forever (usleep between passes), so it is     *)
(* weakly fair; nothing else is assumed to happen.                         *)
Spec == Init /\ [][Next]_vars /\ WF_vars(Sweep)

-----------------------------------------------------------------------------
(* Backoff: whenever rl_speed_throttle finds a valid policy, the allowed   *)
(* run time it computes is at most one second, and from the second after *)
(* the policy arrived on it is at least MIN_RUN_TIME_USEC.                 *)
AllowedRunTimeBounded ==
    \A c \in Conns :
        decision[c].valid =>
            /\ decision[c].allowed <= UnitUsecsInSec
            /\ decision[c].age >= 1 => decision[c].allowed >= MinRunTimeUsec

(* Every stale policy, in either direction, is eventually deleted by      *)
(* remove_old_epochs unless it is replaced first.                          *)
StalePoliciesSwept ==
    \A d \in Dirs, k \in Keys, r \in Seconds :
        (StalePolicy(policy[d][k]) /\ policy[d][k].recv = r)
            ~> (policy[d][k] = NoPolicy \/ policy[d][k].recv # r)

(* The count kept per key in key_ip_port_count_hashmap is the number of   *)
(* ip:ports ip_port_key_hashmap maps to that key.                          *)
ConnCountMatchesMap ==
    \A k \in Keys : connCount[k] = Cardinality({ip \in IpPorts : ipKey[ip] = k})

(* No thread reads a key string after set_ip_port_key or                   *)
(* remove_from_ip_port_key_hash of another thread has freed it.            *)
NoUseAfterFree == ~uaf

====
