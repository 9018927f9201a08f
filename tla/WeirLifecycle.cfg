\* Stream lifecycle and the user-table sweep: two users, both directions,
\* no limit shares (ShareStamps is empty).  rl_speed_throttle never throttles here;
\* WeirThrottleLog.cfg covers throttling.  now_ms is 3 bits wide and starts at
\* 5, so it wraps to 0 within the run; a sweep falls due at tick 7, when a
\* request that ended at tick 6 has an expiry tick 6 + 2 that wraps to 0
\* and tick_add turns into 1.
CONSTANTS
    s1 = s1
    s2 = s2
    u1 = u1
    u2 = u2
    Streams <- MCStreams
    Users <- MCUsers
    Verbs = {"GET", "PUT"}
    DirLiterals = {"up"}
    ShareValues = {5}
    ShareStamps = {}
    UIntMax = 4
    CleanupInterval = 2
    CleanupGrace = 2
    LogInterval = 2
    RefreshInterval = 3
    TickBits = 3
    StartTick = 5
    MaxTime = 3
    MaxActive = 2
    CliBuckets = 4
    Home <- MCHome
    ShowLimits = FALSE
    KeySamples <- MCKeys
    RuleArgs <- MCRuleArgs
    ThrottleAnswers = {FALSE}
SYMMETRY Symmetry
SPECIFICATION Spec
INVARIANT NoDanglingLimit
INVARIANT ActiveCoversLiveStreams
PROPERTY NoEarlySweep
