\* Throttling and the once-per-interval weir-throttle log: one user whose two
\* streams are throttled at the same time.
CONSTANTS
    s1 = s1
    s2 = s2
    u1 = u1
    u2 = u2
    Streams <- MCStreams
    Users = {u1}
    Verbs = {"GET"}
    DirLiterals = {"up"}
    ShareValues = {5}
    ShareStamps = {}
    UIntMax = 4
    CleanupInterval = 2
    CleanupGrace = 2
    LogInterval = 2
    RefreshInterval = 3
    TickBits = 3
    StartTick = 6
    MaxTime = 4
    MaxActive = 2
    CliBuckets = 4
    Home <- MCHome
    ShowLimits = FALSE
    KeySamples <- MCKeysOrNone
    RuleArgs <- MCRuleArgs
    ThrottleAnswers = {FALSE, TRUE}
SYMMETRY StreamSymmetry
SPECIFICATION Spec
INVARIANT ThrottleLogOncePerInterval
