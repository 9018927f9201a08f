\* Limit shares above UINT_MAX, misconfigured operation-direction samples
\* (an unknown literal, or none) that abort the process, and a "show weir
\* limits" dump of two users in adjacent buckets, split over applet calls
\* while one stream enables, detaches and lets the sweep free them.  now_ms
\* starts at 1, so the sweep falls due at tick 3, as a user whose request
\* ended at tick 1 passes its grace period.
CONSTANTS
    s1 = s1
    s2 = s2
    u1 = u1
    u2 = u2
    Streams = {s1}
    Users = {u1, u2}
    Verbs = {"GET"}
    DirLiterals = {"up", "bad", "absent"}
    ShareValues = {5}
    ShareStamps = {1}
    UIntMax = 4
    CleanupInterval = 2
    CleanupGrace = 2
    LogInterval = 2
    RefreshInterval = 3
    TickBits = 3
    StartTick = 1
    MaxTime = 2
    MaxActive = 1
    CliBuckets = 4
    Home <- MCHomeAdjacent
    ShowLimits = TRUE
    KeySamples <- MCKeys
    RuleArgs <- MCRuleArgs
    ThrottleAnswers = {FALSE}
SPECIFICATION Spec
INVARIANT TypeOK
INVARIANT ActivateWeirParsesGrammar
PROPERTY CliDumpListsStayedUsers
