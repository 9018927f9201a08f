\* spec.md 8 active-request conservation, checked against the leak of a
\* stream that is enabled but never counted back.
CONSTANTS
    s1 = s1
    s2 = s2
    u1 = u1
    u2 = u2
    Streams <- MCStreams
    Users <- MCUsers
    Verbs = {"GET", "PUT"}
    DirLiterals = {"up"}
    ShareValues = {5}
    ShareStamps = {}
    UIntMax = 4
    CleanupInterval = 2
    CleanupGrace = 2
    LogInterval = 2
    RefreshInterval = 3
    TickBits = 3
    StartTick = 6
    MaxTime = 3
    MaxActive = 2
    CliBuckets = 4
    Home <- MCHome
    ShowLimits = FALSE
    KeySamples <- MCKeys
    RuleArgs <- MCRuleArgs
    ThrottleAnswers = {FALSE}
SYMMETRY Symmetry
SPECIFICATION Spec
INVARIANT ActiveRequestsConserved
