\* The WEIR_BUG_ONs against a user-key sample that yields no key, and
\* against an operation-direction sample that is not "up" or "dwn", or not
\* configured.  The shortest abort is the missing key.
CONSTANTS
    s1 = s1
    s2 = s2
    u1 = u1
    u2 = u2
    Streams <- MCStreams
    Users = {u1}
    Verbs = {"GET"}
    DirLiterals = {"up", "bad", "absent"}
    ShareValues = {3, 5}
    ShareStamps = {1, 2}
    UIntMax = 4
    CleanupInterval = 2
    CleanupGrace = 2
    LogInterval = 2
    RefreshInterval = 3
    TickBits = 3
    StartTick = 6
    MaxTime = 3
    MaxActive = 2
    CliBuckets = 4
    Home <- MCHome
    ShowLimits = FALSE
    KeySamples <- MCKeysOrNone
    RuleArgs <- MCRuleArgsNoKey
    ThrottleAnswers = {FALSE}
SYMMETRY StreamSymmetry
SPECIFICATION Spec
INVARIANT NoFatalAssertion
