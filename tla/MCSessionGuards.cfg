SPECIFICATION GuardedSpec
CONSTANTS
    Sessions = {a, b}
    ClientPingInterval = 2
    ClientTimeout = 4
    Responsive = {b}
    AnswerWithin = 2
    Stalling = {a}
    Guarded = a
    Types <- MCTypes
    Rules <- MCRules
    GlobalMaxPackets = 3
    GlobalWindow = 1
    MaxViolations = 2
INVARIANTS BurstIsBounded PoliteIsNeverRefused EndsInTime OnlySilentAreTimedOut ResponsiveStay
CHECK_DEADLOCK FALSE
