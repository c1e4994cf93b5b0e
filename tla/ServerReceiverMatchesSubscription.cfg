CONSTANTS
    k1 = k1
    k2 = k2
    s1 = s1
    s2 = s2
    NoSession = NoSession
    NoKey = NoKey
    Key <- TwoKeys
    Session <- TwoSessions
    GracePeriod = 1
    IdleTimeout = 1
    CountModulus = 8
    MaxChannels = 3
    MaxStreams = 0
    MaxPlays = 2
    MaxCalls = 2
SPECIFICATION Spec
INVARIANT ReceiverMatchesSubscription
CHECK_DEADLOCK FALSE
