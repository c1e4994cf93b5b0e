CONSTANTS
    k1 = k1
    k2 = k2
    s1 = s1
    s2 = s2
    NoSession = NoSession
    NoKey = NoKey
    Key <- TwoKeys
    Session <- TwoSessions
    GracePeriod = 1
    IdleTimeout = 1
    CountModulus = 8
    MaxChannels = 3
    MaxStreams = 0
    MaxPlays = 0
    MaxCalls = 0
SPECIFICATION Spec
INVARIANT DisconnectReleasesKeys
CHECK_DEADLOCK FALSE
