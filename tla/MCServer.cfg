CONSTANTS
    k1 = k1
    k2 = k2
    s1 = s1
    s2 = s2
    NoSession = NoSession
    NoKey = NoKey
    Key <- TwoKeys
    Session <- TwoSessions
    GracePeriod = 0
    IdleTimeout = 0
    CountModulus = 8
    MaxChannels = 2
    MaxStreams = 1
    MaxPlays = 2
    MaxCalls = 2
SPECIFICATION Spec
INVARIANTS TypeOK PublisherHoldsKey LastKeyReleased EntryConsistent CountIsAudience
PROPERTIES RegistryIsUsedAsSpecified LockSpec UnpublishedEnds NobodyDangles
CHECK_DEADLOCK FALSE
