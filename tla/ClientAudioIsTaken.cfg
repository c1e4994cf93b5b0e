CONSTANTS
    MaxNestingDepth = 4
    LongStrings = {}
    Msb = 8
    Me = Me
    Other = Other
    NoSession = NoSession
    NoKey = NoKey
    Key <- MCKey
    Session <- MCSession
    GracePeriod = 0
    IdleTimeout = 0
    CountModulus = 4
    MaxChannels = 2
    MaxStreams = 1
    MaxPlays = 1
    MaxCalls = 2
    App = "live"
    Name = "cam"
    Configurations <- MCConfigurations
    DefaultChunkSize = 1
    ServerChunkSize = 3
    ClientChunkSize = 2
    MaxFrames = 1
    Encoded <- MCEncoded
    Parsed <- MCParsed
SPECIFICATION Spec
INVARIANT AudioIsTaken
CHECK_DEADLOCK FALSE
