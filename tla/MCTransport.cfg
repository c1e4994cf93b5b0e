CONSTANTS
    TimeModulus = 16
    Threshold = 4
    MaxChunkSize = 2
    Receiver = "server"
    Eager = {TRUE, FALSE}
    Versions = {2, 3}
    DefaultChunkSize = 1
    ChunkSizes = {5}
    CommandCsids = {3}
    MediaCsids = {320}
    CommandLengths = {1}
    Lengths = {1, 2}
    Times = {1, 2}
    MaxMessages = 3
SPECIFICATION Spec
INVARIANTS TypeOK StaysOnTrack EndsAgree WaitsOnlyWhenDry
PROPERTIES ChannelSpec
CHECK_DEADLOCK FALSE
