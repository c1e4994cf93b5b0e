CONSTANTS
    TimeModulus = 16
    Threshold = 4
    MaxChunkSize = 2
    Receiver = "server"
    Eager = {FALSE}
    Versions = {3}
    DefaultChunkSize = 1
    ChunkSizes = {}
    CommandCsids = {3}
    MediaCsids = {320}
    CommandLengths = {1}
    Lengths = {1, 2}
    Times = {1, 5}
    MaxMessages = 2
SPECIFICATION Spec
INVARIANTS StaysOnTrack
CHECK_DEADLOCK FALSE
