CONSTANTS
    Kinds = {"video_header", "key", "delta"}
    Capacity = 1
    LagThreshold = 1
    MaxLagEvents = 5
    MaxFrames = 5
    MaxPauses = 0
    MaxGopSize = 2
SPECIFICATION Spec
INVARIANT SkipsToKeyframe
CHECK_DEADLOCK FALSE
