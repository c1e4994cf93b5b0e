CONSTANTS
    Kinds = {"video_header", "key", "generated_key", "delta", "audio"}
    Capacity = 1
    LagThreshold = 2
    MaxLagEvents = 2
    MaxFrames = 4
    MaxPauses = 1
    MaxGopSize = 2
SPECIFICATION Spec
INVARIANTS TypeOK DeliveredInOrder CompleteWhenUndisturbed GapsEndAtKeyframeOrHeader AudioSurvivesSkip SilentWhileFrozen
PROPERTIES EndReachesSubscriber
CHECK_DEADLOCK FALSE
