CONSTANTS
    DeliveryMode = "Both"
    MaxGopSize = 40
    MaxPushes = 2
    MaxOdd = 0
    Plain <- MCVideoPackets
    VideoPackets <- MCVideoPackets
    AudioPackets <- NoPackets
SPECIFICATION Spec
INVARIANTS KeyframeOpensGop
