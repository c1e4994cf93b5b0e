CONSTANTS
    DeliveryMode = "Both"
    MaxGopSize = 20
    MaxPushes = 2
    MaxOdd = 1
    Plain <- MCVideoPackets
    VideoPackets <- AllVideoPackets
    AudioPackets <- MCAudioPackets
SPECIFICATION Spec
INVARIANTS SizeAccounted NoHole LegacyKeyframesLead LayoutsRead CutsLoseTheTail KeyframesTold JoinerKnowsLengthSize AdtsDescribesFrame
PROPERTIES DropsOnlyUnderPressure
