CONSTANTS
    MaxNestingDepth = 4
    LongStrings = {"long"}
    Msb = 8
    Messages <- MCMessages
    Foreign <- MCForeign
    Values <- MCValues
    Order <- MCOrder
    MaxValues = 3
SPECIFICATION Spec
INVARIANTS MessagesSurvive CutsInventNothing ReferencesAgree
CHECK_DEADLOCK FALSE
