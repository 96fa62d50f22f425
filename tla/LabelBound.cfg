\* Files with up to two overrides, values around the limits.
CONSTANTS
    Labels <- MCLabels
    Files <- MCFiles
    Values <- MCValues
    Len <- MCLen
    RuneStart <- MCRuneStart
SPECIFICATION Spec
INVARIANTS
    AcceptedOverridesApply
    EmittedFitsDownstream
    CutKeepsWholeRunes
