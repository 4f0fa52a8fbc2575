\* Settings store without resets: two keys, three indices, chunks of two.
CONSTANTS
    Keys <- MCKeys
    Values <- MCValues
    v1 = v1
    v2 = v2
    e0 = e0
    Empty = e0
    NumIdx = 2
    ListSize = 2
    NoObj = NoObj
    NoKey = NoKey
    NvmFaults = FALSE
    CrashEnabled = FALSE
SPECIFICATION Spec
INVARIANT TypeOK
INVARIANT IndexSearchExact
PROPERTY SettingsRefinement
