\* A reset inside otPlatSettingsSet, checked against the settings API.
CONSTANTS
    Keys <- MCKeys
    Values <- MCValues
    v1 = v1
    v2 = v2
    e0 = e0
    Empty = e0
    NumIdx = 2
    ListSize = 2
    NoObj = NoObj
    NoKey = NoKey
    NvmFaults = FALSE
    CrashEnabled = TRUE
SPECIFICATION Spec
PROPERTY SettingsRefinement
