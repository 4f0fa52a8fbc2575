\* Configured build with pseudo resets: otInstanceFinalize runs without the
\* stack mutex, and the serial task outlives the instance.
CONSTANTS
    AppTaskEnabled = FALSE
    SerialTaskEnabled = TRUE
    ResetEnabled = TRUE
    MaxApiCalls = 1
    None = None
    a1 = a1
    MaxDepth = 2
    ApiThreads <- MCApiThreads
    Prio <- MCPrio
SPECIFICATION Spec
INVARIANT FinalizeIsolated
