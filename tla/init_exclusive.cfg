\* Init thread at the priority of the stack task: sl_ot_init runs while the
\* already created stack task may run.
CONSTANTS
    AppTaskEnabled = FALSE
    SerialTaskEnabled = TRUE
    ResetEnabled = FALSE
    MaxApiCalls = 0
    None = None
    a1 = a1
    MaxDepth = 2
    ApiThreads <- MCApiThreads
    Prio <- MCPrioInitNormal
SPECIFICATION Spec
INVARIANT EngineExclusive
