\* The configured build: serial task on, app task off, no pseudo reset.
CONSTANTS
    AppTaskEnabled = FALSE
    SerialTaskEnabled = TRUE
    ResetEnabled = FALSE
    None = None
    a1 = a1
    MaxDepth = 2
    MaxApiCalls = 2
    ApiThreads <- MCApiThreads
    Prio <- MCPrio
SPECIFICATION Spec
INVARIANT TypeOK
INVARIANT NoLostWakeup
INVARIANT EngineExclusive
 
PROPERTY StackPostServiced
