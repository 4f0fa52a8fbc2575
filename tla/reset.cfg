\* Every task configured and pseudo resets enabled: the stack task
\* finalizes and terminates, the app task terminates.
CONSTANTS
    AppTaskEnabled = TRUE
    SerialTaskEnabled = TRUE
    ResetEnabled = TRUE
    MaxApiCalls = 1
    None = None
    a1 = a1
    MaxDepth = 2
    ApiThreads <- MCApiThreads
    Prio <- MCPrio
SPECIFICATION Spec
INVARIANT NoLostWakeup
PROPERTY ResetHonoured
