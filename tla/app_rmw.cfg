\* App task enabled and the application thread at osPriorityNormal (24):
\* its APP post rewrites the stack mailbox while an interrupt posts STACK.
CONSTANTS
    AppTaskEnabled = TRUE
    SerialTaskEnabled = TRUE
    ResetEnabled = FALSE
    MaxApiCalls = 1
    None = None
    a1 = a1
    MaxDepth = 2
    ApiThreads <- MCApiThreads
    Prio <- MCPrioApiNormal
SPECIFICATION Spec
INVARIANT NoLostWakeup
