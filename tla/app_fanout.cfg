\* App task enabled: an APP event is posted to the stack task's mailbox.
CONSTANTS
    AppTaskEnabled = TRUE
    SerialTaskEnabled = FALSE
    ResetEnabled = FALSE
    MaxApiCalls = 1
    None = None
    a1 = a1
    MaxDepth = 2
    ApiThreads <- MCApiThreads
    Prio <- MCPrio
SPECIFICATION Spec
PROPERTY StackPostServiced
