\* Two button presses, with one update by the other thread; one row per
\* update keeps the liveness check small (the hang it looks for is in the
\* spins, not in the order of rows).
CONSTANTS
    Rows = 1
    RowChunks = 2
    DemoIters = 2
    VWrap = 1
    MaxStarts = 2
    MaxUserDraws = 1
    ExtcominPresent = TRUE
SPECIFICATION Spec
\* the thread stops after its updates and the demo task waits for a press
CHECK_DEADLOCK FALSE
INVARIANT TypeOK
PROPERTY DemoCompletes
