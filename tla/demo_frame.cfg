\* One button press: the demo draws with LDMA rows.
CONSTANTS
    Rows = 2
    RowChunks = 2
    DemoIters = 2
    VWrap = 1
    MaxStarts = 1
    MaxUserDraws = 0
    ExtcominPresent = TRUE
SPECIFICATION Spec
\* the thread stops after its updates and the demo task waits for a press
CHECK_DEADLOCK FALSE
PROPERTY FrameIntact
