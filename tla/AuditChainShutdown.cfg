\* One worker that is told to stop: does the shutdown drain lose nothing?
CONSTANTS
    w1 = w1
    w2 = w2
    r1 = r1
    r2 = r2
    r3 = r3
    r4 = r4
    NoWorker = NoWorker
    Worker <- Workers
    Row <- Rows3
    BatchSize = 2
    MaxRetries = 3
    DurableModes = {FALSE}
    FailDeny = TRUE
    BackgroundFailDeny = TRUE
    Faults = {"stop"}
SPECIFICATION Spec
SYMMETRY Interchangeable
INVARIANT
    ShutdownDrains
