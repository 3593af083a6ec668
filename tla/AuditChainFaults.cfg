\* Two workers, every fault, both durability modes, attempts running out,
\* fair event loops.
CONSTANTS
    w1 = w1
    w2 = w2
    r1 = r1
    r2 = r2
    r3 = r3
    r4 = r4
    NoWorker = NoWorker
    Worker <- Workers
    Row <- Rows3
    BatchSize = 2
    MaxRetries = 2
    DurableModes = {TRUE, FALSE}
    FailDeny = FALSE
    BackgroundFailDeny = TRUE
    Faults = {"crash", "stop", "db_error"}
SPECIFICATION FairSpec
INVARIANTS
    TypeOK
    ChainVerifies
    DurableAck
    CrashWindow
PROPERTIES
    AppendsOnly
    EveryCallAnswered
