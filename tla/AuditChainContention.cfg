\* Two workers contending for chain_seq, no other fault, fair event loops.
CONSTANTS
    w1 = w1
    w2 = w2
    r1 = r1
    r2 = r2
    r3 = r3
    r4 = r4
    NoWorker = NoWorker
    Worker <- Workers
    Row <- Rows4
    BatchSize = 2
    MaxRetries = 2
    DurableModes = {TRUE, FALSE}
    FailDeny = TRUE
    BackgroundFailDeny = TRUE
    Faults = {}
SPECIFICATION FairSpec
INVARIANTS
    LossIsNoticed
    RefusedRowAbsent
PROPERTY
    EveryRowSettles
