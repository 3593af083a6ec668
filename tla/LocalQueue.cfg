\* Two workers, a send and its retry, a sweep limit of one row,
\* one failed statement, one crash and one lost lock connection.
CONSTANTS
    w1 = w1
    w2 = w2
    c1 = c1
    c2 = c2
    k1 = k1
    None = None
    Worker <- Workers
    Call <- Calls
    Key <- Keys
    SweepLimit = 1
    MaxFaults = 1
    MaxCrashes = 1
    MaxDrops = 1
SPECIFICATION FairSpec
INVARIANTS
    TypeOK
    LeadersBounded
    RetryNotDuplicated
PROPERTIES
    SweepReports
    LateMessageSettles
CHECK_DEADLOCK FALSE
