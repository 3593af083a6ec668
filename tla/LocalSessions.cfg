\* Two workers, one session, one save of a request in flight at a time
\* besides those of the sweepers, one crash, one lost lock, one failed save.
CONSTANTS
    w1 = w1
    w2 = w2
    s1 = s1
    None = None
    Worker <- Workers
    Session <- Sessions
    MaxSessions = 1
    ActiveCap = 1
    MaxSaves = 1
    MaxCrashes = 1
    MaxDrops = 1
    MaxFaults = 1
SPECIFICATION FairSpec
INVARIANTS
    TypeOK
    CloseIsFinal
PROPERTIES
    LeaderSessionsEnd
CHECK_DEADLOCK FALSE
