\* One or two workers on one database, one mint and two rotations, crashes, failed
\* cleanups and failed commits.
SPECIFICATION FairSpec
CONSTANTS
    w1 = w1
    w2 = w2
    k1 = k1
    k2 = k2
    k3 = k3
    Worker <- TwoWorkers
    Kid <- Kids
    NoKey = NoKey
    Faults = {"cleanup", "commit"}
INVARIANTS
    TypeOK
    OneActive
    PinnedKeyKept
    
PROPERTIES
    ActivatedIsPinned
    StagedResolved
