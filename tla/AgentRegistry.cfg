\* One agent id: created, pushed, changed and quarantined, with one
\* lost request or one restart.
CONSTANTS
    MaxChanges = 3
    MaxEvents = 1
    MaxFaults = 1
SPECIFICATION FairSpec
INVARIANTS
    TypeOK
    CourtCurrent
PROPERTIES
    RevocationReachesCourt
    EnforceEventsResolve
CHECK_DEADLOCK FALSE
