\* Two chains behind one cursor: the own org and the system org.
CONSTANTS
    w1 = w1
    w2 = w2
    e1 = e1
    e2 = e2
    e3 = e3
    e4 = e4
    own = own
    system = system
    NoEvent = NoEvent
    Worker <- Workers
    Org <- TwoOrgs
    Event <- Events
    MaxRetries = 2
    SingleWriter = TRUE
    MaxBatch = 2
    MaxFailures = 2
SPECIFICATION Spec
INVARIANT
    NothingSkipped
