\* One org, two writers, a flaky Court and an interrupted publisher.
CONSTANTS
    w1 = w1
    w2 = w2
    e1 = e1
    e2 = e2
    e3 = e3
    e4 = e4
    own = own
    system = system
    NoEvent = NoEvent
    Worker <- Workers
    Org <- OneOrg
    Event <- Events3
    MaxRetries = 2
    SingleWriter = FALSE
    MaxBatch = 2
    MaxFailures = 2
SPECIFICATION FairSpec
INVARIANTS
    TypeOK
    LocalChainsVerify
    OrgIdsInOrder
    NothingSkipped
    ReplicaIsPrefix
PROPERTY
    EventuallyReplicated
