\* Two sessions, two agent ids, one nonce and two requests at a time.
CONSTANTS
    s1 = s1
    s2 = s2
    a1 = a1
    a2 = a2
    n1 = n1
    t1 = t1
    t2 = t2
    None = None
    Session <- Sessions
    Agent <- Agents
    Nonce <- Nonces
    Request <- Requests
SPECIFICATION Spec
INVARIANTS
    TypeOK
    RegisteredIsApproved
    NonceOnce
    GraceBounded
SYMMETRY Symmetry
CHECK_DEADLOCK FALSE
