\* Two calls around midnight, and two faults.
CONSTANTS
    c1 = c1
    c2 = c2
    None = None
    Call <- Calls
    Limit = 5
    Reserve = 2
    MaxWeight = 3
    Prior = 4
    ScanCap = 1
    MaxFaults = 2
SYMMETRY Symmetry
SPECIFICATION Spec
INVARIANTS
    TypeOK
    CounterExact
    UnderCountBounded
CHECK_DEADLOCK FALSE
