\* The Court pins the new key and its answer is lost: the staged row, with the
\* only copy of the pinned private key, is dropped.
SPECIFICATION Spec
CONSTANTS
    w1 = w1
    w2 = w2
    k1 = k1
    k2 = k2
    k3 = k3
    Worker <- OneWorker
    Kid <- Kids
    NoKey = NoKey
    Faults = {"late_reply"}
INVARIANT
    PinnedKeyKept
