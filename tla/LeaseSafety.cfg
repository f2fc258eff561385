CONSTANTS
    Replicas = {a, b}
    NoReplica = none
    TTL = 2
    MaxEpoch = 3
    MaxVersion = 4
    Faults = {"crash", "db"}

SPECIFICATION Spec
SYMMETRY Symmetry
INVARIANTS
    TypeOK
    BeliefIsHeld
    OneHistoryReported
PROPERTIES
    WritesAreFenced
    ImplementsSceneWriter
