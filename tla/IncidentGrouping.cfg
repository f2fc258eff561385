CONSTANTS
    Events = {e1, e2, e3}
    Replicas = {a, b}
    Free = free
    Window = 1
    EscalateAfter = 1
    MaxLevel = 2
    MaxTime = 2

SPECIFICATION Spec
SYMMETRY Symmetry
INVARIANTS
    TypeOK
    GroupedOnce
    SeverityIsHighest
    EscalationPaced
PROPERTIES
    NoDuplicateIncident
