CONSTANTS
    Events = {e1, e2}
    Replicas = {a}
    Free = free
    Window = 1
    EscalateAfter = 1
    MaxLevel = 2
    MaxTime = 2
SPECIFICATION Spec
PROPERTIES
    SeverityRaiseAlerts
