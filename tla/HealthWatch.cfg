CONSTANTS
    Replicas = {a, b}
    NoReplica = none
    Conditions = {"well", "offline", "dark"}
    ConfirmSamples = 1
    Faults = {"handover", "restart", "db"}
    MaxMishaps = 2

SPECIFICATION Spec
SYMMETRY Symmetry
VIEW Watched
INVARIANTS
    TypeOK
    OneUnresolvedIncident
PROPERTIES
    NotReraisedTooSoon
