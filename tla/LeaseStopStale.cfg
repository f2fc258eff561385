CONSTANTS
    Replicas = {a, b}
    NoReplica = none
    TTL = 2
    MaxEpoch = 2
    MaxVersion = 4
    Faults = {"stop"}

SPECIFICATION Spec
PROPERTIES
    NoStaleOverwrite
