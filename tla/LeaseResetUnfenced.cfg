CONSTANTS
    Replicas = {a, b}
    NoReplica = none
    TTL = 2
    MaxEpoch = 2
    MaxVersion = 3
    Faults = {"scene"}

SPECIFICATION Spec
PROPERTIES
    WritesAreFenced
