CONSTANTS
    Replicas = {a, b}
    NoReplica = none
    TTL = 2
    MaxEpoch = 2
    MaxVersion = 2
    Faults = {"crash", "stop", "scene"}

SPECIFICATION FairSpec
PROPERTIES
    StandbyTakesOver
