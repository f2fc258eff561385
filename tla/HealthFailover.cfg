CONSTANTS
    Replicas = {a, b}
    NoReplica = none
    Conditions = {"well", "offline"}
    ConfirmSamples = 2
    Faults = {"handover"}
    MaxMishaps = 1

SPECIFICATION FairSpec
PROPERTIES
    ClearedAfterHandover
