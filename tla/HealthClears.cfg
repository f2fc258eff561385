CONSTANTS
    Replicas = {a}
    NoReplica = none
    Conditions = {"well", "offline", "dark", "still"}
    ConfirmSamples = 2
    Faults = {"restart", "db"}
    MaxMishaps = 2

SPECIFICATION FairSpec
PROPERTIES
    ClearedUnderOneLeader
