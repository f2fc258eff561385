CONSTANTS
    Replicas = {a}
    Callers = {p}
    Windows <- MCWindows
    Modes <- MCModes
    Default = "disarmed"
    MaxTime = 2
    MaxMishaps = 2

SPECIFICATION Spec
PROPERTIES
    AutomaticChangeAudited
