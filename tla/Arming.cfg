CONSTANTS
    Replicas = {a, b}
    Callers = {p}
    Windows <- MCWindows
    Modes <- MCModes
    Default = "disarmed"
    MaxTime = 3
    MaxMishaps = 2

SPECIFICATION FairSpec
INVARIANTS
    TypeOK
PROPERTIES
    OverrideStands
    ScheduleFollowed
    BoundaryClaimed
