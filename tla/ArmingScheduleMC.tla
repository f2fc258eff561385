--------------------------- MODULE ArmingScheduleMC ----------------------------
\* Model-checking instance of ArmingSchedule: a night window and an away window
\* that overlaps it and outranks it, ending together.
EXTENDS ArmingSchedule

Occurrence(s, e, m, p) == [start |-> s, end |-> e, mode |-> m, priority |-> p]
MCWindows == {Occurrence(1, 3, "night", 0), Occurrence(2, 3, "away", 1)}
MCModes   == {"disarmed", "away", "night"}
================================================================================
