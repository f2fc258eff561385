---------------------------- MODULE CameraHealthMC -----------------------------
\* Model-checking instances of CameraHealth; the replicas are interchangeable.
EXTENDS CameraHealth, TLC

Symmetry == Permutations(Replicas)

\* All but the history of the calls that failed, on which no step depends.
Watched == <<camera, leader, incidents, pc, kind, frame, lastOnline, flags, obstructed,
             lastFrame, frozen, mishaps>>
================================================================================
