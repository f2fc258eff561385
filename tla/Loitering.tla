-------------------------------- MODULE Loitering --------------------------------
(***************************************************************************)
(* Loitering (services/loitering.py): whether a person stayed in a zone,   *)
(* from sightings that two replicas record in one row per camera, zone and *)
(* label, each in a transaction that holds the row's advisory lock.  A     *)
(* sighting carries the time of its event and may be recorded late.        *)
(***************************************************************************)
EXTENDS Integers

CONSTANTS
    LoiterReplicas,
    LoiterThreshold,   \* dwell_seconds of the zone
    LoiterGap,         \* loitering_gap_seconds
    LoiterRepeat,      \* loitering_repeat_seconds
    LoiterLate,        \* bound: how late a sighting may be recorded
    LoiterHorizon      \* bound: the clock

ASSUME LoiterAssumption ==
    /\ {LoiterThreshold, LoiterGap, LoiterRepeat, LoiterHorizon} \subseteq Nat \ {0}
    /\ LoiterLate \in Nat /\ LoiterLate < LoiterThreshold
    /\ "nobody" \notin LoiterReplicas

VARIABLES
    presence,    \* the ZonePresence row: times, 0 for none
    presenceBy,  \* who holds its advisory lock
    sighting,    \* what each replica is recording: the time, 0 for nothing, and the row it read
    clock,
    loSightings,   \* history: times of the sightings recorded
    flagged      \* history: time of the latest alert

loiterVars == <<presence, presenceBy, sighting, clock, loSightings, flagged>>

NoPresence == [first |-> 0, last |-> 0, alert |-> 0]
NoSighting == [at |-> 0, row |-> NoPresence]
NoVisitor     == "nobody"

LoiterInit ==
    /\ presence = NoPresence /\ presenceBy = NoVisitor /\ clock = 1
    /\ sighting = [r \in LoiterReplicas |-> NoSighting]
    /\ loSightings = {} /\ flagged = 0

LoiterTick == clock < LoiterHorizon /\ clock' = clock + 1
              /\ UNCHANGED <<presence, presenceBy, sighting, loSightings, flagged>>

\* _acquire_presence_lock, held to the end of the transaction.
NoLock(r)      == TRUE  \* mutant: SQLite's no-op on a database with more writers
PresenceLock(r) == presenceBy = NoVisitor

ReadPresence(r) ==
    /\ sighting[r] = NoSighting /\ PresenceLock(r) /\ presenceBy' = r
    /\ \E at \in {t \in 1..clock : clock - t <= LoiterLate} :
          sighting' = [sighting EXCEPT ![r] = [at |-> at, row |-> presence]]
    /\ UNCHANGED <<presence, clock, loSightings, flagged>>

\* record_sighting: a gap, or a time before the last one, begins a new visit.
EndsVisit(row, at) == at - row.last > LoiterGap \/ at < row.last
NewVisit(row, at) == [row EXCEPT !.first = at, !.alert = 0]
Visit(row, at) ==
    [(IF row.first = 0 \/ EndsVisit(row, at) THEN NewVisit(row, at) ELSE row) EXCEPT !.last = at]
Loiters(row, at) ==
    /\ at - row.first >= LoiterThreshold
    /\ row.alert = 0 \/ at - row.alert >= LoiterRepeat

SightAt(r) ==
    LET at  == sighting[r].at
        now == Visit(sighting[r].row, at)
    IN
    /\ sighting[r] # NoSighting
    /\ IF Loiters(now, at)
       THEN presence' = [now EXCEPT !.alert = at] /\ flagged' = at
       ELSE presence' = now /\ UNCHANGED flagged
    /\ loSightings' = loSightings \union {at}
    /\ sighting' = [sighting EXCEPT ![r] = NoSighting] /\ presenceBy' = NoVisitor
    /\ UNCHANGED clock

\* The transaction the sighting is part of fails, or its replica dies.
SightingLost(r) ==
    /\ sighting[r] # NoSighting
    /\ sighting' = [sighting EXCEPT ![r] = NoSighting] /\ presenceBy' = NoVisitor
    /\ UNCHANGED <<presence, clock, loSightings, flagged>>

LoiterNext ==
    \/ LoiterTick
    \/ \E r \in LoiterReplicas : ReadPresence(r) \/ SightAt(r) \/ SightingLost(r)

LoiterSpec == LoiterInit /\ [][LoiterNext]_loiterVars

\* --- properties -----------------------------------------------------------------------

\* Every variable has its type.
LoiterTypeOK ==
    /\ clock \in 1..LoiterHorizon /\ flagged \in 0..clock /\ loSightings \subseteq 1..clock
    /\ presence.first \in 0..clock /\ presence.alert \in 0..presence.last
    /\ presence.first <= presence.last

\* An alert means a stay: recorded sightings reach back over the whole threshold
\* with no gap among them that ends a visit ("came back three times is not stayed").
Unbroken(from, to) ==
    \A t \in loSightings \ {to} : t \in from..to =>
        \E u \in loSightings : u > t /\ u <= to /\ u - t <= LoiterGap
LoiteredMeansStayed ==
    flagged # 0 =>
        \E from \in loSightings : flagged - from >= LoiterThreshold /\ Unbroken(from, flagged)

\* Two alerts are a repeat period apart, or the second is of a visit that began
\* anew; a late sighting brings that forward by no more than its lateness.
LoiterMin(a, b) == IF a < b THEN a ELSE b
AlertsApart ==
    [][flagged' # flagged /\ flagged # 0 =>
          flagged' - flagged >= LoiterMin(LoiterRepeat, LoiterThreshold - LoiterLate)]_loiterVars

\* One alert for one stay, by whichever replica saw it.
LoiteringIsOne == []LoiteredMeansStayed /\ AlertsApart
================================================================================
