----------------------------- MODULE IncidentsProofs ---------------------------
(***************************************************************************)
(* Proofs about the grouping of detections into incidents (Incidents), for *)
(* every set of events and of replicas and every window and interval.      *)
(***************************************************************************)
EXTENDS Incidents, FiniteSetTheorems, NumberLemmas, TLAPS

\* Whoever routes has the route lock.
LockIsHeld == \A e \in Events : step[e] = "route" => lock = e

\* What a routing transaction has read is what the rows still say, and when it
\* found nothing to join there still is nothing.
ReadIsCurrent ==
    \A e \in Events : step[e] = "route" =>
        /\ found[e] \in 0..Len(incidents)
        /\ found[e] # 0 => /\ read[e].events = incidents[found[e]].events
                           /\ read[e].count = incidents[found[e]].count
                           /\ read[e].severity = incidents[found[e]].severity
        /\ found[e] = 0 => \A i \in Ids : incidents[i].closed \/ at[e] - incidents[i].last > Window

ResolvedAreClosed == \A i \in Ids : incidents[i].status = "resolved" => incidents[i].closed

\* An event is in the incident it was routed to and in no other.
EachInOne ==
    /\ \A i \in Ids, e \in Events : e \in incidents[i].events => step[e] = "routed"
    /\ \A i, j \in Ids, e \in Events :
          e \in incidents[i].events /\ e \in incidents[j].events => i = j
    /\ \A e \in Events : step[e] = "routed" => \E i \in Ids : e \in incidents[i].events

CountsAreRight ==
    \A i \in Ids : /\ IsFiniteSet(incidents[i].events)
                   /\ incidents[i].count = Cardinality(incidents[i].events)

\* Escalations are dated, and so are those a sweep still has to write.
DatesAreKept ==
    /\ \A e \in Events : at[e] <= now
    /\ \A i \in Ids : /\ incidents[i].level * EscalateAfter <= incidents[i].escalated - incidents[i].created
                      /\ incidents[i].escalated <= now
    /\ \A r \in Replicas : /\ sweepAt[r] <= now
                           /\ \A d \in due[r] :
                                /\ d[1] \in Ids /\ d[2] \in 0..(MaxLevel - 1)
                                /\ (d[2] + 1) * EscalateAfter <= sweepAt[r] - incidents[d[1]].created

SeenInThePast == \A i \in Ids : incidents[i].last <= now

Grouping == /\ TypeOK /\ SeenInThePast /\ LockIsHeld /\ ReadIsCurrent /\ ResolvedAreClosed
            /\ EachInOne /\ CountsAreRight /\ SeverityIsHighest /\ DatesAreKept

-------------------------------------------------------------------------------
LEMMA RowsAreRows == ASSUME incidents \in Seq(Row), NEW i \in Ids PROVE incidents[i] \in Row
BY DEF Ids

\* Of the unresolved incidents, if there are any, one was seen last.
LEMMA OneWasSeenLast ==
    ASSUME TypeOK, NEW B \in Nat, \A i \in Ids : incidents[i].last <= B,
           NEW k \in Unresolved
    PROVE  \E i \in SeenLast : incidents[k].last <= incidents[i].last
<1> DEFINE T == {B - incidents[i].last : i \in Unresolved}
<1>1. \A i \in Unresolved : i \in Ids /\ incidents[i].last \in Nat
    <2> SUFFICES ASSUME NEW i \in Unresolved PROVE i \in Ids /\ incidents[i].last \in Nat
        OBVIOUS
    <2>1. i \in Ids
        BY DEF Unresolved
    <2>2. QED
        BY <2>1, RowsAreRows DEF TypeOK, Row
<1>2. T \in SUBSET Nat /\ T # {}
    BY <1>1
<1>3. PICK x \in T : \A y \in T : x <= y
    <2> HIDE DEF T
    <2>1. QED
        BY <1>2, LeastNumber
<1>4. PICK i \in Unresolved : x = B - incidents[i].last
    BY <1>3
<1>5. \A j \in Unresolved : incidents[j].last <= incidents[i].last
    <2> SUFFICES ASSUME NEW j \in Unresolved PROVE incidents[j].last <= incidents[i].last
        OBVIOUS
    <2>1. B - incidents[i].last <= B - incidents[j].last
        BY <1>3, <1>4
    <2>2. QED
        BY <1>1, <2>1
<1>6. QED
    BY <1>5 DEF SeenLast

-------------------------------------------------------------------------------
\* One row is written, or one is added.
LEMMA OneRowWritten ==
    ASSUME incidents \in Seq(Row), NEW i \in Ids, NEW row \in Row,
           incidents' = [incidents EXCEPT ![i] = row]
    PROVE  /\ incidents' \in Seq(Row) /\ Len(incidents') = Len(incidents) /\ Ids' = Ids
           /\ incidents'[i] = row /\ \A j \in Ids : j # i => incidents'[j] = incidents[j]
BY DEF Ids

LEMMA OneRowAdded ==
    ASSUME incidents \in Seq(Row), NEW row \in Row, incidents' = Append(incidents, row)
    PROVE  /\ incidents' \in Seq(Row) /\ Len(incidents') = Len(incidents) + 1
           /\ Ids' = Ids \union {Len(incidents) + 1}
           /\ incidents'[Len(incidents) + 1] = row
           /\ \A j \in Ids : incidents'[j] = incidents[j]
BY DEF Ids

\* What the grouping is made of is left alone.
SameGroups ==
    /\ Len(incidents') = Len(incidents)
    /\ \A i \in Ids :
          /\ incidents'[i].events = incidents[i].events /\ incidents'[i].count = incidents[i].count
          /\ incidents'[i].last = incidents[i].last /\ incidents'[i].severity = incidents[i].severity
          /\ incidents[i].closed => incidents'[i].closed

SameDates == \A i \in Ids : /\ incidents'[i].created = incidents[i].created
                            /\ incidents'[i].level = incidents[i].level
                            /\ incidents'[i].escalated = incidents[i].escalated

LEMMA AcknowledgeRow ==
    ASSUME incidents \in Seq(Row), NEW i \in Ids, Acknowledge(i)
    PROVE  incidents' \in Seq(Row) /\ SameGroups /\ SameDates
           /\ \A j \in Ids : incidents'[j].status = "resolved" => incidents[j].status = "resolved"
<1> DEFINE row == [incidents[i] EXCEPT !.status = "acknowledged"]
<1>1. row \in Row
    BY RowsAreRows DEF Row
<1>2. incidents' = [incidents EXCEPT ![i] = row]
    BY DEF Acknowledge
<1>3. /\ row.events = incidents[i].events /\ row.count = incidents[i].count
      /\ row.last = incidents[i].last /\ row.severity = incidents[i].severity
      /\ row.closed = incidents[i].closed /\ row.created = incidents[i].created
      /\ row.level = incidents[i].level /\ row.escalated = incidents[i].escalated
      /\ row.status = "acknowledged"
    BY RowsAreRows DEF Row
<1> HIDE DEF row
<1>4. QED
    BY <1>1, <1>2, <1>3, OneRowWritten DEF SameGroups, SameDates

LEMMA ResolveRow ==
    ASSUME incidents \in Seq(Row), NEW i \in Ids, Resolve(i), ResolvedAreClosed
    PROVE  incidents' \in Seq(Row) /\ SameGroups /\ SameDates /\ ResolvedAreClosed'
<1> DEFINE row == [incidents[i] EXCEPT !.status = "resolved", !.closed = TRUE]
<1>1. row \in Row
    BY RowsAreRows DEF Row
<1>2. incidents' = [incidents EXCEPT ![i] = row]
    BY DEF Resolve
<1>3. /\ row.events = incidents[i].events /\ row.count = incidents[i].count
      /\ row.last = incidents[i].last /\ row.severity = incidents[i].severity
      /\ row.closed /\ row.created = incidents[i].created
      /\ row.level = incidents[i].level /\ row.escalated = incidents[i].escalated
    BY RowsAreRows DEF Row
<1> HIDE DEF row
<1>4. /\ incidents' \in Seq(Row) /\ Len(incidents') = Len(incidents) /\ Ids' = Ids
      /\ incidents'[i] = row /\ \A j \in Ids : j # i => incidents'[j] = incidents[j]
    BY <1>1, <1>2, OneRowWritten
<1>5. SameGroups /\ SameDates
    BY <1>3, <1>4 DEF SameGroups, SameDates
<1>6. ResolvedAreClosed'
    BY <1>3, <1>4 DEF ResolvedAreClosed
<1>7. QED
    BY <1>4, <1>5, <1>6

\* A sweep writes one row that it found due.
LEMMA EscalateRow ==
    ASSUME TypeOK, DatesAreKept, NEW r \in Replicas, NEW d \in due[r],
           incidents' = [incidents EXCEPT ![d[1]].level = d[2] + 1, ![d[1]].escalated = sweepAt[r]]
    PROVE  /\ incidents' \in Seq(Row) /\ SameGroups
           /\ d[1] \in Ids /\ d[2] + 1 \in 0..MaxLevel
           /\ incidents'[d[1]].level = d[2] + 1 /\ incidents'[d[1]].escalated = sweepAt[r]
           /\ \A j \in Ids : /\ incidents'[j].status = incidents[j].status
                             /\ incidents'[j].created = incidents[j].created
                             /\ j # d[1] => incidents'[j] = incidents[j]
<1> DEFINE i == d[1]
           row == [incidents[i] EXCEPT !.level = d[2] + 1, !.escalated = sweepAt[r]]
<1>1. i \in Ids /\ d[2] + 1 \in 0..MaxLevel /\ sweepAt[r] \in Nat /\ incidents[i] \in Row
    <2>1. d[1] \in Ids /\ d[2] \in 0..(MaxLevel - 1)
        BY DEF DatesAreKept
    <2>2. d[2] + 1 \in 0..MaxLevel
        BY <2>1, IncidentAssumption
    <2>3. sweepAt[r] \in Nat /\ incidents \in Seq(Row)
        BY IncidentAssumption DEF TypeOK
    <2>4. QED
        BY <2>1, <2>2, <2>3, RowsAreRows
<1>2. row \in Row
    BY <1>1 DEF Row
<1>3. incidents' = [incidents EXCEPT ![i] = row]
    OBVIOUS
<1>4. /\ row.events = incidents[i].events /\ row.count = incidents[i].count
      /\ row.last = incidents[i].last /\ row.severity = incidents[i].severity
      /\ row.closed = incidents[i].closed /\ row.created = incidents[i].created
      /\ row.level = d[2] + 1 /\ row.escalated = sweepAt[r] /\ row.status = incidents[i].status
    BY <1>1 DEF Row
<1> HIDE DEF row
<1>5. /\ incidents' \in Seq(Row) /\ Len(incidents') = Len(incidents) /\ Ids' = Ids
      /\ incidents'[i] = row /\ \A j \in Ids : j # i => incidents'[j] = incidents[j]
    <2> HIDE DEF i
    <2>1. incidents \in Seq(Row)
        BY DEF TypeOK
    <2>2. QED
        BY <1>1, <1>2, <1>3, <2>1, OneRowWritten
<1>6. SameGroups
    BY <1>4, <1>5 DEF SameGroups
<1>7. QED
    BY <1>1, <1>4, <1>5, <1>6

MergedRow(e) ==
    [incidents[found[e]] EXCEPT
        !.events = read[e].events \union {e}, !.count = read[e].count + 1, !.last = at[e],
        !.severity = IF Raises(Severity(type[e]), read[e].severity) THEN Severity(type[e]) ELSE @]

LEMMA MergeRow ==
    ASSUME TypeOK, ReadIsCurrent, NEW e \in Events, Merge(e)
    PROVE  LET i == found[e] IN
           /\ i \in Ids /\ incidents' \in Seq(Row) /\ Len(incidents') = Len(incidents) /\ Ids' = Ids
           /\ \A j \in Ids : j # i => incidents'[j] = incidents[j]
           /\ incidents'[i].status = incidents[i].status /\ incidents'[i].closed = incidents[i].closed
           /\ incidents'[i].events = incidents[i].events \union {e}
           /\ incidents'[i].count = incidents[i].count + 1 /\ incidents'[i].last = at[e]
           /\ incidents'[i].severity = IF Raises(Severity(type[e]), incidents[i].severity)
                                       THEN Severity(type[e]) ELSE incidents[i].severity
           /\ incidents'[i].created = incidents[i].created /\ incidents'[i].level = incidents[i].level
           /\ incidents'[i].escalated = incidents[i].escalated
<1> DEFINE i == found[e]
           row == MergedRow(e)
           severity == IF Raises(Severity(type[e]), read[e].severity) THEN Severity(type[e])
                       ELSE incidents[i].severity
<1>1. i \in Ids /\ incidents[i] \in Row
    <2>1. i \in Ids
        BY DEF Merge, ReadIsCurrent, Ids, TypeOK
    <2>2. QED
        BY <2>1, RowsAreRows DEF TypeOK
<1>2. /\ read[e].events = incidents[i].events /\ read[e].count = incidents[i].count
      /\ read[e].severity = incidents[i].severity
    BY DEF Merge, ReadIsCurrent
<1>3. severity \in {"medium", "high"} /\ at[e] \in Nat
    BY <1>1 DEF Severity, Row, TypeOK
<1>4. /\ row.events = incidents[i].events \union {e} /\ row.count = incidents[i].count + 1
      /\ row.last = at[e] /\ row.severity = severity
      /\ row.closed = incidents[i].closed /\ row.created = incidents[i].created
      /\ row.level = incidents[i].level /\ row.escalated = incidents[i].escalated
      /\ row.status = incidents[i].status
      /\ row \in Row
    <2> DEFINE old == incidents[i]
               events == old.events \union {e}
               count == old.count + 1
               last == at[e]
    <2>1. row = [old EXCEPT !.events = events, !.count = count, !.last = last, !.severity = severity]
        BY <1>2 DEF MergedRow
    <2>2. old \in Row /\ events \in SUBSET Events /\ count \in Nat /\ last \in Nat
        BY <1>1, <1>3 DEF Row
    <2> HIDE DEF row, severity, old, events, count, last
    <2>3. row \in Row
        BY <1>3, <2>1, <2>2 DEF Row
    <2>4. /\ row.events = events /\ row.count = count /\ row.last = last /\ row.severity = severity
          /\ row.closed = old.closed /\ row.created = old.created
          /\ row.level = old.level /\ row.escalated = old.escalated /\ row.status = old.status
        BY <2>1, <2>2 DEF Row
    <2>5. QED
        BY <2>3, <2>4 DEF old, events, count, last
<1>5. incidents' = [incidents EXCEPT ![i] = row]
    BY DEF Merge, MergedRow
<1> HIDE DEF row
<1>6. /\ incidents' \in Seq(Row) /\ Len(incidents') = Len(incidents) /\ Ids' = Ids
      /\ incidents'[i] = row /\ \A j \in Ids : j # i => incidents'[j] = incidents[j]
    BY <1>1, <1>4, <1>5, OneRowWritten DEF TypeOK
<1>7. QED
    BY <1>1, <1>2, <1>4, <1>6

NewRow(e) == [status |-> "open", closed |-> FALSE, events |-> {e}, count |-> 1,
              last |-> at[e], created |-> at[e], severity |-> Severity(type[e]),
              level |-> 0, escalated |-> at[e]]

LEMMA CreateRow ==
    ASSUME TypeOK, NEW e \in Events, Create(e)
    PROVE  /\ incidents' \in Seq(Row) /\ Len(incidents') = Len(incidents) + 1
           /\ Ids' = Ids \union {Len(incidents) + 1}
           /\ incidents'[Len(incidents) + 1] = NewRow(e)
           /\ \A j \in Ids : incidents'[j] = incidents[j]
<1>1. NewRow(e) \in Row
    BY IncidentAssumption DEF NewRow, Row, TypeOK, Severity
<1>2. QED
    BY <1>1, OneRowAdded DEF Create, NewRow, TypeOK

-------------------------------------------------------------------------------
\* A step that leaves the groups and the routing alone keeps what is said of
\* them.
LEMMA SameGroupsKeep ==
    ASSUME Grouping, SameGroups, now' \in Nat, now <= now', UNCHANGED <<event, lock>>
    PROVE  /\ LockIsHeld' /\ ReadIsCurrent' /\ EachInOne' /\ CountsAreRight'
           /\ SeverityIsHighest' /\ SeenInThePast'
<1>1. Len(incidents') = Len(incidents) /\ Ids' = Ids /\ 0..Len(incidents') = 0..Len(incidents)
    BY DEF SameGroups, Ids
<1>2. LockIsHeld'
    BY DEF Grouping, LockIsHeld, event
<1>3. ReadIsCurrent'
    <2> SUFFICES ASSUME NEW e \in Events, step[e] = "route"
                 PROVE  /\ found[e] \in 0..Len(incidents')
                        /\ found[e] # 0 => /\ read[e].events = incidents'[found[e]].events
                                           /\ read[e].count = incidents'[found[e]].count
                                           /\ read[e].severity = incidents'[found[e]].severity
                        /\ found[e] = 0 => \A i \in Ids :
                              incidents'[i].closed \/ at[e] - incidents'[i].last > Window
        BY <1>1 DEF ReadIsCurrent, event
    <2>1. found[e] \in 0..Len(incidents) /\ (found[e] # 0 => found[e] \in Ids)
        BY DEF Grouping, ReadIsCurrent, TypeOK, Ids
    <2>2. QED
        BY <1>1, <2>1 DEF Grouping, ReadIsCurrent, SameGroups
<1>4. EachInOne'
    BY <1>1 DEF Grouping, EachInOne, SameGroups, event
<1>5. CountsAreRight'
    BY <1>1 DEF Grouping, CountsAreRight, SameGroups
<1>6. SeverityIsHighest'
    BY <1>1 DEF Grouping, SeverityIsHighest, SameGroups, event
<1>7. SeenInThePast'
    <2> SUFFICES ASSUME NEW i \in Ids PROVE incidents[i].last <= now'
        BY <1>1 DEF SeenInThePast, SameGroups
    <2>1. incidents[i].last \in Nat /\ now \in Nat
        BY RowsAreRows DEF Grouping, TypeOK, Row
    <2>2. QED
        BY <2>1 DEF Grouping, SeenInThePast
<1>8. QED
    BY <1>2, <1>3, <1>4, <1>5, <1>6, <1>7

\* Where the clock stands still it has not gone back.
LEMMA StillNow == ASSUME TypeOK, UNCHANGED now PROVE now' \in Nat /\ now <= now'
BY DEF TypeOK

LEMMA SameRowsAreSame ==
    ASSUME UNCHANGED incidents PROVE SameGroups /\ SameDates /\ Ids' = Ids
BY DEF SameGroups, SameDates, Ids

\* While no row changes, dates only move on.
LEMMA DatesKept ==
    ASSUME TypeOK, DatesAreKept, Len(incidents') = Len(incidents), SameDates,
           now' \in Nat, now <= now', UNCHANGED <<at, sweep>>
    PROVE  DatesAreKept'
<1>1. Ids' = Ids /\ now \in Nat
    BY DEF Ids, TypeOK
<1>2. \A e \in Events : at[e] \in Nat
    BY DEF TypeOK
<1>3. \A i \in Ids : incidents[i].escalated \in Nat
    BY RowsAreRows DEF TypeOK, Row
<1>4. \A r \in Replicas : sweepAt[r] \in Nat
    BY DEF TypeOK
<1>5. \A e \in Events : at'[e] <= now'
    BY <1>1, <1>2 DEF DatesAreKept
<1>6. \A i \in Ids' :
         /\ incidents'[i].level * EscalateAfter <= incidents'[i].escalated - incidents'[i].created
         /\ incidents'[i].escalated <= now'
    BY <1>1, <1>3 DEF DatesAreKept, SameDates
<1>7. \A r \in Replicas : sweepAt'[r] <= now'
    BY <1>1, <1>4 DEF DatesAreKept, sweep
<1>8. \A r \in Replicas : \A d \in due'[r] :
         /\ d[1] \in Ids' /\ d[2] \in 0..(MaxLevel - 1)
         /\ (d[2] + 1) * EscalateAfter <= sweepAt'[r] - incidents'[d[1]].created
    BY <1>1 DEF DatesAreKept, SameDates, sweep
<1>9. QED
    BY <1>5, <1>6, <1>7, <1>8 DEF DatesAreKept

\* Time passes and the mode changes.
LEMMA ClockStep ==
    ASSUME Grouping, Tick \/ SetMode \/ UNCHANGED vars
    PROVE  Grouping'
<1> USE IncidentAssumption
<1>1. UNCHANGED <<incidents, event, lock, sweep, claims>>
    BY DEF Tick, SetMode, vars
<1>2. now' \in 0..MaxTime /\ now <= now' /\ armed' \in BOOLEAN
    <2>1. now \in 0..MaxTime /\ armed \in BOOLEAN
        BY DEF Grouping, TypeOK
    <2>2. CASE Tick
        BY <2>1, <2>2 DEF Tick
    <2>3. CASE SetMode \/ UNCHANGED vars
        <3>1. UNCHANGED now
            BY <2>3 DEF SetMode, vars
        <3>2. armed' \in BOOLEAN
            BY <2>1, <2>3 DEF SetMode, vars
        <3>3. QED
            BY <2>1, <3>1, <3>2
    <2>4. QED
        BY <2>2, <2>3
<1>3. TypeOK'
    BY <1>1, <1>2 DEF Grouping, TypeOK, event, sweep
<1>4. DatesAreKept'
    BY <1>1, <1>2, DatesKept, SameRowsAreSame DEF Grouping, event, sweep
<1>5. ResolvedAreClosed'
    BY <1>1, SameRowsAreSame DEF Grouping, ResolvedAreClosed
<1>6. QED
    BY <1>1, <1>2, <1>3, <1>4, <1>5, SameGroupsKeep, SameRowsAreSame DEF Grouping

LEMMA HumanStep ==
    ASSUME Grouping, NEW i \in Ids, Acknowledge(i) \/ Resolve(i)
    PROVE  Grouping'
<1>1. UNCHANGED <<now, armed, event, lock, sweep, claims>>
    BY DEF Acknowledge, Resolve
<1>2. incidents \in Seq(Row)
    BY DEF Grouping, TypeOK
<1>3. incidents' \in Seq(Row) /\ SameGroups /\ SameDates
    BY <1>2, AcknowledgeRow, ResolveRow DEF Grouping
<1>4. Ids' = Ids
    BY <1>3 DEF SameGroups, Ids
<1>5. ResolvedAreClosed'
    <2>1. CASE Acknowledge(i)
        BY <1>2, <1>3, <1>4, <2>1, AcknowledgeRow DEF Grouping, ResolvedAreClosed, SameGroups
    <2>2. CASE Resolve(i)
        BY <1>2, <2>2, ResolveRow DEF Grouping
    <2>3. QED
        BY <2>1, <2>2
<1>6. TypeOK'
    BY <1>1, <1>3 DEF Grouping, TypeOK, event, sweep
<1>7. DatesAreKept'
    BY <1>1, <1>3, DatesKept DEF Grouping, SameGroups, TypeOK, event
<1>8. QED
    BY <1>1, <1>3, <1>5, <1>6, <1>7, SameGroupsKeep, StillNow DEF Grouping

\* A sweep reads what is due...
LEMMA BeginSweepStep ==
    ASSUME Grouping, NEW r \in Replicas, BeginSweep(r)
    PROVE  Grouping'
<1> USE IncidentAssumption
<1>1. UNCHANGED <<now, armed, event, lock, incidents, claims>> /\ now \in Nat
    BY DEF BeginSweep, Grouping, TypeOK
<1>2. Ids' = Ids
    BY <1>1 DEF Ids
<1>3. \A s \in Replicas : s # r => sweepAt'[s] = sweepAt[s] /\ due'[s] = due[s]
    BY DEF BeginSweep, Grouping, TypeOK
<1>4. sweepAt'[r] = now
    BY DEF BeginSweep, Grouping, TypeOK
<1>5. ASSUME NEW d \in due'[r]
      PROVE  /\ d \in Nat \X Nat /\ d[1] \in Ids /\ d[2] \in 0..(MaxLevel - 1)
             /\ (d[2] + 1) * EscalateAfter <= now - incidents[d[1]].created
    <2>1. PICK j \in Ids : /\ d = <<j, incidents[j].level>> /\ incidents[j].level < MaxLevel
                           /\ now - incidents[j].escalated >= EscalateAfter
        BY <1>5 DEF BeginSweep, Grouping, TypeOK
    <2>2. incidents[j].level \in 0..MaxLevel /\ incidents[j].escalated \in Nat
          /\ incidents[j].created \in Nat /\ j \in Nat
        <3>1. incidents[j] \in Row
            BY RowsAreRows DEF Grouping, TypeOK
        <3>2. QED
            BY <3>1 DEF Row, Ids
    <2>3. incidents[j].level * EscalateAfter <= incidents[j].escalated - incidents[j].created
        BY DEF Grouping, DatesAreKept
    <2>4. (incidents[j].level + 1) * EscalateAfter = incidents[j].level * EscalateAfter + EscalateAfter
        BY <2>2
    <2>5. incidents[j].level * EscalateAfter \in Nat
        BY <2>2
    <2>6. (incidents[j].level + 1) * EscalateAfter <= now - incidents[j].created
        BY <1>1, <2>1, <2>2, <2>3, <2>4, <2>5
    <2>7. QED
        BY <2>1, <2>2, <2>6
<1>6. TypeOK'
    <2>1. due' \in [Replicas -> SUBSET (Nat \X Nat)]
        <3>1. due'[r] \in SUBSET (Nat \X Nat)
            BY <1>5
        <3>2. due' = [due EXCEPT ![r] = due'[r]]
            BY DEF BeginSweep, Grouping, TypeOK
        <3>3. QED
            BY <3>1, <3>2 DEF Grouping, TypeOK
    <2>2. sweepAt' \in [Replicas -> Nat]
        BY <1>1 DEF BeginSweep, Grouping, TypeOK
    <2>3. QED
        BY <1>1, <2>1, <2>2 DEF Grouping, TypeOK, event
<1>7. DatesAreKept'
    <2>1. \A s \in Replicas : sweepAt'[s] <= now
        BY <1>1, <1>3, <1>4 DEF Grouping, DatesAreKept
    <2>2. \A s \in Replicas : \A d \in due'[s] :
            /\ d[1] \in Ids /\ d[2] \in 0..(MaxLevel - 1)
            /\ (d[2] + 1) * EscalateAfter <= sweepAt'[s] - incidents[d[1]].created
        <3> SUFFICES ASSUME NEW s \in Replicas, NEW d \in due'[s]
                     PROVE  /\ d[1] \in Ids /\ d[2] \in 0..(MaxLevel - 1)
                            /\ (d[2] + 1) * EscalateAfter <= sweepAt'[s] - incidents[d[1]].created
            OBVIOUS
        <3>1. CASE s = r
            BY <1>4, <1>5, <3>1
        <3>2. CASE s # r
            BY <1>3, <3>2 DEF Grouping, DatesAreKept
        <3>3. QED
            BY <3>1, <3>2
    <2>3. QED
        BY <1>1, <1>2, <2>1, <2>2 DEF Grouping, DatesAreKept, event
<1>8. ResolvedAreClosed'
    BY <1>1, <1>2 DEF Grouping, ResolvedAreClosed
<1>9. QED
    BY <1>1, <1>6, <1>7, <1>8, SameGroupsKeep, SameRowsAreSame, StillNow DEF Grouping

\* ... and writes it, row by row, from what it read.
LEMMA EscalateStep ==
    ASSUME Grouping, NEW r \in Replicas, Escalate(r)
    PROVE  Grouping'
<1> USE IncidentAssumption
<1>1. PICK d \in due[r] :
         /\ incidents' = [incidents EXCEPT ![d[1]].level = d[2] + 1, ![d[1]].escalated = sweepAt[r]]
         /\ claims' = claims \union {<<d[1], "escalated", d[2] + 1>>}
         /\ due' = [due EXCEPT ![r] = @ \ {d}]
         /\ UNCHANGED <<now, armed, event, lock, sweepAt>>
    BY DEF Escalate
<1>2. /\ incidents' \in Seq(Row) /\ SameGroups
      /\ d[1] \in Ids /\ d[2] + 1 \in 0..MaxLevel
      /\ incidents'[d[1]].level = d[2] + 1 /\ incidents'[d[1]].escalated = sweepAt[r]
      /\ \A j \in Ids : /\ incidents'[j].status = incidents[j].status
                        /\ incidents'[j].created = incidents[j].created
                        /\ j # d[1] => incidents'[j] = incidents[j]
    <2>1. TypeOK /\ DatesAreKept
        BY DEF Grouping
    <2>2. QED
        BY <1>1, <2>1, EscalateRow
<1>3. Ids' = Ids
    BY <1>2 DEF SameGroups, Ids
<1>4. due' \in [Replicas -> SUBSET (Nat \X Nat)] /\ \A s \in Replicas : due'[s] \subseteq due[s]
    BY <1>1 DEF Grouping, TypeOK
<1>5. TypeOK'
    <2>1. <<d[1], "escalated", d[2] + 1>> \in Nat \X {"created", "escalated"} \X (0..MaxLevel)
        BY <1>2 DEF Ids
    <2>2. claims' \subseteq Nat \X {"created", "escalated"} \X (0..MaxLevel)
        BY <1>1, <2>1 DEF Grouping, TypeOK
    <2>3. QED
        BY <1>1, <1>2, <1>4, <2>2 DEF Grouping, TypeOK, event
<1>6. DatesAreKept'
    <2>1. \A i \in Ids :
             /\ incidents'[i].level * EscalateAfter <= incidents'[i].escalated - incidents'[i].created
             /\ incidents'[i].escalated <= now
        <3> SUFFICES ASSUME NEW i \in Ids
                     PROVE  /\ incidents'[i].level * EscalateAfter
                                  <= incidents'[i].escalated - incidents'[i].created
                            /\ incidents'[i].escalated <= now
            OBVIOUS
        <3>1. CASE i = d[1]
            <4>1. (d[2] + 1) * EscalateAfter <= sweepAt[r] - incidents[i].created /\ sweepAt[r] <= now
                BY <3>1 DEF Grouping, DatesAreKept
            <4>2. QED
                BY <1>2, <3>1, <4>1
        <3>2. CASE i # d[1]
            BY <1>2, <3>2 DEF Grouping, DatesAreKept
        <3>3. QED
            BY <3>1, <3>2
    <2>2. \A s \in Replicas : \A c \in due'[s] :
             /\ c[1] \in Ids /\ c[2] \in 0..(MaxLevel - 1)
             /\ (c[2] + 1) * EscalateAfter <= sweepAt[s] - incidents'[c[1]].created
        BY <1>2, <1>4 DEF Grouping, DatesAreKept
    <2>3. QED
        BY <1>1, <1>3, <2>1, <2>2 DEF Grouping, DatesAreKept, event
<1>7. ResolvedAreClosed'
    BY <1>2, <1>3 DEF Grouping, ResolvedAreClosed, SameGroups
<1>8. QED
    BY <1>1, <1>2, <1>5, <1>6, <1>7, SameGroupsKeep, StillNow DEF Grouping

-------------------------------------------------------------------------------
\* An event goes on without an incident being written: nobody's group changes,
\* and nothing is read that is not there.
EventMoves(e) ==
    /\ UNCHANGED <<now, armed, incidents, sweep, claims>>
    /\ step \in [Events -> {"none", "enrich", "ignored", "route", "routed", "failed"}]
    /\ step[e] # "routed" /\ step'[e] # "routed"
    /\ \A f \in Events : f # e => /\ step'[f] = step[f] /\ at'[f] = at[f] /\ type'[f] = type[f]
                                  /\ found'[f] = found[f] /\ read'[f] = read[f]

LEMMA EventMovesKeep ==
    ASSUME Grouping, NEW e \in Events, EventMoves(e)
    PROVE  /\ EachInOne' /\ CountsAreRight' /\ SeverityIsHighest' /\ ResolvedAreClosed'
           /\ SeenInThePast'
<1>1. Ids' = Ids /\ incidents' = incidents
    BY DEF EventMoves, Ids
<1>2. \A i \in Ids : e \notin incidents[i].events
    BY DEF Grouping, EachInOne, EventMoves
<1>3. EachInOne'
    <2>1. \A f \in Events : step'[f] = "routed" <=> step[f] = "routed"
        BY DEF EventMoves
    <2>2. QED
        BY <1>1, <2>1 DEF Grouping, EachInOne
<1>4. SeverityIsHighest'
    <2> SUFFICES ASSUME NEW i \in Ids
                 PROVE  incidents[i].severity = "high" <=>
                           \E f \in incidents[i].events : type'[f] = "person"
        BY <1>1 DEF SeverityIsHighest
    <2>1. incidents[i].events \subseteq Events
        BY RowsAreRows DEF Grouping, TypeOK, Row
    <2>2. \A f \in incidents[i].events : type'[f] = type[f]
        BY <1>2, <2>1 DEF EventMoves
    <2>3. QED
        BY <2>2 DEF Grouping, SeverityIsHighest
<1>5. CountsAreRight' /\ ResolvedAreClosed' /\ SeenInThePast'
    BY <1>1 DEF Grouping, CountsAreRight, ResolvedAreClosed, SeenInThePast, EventMoves
<1>6. QED
    BY <1>3, <1>4, <1>5

LEMMA DetectStep ==
    ASSUME Grouping, NEW e \in Events, Detect(e) \/ Ignore(e)
    PROVE  Grouping'
<1>1. PICK t \in {"person", "vehicle"}, l \in {"enrich", "ignored"}, n \in {at[e], now}, m \in BOOLEAN :
         /\ step' = [step EXCEPT ![e] = l] /\ at' = [at EXCEPT ![e] = n]
         /\ type' = [type EXCEPT ![e] = t] /\ modeAt' = [modeAt EXCEPT ![e] = m]
    <2>1. CASE Detect(e)
        BY <2>1 DEF Detect, Grouping, TypeOK
    <2>2. CASE Ignore(e)
        <3>1. /\ step' = [step EXCEPT ![e] = "ignored"] /\ at' = [at EXCEPT ![e] = at[e]]
              /\ type' = [type EXCEPT ![e] = type[e]] /\ modeAt' = [modeAt EXCEPT ![e] = modeAt[e]]
              /\ type[e] \in {"person", "vehicle"} /\ modeAt[e] \in BOOLEAN
            BY <2>2 DEF Ignore, Grouping, TypeOK
        <3>2. QED
            BY <3>1
    <2>3. QED
        BY <2>1, <2>2
<1>2. UNCHANGED <<now, armed, found, read, lock, incidents, sweep, claims>>
      /\ step[e] \in {"none", "enrich"}
    BY DEF Detect, Ignore
<1>3. /\ step \in [Events -> {"none", "enrich", "ignored", "route", "routed", "failed"}]
      /\ at \in [Events -> Nat] /\ now \in Nat /\ type \in [Events -> {"person", "vehicle"}]
      /\ modeAt \in [Events -> BOOLEAN]
    BY DEF Grouping, TypeOK
<1>4. EventMoves(e) /\ step'[e] # "route"
    BY <1>1, <1>2, <1>3 DEF EventMoves
<1>5. TypeOK'
    <2>1. /\ step' \in [Events -> {"none", "enrich", "ignored", "route", "routed", "failed"}]
          /\ at' \in [Events -> Nat] /\ type' \in [Events -> {"person", "vehicle"}]
          /\ modeAt' \in [Events -> BOOLEAN]
        BY <1>1, <1>3
    <2>2. QED
        BY <1>2, <2>1 DEF Grouping, TypeOK, sweep
<1>6. LockIsHeld'
    BY <1>2, <1>4 DEF Grouping, LockIsHeld, EventMoves
<1>7. Ids' = Ids
    BY <1>2 DEF Ids
<1>8. ReadIsCurrent'
    BY <1>2, <1>4, <1>7 DEF Grouping, ReadIsCurrent, EventMoves
<1>9. DatesAreKept'
    <2>1. \A f \in Events : at'[f] <= now
        BY <1>1, <1>3 DEF Grouping, DatesAreKept
    <2>2. QED
        BY <1>2, <1>7, <2>1 DEF Grouping, DatesAreKept, sweep
<1>10. QED
    BY <1>4, <1>5, <1>6, <1>8, <1>9, EventMovesKeep DEF Grouping

\* The transaction reads under the lock.
LEMMA RouteStep ==
    ASSUME Grouping, NEW e \in Events, Route(e)
    PROVE  Grouping'
<1> USE IncidentAssumption
<1> DEFINE choices == IF Mergeable(at[e]) = {} THEN {0} ELSE Mergeable(at[e])
<1>1. PICK i \in choices :
         /\ found' = [found EXCEPT ![e] = i]
         /\ read' = [read EXCEPT ![e] =
                       IF i = 0 THEN Nothing
                       ELSE [events |-> incidents[i].events, count |-> incidents[i].count,
                             severity |-> incidents[i].severity]]
    BY DEF Route
<1>2. /\ step[e] = "enrich" /\ lock = Free /\ step' = [step EXCEPT ![e] = "route"] /\ lock' = e
      /\ UNCHANGED <<now, armed, at, type, modeAt, incidents, sweep, claims>>
    BY DEF Route
<1>3. /\ step \in [Events -> {"none", "enrich", "ignored", "route", "routed", "failed"}]
      /\ found \in [Events -> Nat]
      /\ read \in [Events -> [events : SUBSET Events, count : Nat, severity : {"medium", "high"}]]
      /\ incidents \in Seq(Row)
    BY DEF Grouping, TypeOK
<1>4. EventMoves(e)
    BY <1>1, <1>2, <1>3 DEF EventMoves
<1>5. i = 0 \/ i \in Ids
    BY <1>1 DEF Mergeable, SeenLast, Unresolved
<1>6. i \in Nat /\ i \in 0..Len(incidents)
    BY <1>3, <1>5 DEF Ids
<1>7. found'[e] = i
    BY <1>1, <1>3
<1>8. i # 0 => /\ read'[e].events = incidents[i].events /\ read'[e].count = incidents[i].count
               /\ read'[e].severity = incidents[i].severity
    BY <1>1, <1>3
<1>9. i = 0 => \A j \in Ids : incidents[j].closed \/ at[e] - incidents[j].last > Window
    <2> SUFFICES ASSUME i = 0, NEW j \in Ids, ~incidents[j].closed
                 PROVE  at[e] - incidents[j].last > Window
        OBVIOUS
    <2>1. j \in Unresolved
        BY DEF Unresolved, Grouping, ResolvedAreClosed
    <2>2. PICK k \in SeenLast : incidents[j].last <= incidents[k].last
        <3>1. now \in Nat /\ \A m \in Ids : incidents[m].last <= now
            BY DEF Grouping, SeenInThePast, TypeOK
        <3>2. QED
            BY <2>1, <3>1, OneWasSeenLast DEF Grouping
    <2>3. k \notin Mergeable(at[e]) /\ k \in Ids
        BY <1>1, <1>5, <2>2 DEF Mergeable, SeenLast, Unresolved, Ids
    <2>4. ~(at[e] - incidents[k].last <= Window)
        BY <2>2, <2>3 DEF Mergeable
    <2>5. incidents[j] \in Row /\ incidents[k] \in Row /\ at[e] \in Nat
        BY <1>3, <2>3, RowsAreRows DEF Grouping, TypeOK
    <2>6. QED
        BY <2>2, <2>4, <2>5 DEF Row
<1>10. TypeOK'
    <2>1. /\ step' \in [Events -> {"none", "enrich", "ignored", "route", "routed", "failed"}]
          /\ found' \in [Events -> Nat]
        BY <1>1, <1>2, <1>3, <1>6
    <2>2. read' \in [Events -> [events : SUBSET Events, count : Nat, severity : {"medium", "high"}]]
        <3>1. i \in Ids => incidents[i] \in Row
            BY <1>3, RowsAreRows
        <3>2. QED
            BY <1>1, <1>3, <1>5, <3>1 DEF Row, Nothing
    <2>3. QED
        BY <1>2, <2>1, <2>2 DEF Grouping, TypeOK, sweep
<1>11. LockIsHeld'
    BY <1>2, <1>3 DEF Grouping, LockIsHeld
<1>12. Ids' = Ids
    BY <1>2 DEF Ids
<1>13. ReadIsCurrent'
    <2> SUFFICES ASSUME NEW f \in Events, step'[f] = "route"
                 PROVE  /\ found'[f] \in 0..Len(incidents)
                        /\ found'[f] # 0 => /\ read'[f].events = incidents[found'[f]].events
                                            /\ read'[f].count = incidents[found'[f]].count
                                            /\ read'[f].severity = incidents[found'[f]].severity
                        /\ found'[f] = 0 => \A j \in Ids :
                              incidents[j].closed \/ at[f] - incidents[j].last > Window
        BY <1>2, <1>12 DEF ReadIsCurrent
    <2>1. f = e
        BY <1>2, <1>3 DEF Grouping, LockIsHeld
    <2>2. QED
        BY <1>6, <1>7, <1>8, <1>9, <2>1
<1>14. DatesAreKept'
    BY <1>2, StillNow, DatesKept, SameRowsAreSame DEF Grouping, SameGroups
<1>15. QED
    BY <1>4, <1>10, <1>11, <1>13, <1>14, EventMovesKeep DEF Grouping

LEMMA EndRouteTyped ==
    ASSUME TypeOK, NEW e \in Events, NEW how \in {"routed", "failed"}, EndRoute(e, how)
    PROVE  /\ step' = [step EXCEPT ![e] = how]
           /\ step' \in [Events -> {"none", "enrich", "ignored", "route", "routed", "failed"}]
           /\ found' \in [Events -> Nat]
           /\ read' \in [Events -> [events : SUBSET Events, count : Nat, severity : {"medium", "high"}]]
           /\ lock' \in Events \union {Free}
           /\ \A f \in Events : f # e => found'[f] = found[f] /\ read'[f] = read[f]
<1>1. Nothing \in [events : SUBSET Events, count : Nat, severity : {"medium", "high"}]
    BY DEF Nothing
<1>2. QED
    BY <1>1 DEF EndRoute, TypeOK

\* Once the transaction that holds the lock is over, nobody else is routing.
LEMMA EndRouteFrees ==
    ASSUME Grouping, NEW e \in Events, step[e] = "route", NEW how \in {"routed", "failed"},
           EndRoute(e, how)
    PROVE  LockIsHeld' /\ ReadIsCurrent'
<1>1. \A f \in Events : step'[f] # "route"
    <2>1. step \in [Events -> {"none", "enrich", "ignored", "route", "routed", "failed"}]
          /\ step' = [step EXCEPT ![e] = how]
        BY EndRouteTyped DEF Grouping, TypeOK
    <2>2. QED
        BY <2>1 DEF Grouping, LockIsHeld
<1>2. QED
    BY <1>1 DEF LockIsHeld, ReadIsCurrent

LEMMA RouteFailsStep ==
    ASSUME Grouping, NEW e \in Events, RouteFails(e)
    PROVE  Grouping'
<1>1. /\ EndRoute(e, "failed") /\ step[e] = "route"
      /\ UNCHANGED <<now, armed, at, type, modeAt, incidents, sweep, claims>>
    BY DEF RouteFails
<1>2. LockIsHeld' /\ ReadIsCurrent'
    BY <1>1, EndRouteFrees
<1>3. EventMoves(e)
    BY <1>1, EndRouteTyped DEF Grouping, TypeOK, EventMoves
<1>4. TypeOK'
    BY <1>1, EndRouteTyped DEF Grouping, TypeOK, sweep
<1>5. DatesAreKept'
    BY <1>1, StillNow, DatesKept, SameRowsAreSame DEF Grouping, SameGroups
<1>6. QED
    BY <1>2, <1>3, <1>4, <1>5, EventMovesKeep DEF Grouping

\* A second incident is written for an event that no row has.
LEMMA CreateStep ==
    ASSUME Grouping, NEW e \in Events, Create(e)
    PROVE  Grouping'
<1> USE IncidentAssumption
<1> DEFINE n == Len(incidents) + 1
<1>1. /\ EndRoute(e, "routed") /\ step[e] = "route" /\ found[e] = 0
      /\ claims' = claims \union {<<n, "created", 0>>}
      /\ UNCHANGED <<now, armed, at, type, modeAt, sweep>>
    BY DEF Create
<1>2. /\ incidents' \in Seq(Row) /\ Ids' = Ids \union {n} /\ n \in Nat /\ n \notin Ids
      /\ incidents'[n] = NewRow(e) /\ \A j \in Ids : incidents'[j] = incidents[j]
    <2>1. TypeOK
        BY DEF Grouping
    <2>2. Len(incidents) \in Nat
        BY <2>1 DEF TypeOK
    <2>3. n \in Nat /\ n \notin Ids
        BY <2>2 DEF Ids
    <2>4. QED
        BY <2>1, <2>3, CreateRow
<1>3. /\ incidents'[n].events = {e} /\ incidents'[n].count = 1 /\ incidents'[n].last = at[e]
      /\ incidents'[n].severity = Severity(type[e]) /\ incidents'[n].status = "open"
      /\ incidents'[n].level = 0 /\ incidents'[n].created = at[e] /\ incidents'[n].escalated = at[e]
    BY <1>2 DEF NewRow
<1>4. /\ at[e] \in Nat /\ at[e] <= now /\ now \in Nat /\ type[e] \in {"person", "vehicle"}
      /\ step' = [step EXCEPT ![e] = "routed"]
      /\ step \in [Events -> {"none", "enrich", "ignored", "route", "routed", "failed"}]
    BY <1>1, EndRouteTyped DEF Grouping, TypeOK, DatesAreKept
<1> HIDE DEF n
<1>5. LockIsHeld' /\ ReadIsCurrent'
    BY <1>1, EndRouteFrees
<1>6. TypeOK'
    <2>1. claims' \subseteq Nat \X {"created", "escalated"} \X (0..MaxLevel)
        BY <1>1, <1>2 DEF Grouping, TypeOK
    <2>2. QED
        BY <1>1, <1>2, <2>1, EndRouteTyped DEF Grouping, TypeOK, sweep
<1>7. EachInOne'
    <2>1. \A i \in Ids : e \notin incidents[i].events
        BY <1>1 DEF Grouping, EachInOne
    <2>2. \A f \in Events : f # e => step'[f] = step[f]
        BY <1>4
    <2>3. step'[e] = "routed"
        BY <1>4
    <2>4. \A i \in Ids', f \in Events : f \in incidents'[i].events => step'[f] = "routed"
        BY <1>2, <1>3, <2>2, <2>3 DEF Grouping, EachInOne
    <2>5. \A i, j \in Ids', f \in Events :
             f \in incidents'[i].events /\ f \in incidents'[j].events => i = j
        BY <1>2, <1>3, <2>1 DEF Grouping, EachInOne
    <2>6. \A f \in Events : step'[f] = "routed" => \E i \in Ids' : f \in incidents'[i].events
        BY <1>2, <1>3, <2>2 DEF Grouping, EachInOne
    <2>7. QED
        BY <2>4, <2>5, <2>6 DEF EachInOne
<1>8. CountsAreRight'
    <2>1. IsFiniteSet({e}) /\ Cardinality({e}) = 1
        BY FS_Singleton
    <2>2. IsFiniteSet(incidents'[n].events) /\ incidents'[n].count = Cardinality(incidents'[n].events)
        BY <1>3, <2>1
    <2>3. QED
        BY <1>2, <2>2 DEF Grouping, CountsAreRight
<1>9. SeverityIsHighest'
    <2>1. Severity(type[e]) = "high" <=> type[e] = "person"
        BY <1>4 DEF Severity
    <2>2. QED
        BY <1>1, <1>2, <1>3, <2>1 DEF Grouping, SeverityIsHighest
<1>10. ResolvedAreClosed' /\ SeenInThePast'
    BY <1>1, <1>2, <1>3, <1>4 DEF Grouping, ResolvedAreClosed, SeenInThePast
<1>11. DatesAreKept'
    <2>1. \A i \in Ids' :
             /\ incidents'[i].level * EscalateAfter <= incidents'[i].escalated - incidents'[i].created
             /\ incidents'[i].escalated <= now
        BY <1>2, <1>3, <1>4 DEF Grouping, DatesAreKept
    <2>2. \A r \in Replicas : \A d \in due[r] :
             /\ d[1] \in Ids' /\ d[2] \in 0..(MaxLevel - 1)
             /\ (d[2] + 1) * EscalateAfter <= sweepAt[r] - incidents'[d[1]].created
        BY <1>2 DEF Grouping, DatesAreKept
    <2>3. QED
        BY <1>1, <2>1, <2>2 DEF Grouping, DatesAreKept, sweep
<1>12. QED
    BY <1>5, <1>6, <1>7, <1>8, <1>9, <1>10, <1>11 DEF Grouping

\* The event joins the row that its transaction has read.
LEMMA MergeStep ==
    ASSUME Grouping, NEW e \in Events, Merge(e)
    PROVE  Grouping'
<1> USE IncidentAssumption
<1> DEFINE i == found[e]
           old == incidents[i]
           new == incidents'[i]
<1>1. /\ EndRoute(e, "routed") /\ step[e] = "route" /\ i # 0
      /\ claims' \subseteq claims \union {<<i, "escalated", old.level>>}
      /\ UNCHANGED <<now, armed, at, type, modeAt, sweep>>
    BY DEF Merge
<1>2. /\ i \in Ids /\ incidents' \in Seq(Row) /\ Len(incidents') = Len(incidents) /\ Ids' = Ids
      /\ \A j \in Ids : j # i => incidents'[j] = incidents[j]
      /\ new.status = old.status /\ new.closed = old.closed
      /\ new.events = old.events \union {e} /\ new.count = old.count + 1 /\ new.last = at[e]
      /\ new.severity = IF Raises(Severity(type[e]), old.severity) THEN Severity(type[e])
                        ELSE old.severity
      /\ new.created = old.created /\ new.level = old.level /\ new.escalated = old.escalated
    BY MergeRow DEF Grouping
<1>3. old \in Row
    BY <1>2, RowsAreRows DEF Grouping, TypeOK
<1>4. /\ at[e] \in Nat /\ at[e] <= now /\ now \in Nat /\ type[e] \in {"person", "vehicle"}
      /\ step' = [step EXCEPT ![e] = "routed"]
      /\ step \in [Events -> {"none", "enrich", "ignored", "route", "routed", "failed"}]
    <2> HIDE DEF i, old, new
    <2>1. step' = [step EXCEPT ![e] = "routed"]
        BY <1>1, EndRouteTyped DEF Grouping
    <2>2. QED
        BY <2>1 DEF Grouping, TypeOK, DatesAreKept
<1> HIDE DEF i, old, new
<1>5. LockIsHeld' /\ ReadIsCurrent'
    BY <1>1, EndRouteFrees
<1>6. TypeOK'
    <2>1. claims' \subseteq Nat \X {"created", "escalated"} \X (0..MaxLevel)
        <3>1. <<i, "escalated", old.level>> \in Nat \X {"created", "escalated"} \X (0..MaxLevel)
            BY <1>2, <1>3 DEF Row, Ids
        <3>2. QED
            BY <1>1, <3>1 DEF Grouping, TypeOK
    <2>2. QED
        BY <1>1, <1>2, <2>1, EndRouteTyped DEF Grouping, TypeOK, sweep
<1>7. \A j \in Ids : e \notin incidents[j].events
    BY <1>1 DEF Grouping, EachInOne
<1>8. \A j \in Ids : incidents'[j].events = incidents[j].events \union (IF j = i THEN {e} ELSE {})
    BY <1>2 DEF old, new
<1>9. EachInOne'
    <2>1. \A f \in Events : f # e => step'[f] = step[f]
        BY <1>4
    <2>2. step'[e] = "routed"
        BY <1>4
    <2>3. \A j \in Ids', f \in Events : f \in incidents'[j].events => step'[f] = "routed"
        BY <1>2, <1>8, <2>1, <2>2 DEF Grouping, EachInOne
    <2>4. \A j, k \in Ids', f \in Events :
             f \in incidents'[j].events /\ f \in incidents'[k].events => j = k
        BY <1>2, <1>7, <1>8 DEF Grouping, EachInOne
    <2>5. \A f \in Events : step'[f] = "routed" => \E j \in Ids' : f \in incidents'[j].events
        BY <1>2, <1>8, <2>1 DEF Grouping, EachInOne
    <2>6. QED
        BY <2>3, <2>4, <2>5 DEF EachInOne
<1>10. CountsAreRight'
    <2>1. IsFiniteSet(old.events) /\ old.count = Cardinality(old.events) /\ e \notin old.events
        BY <1>2, <1>7 DEF Grouping, CountsAreRight, old
    <2>2. IsFiniteSet(new.events) /\ new.count = Cardinality(new.events)
        BY <1>2, <2>1, FS_AddElement
    <2>3. QED
        BY <1>2, <2>2 DEF Grouping, CountsAreRight, new
<1>11. SeverityIsHighest'
    <2>1. old.severity = "high" <=> \E f \in old.events : type[f] = "person"
        BY <1>2 DEF Grouping, SeverityIsHighest, old
    <2>2. new.severity = "high" <=> \E f \in new.events : type[f] = "person"
        <3>1. old.severity \in {"medium", "high"}
            BY <1>3 DEF Row
        <3>2. new.severity = "high" <=> old.severity = "high" \/ type[e] = "person"
            BY <1>2, <1>4, <3>1 DEF Raises, Severity
        <3>3. QED
            BY <1>2, <2>1, <3>2
    <2>3. QED
        BY <1>1, <1>2, <2>2 DEF Grouping, SeverityIsHighest, new
<1>12. ResolvedAreClosed' /\ SeenInThePast'
    BY <1>1, <1>2, <1>4 DEF Grouping, ResolvedAreClosed, SeenInThePast, old, new
<1>13. DatesAreKept'
    <2>1. SameDates
        BY <1>2 DEF SameDates, old, new
    <2>2. QED
        BY <1>1, <1>2, <2>1, DatesKept, StillNow DEF Grouping
<1>14. QED
    BY <1>5, <1>6, <1>9, <1>10, <1>11, <1>12, <1>13 DEF Grouping

-------------------------------------------------------------------------------
LEMMA GroupingStep ==
    ASSUME Grouping, [Next]_vars
    PROVE  Grouping'
BY ClockStep, HumanStep, BeginSweepStep, EscalateStep, DetectStep, RouteStep, CreateStep, MergeStep,
   RouteFailsStep
DEF Next

\* The invariant: what a routing transaction read is current as long as it
\* holds the lock, and a sweep's late writes are dated by when it read.
LEMMA GroupingInvariant == Spec => []Grouping
<1>1. Init => Grouping
    <2> SUFFICES ASSUME Init PROVE Grouping
        OBVIOUS
    <2> USE IncidentAssumption
    <2>1. Len(incidents) = 0 /\ Ids = {} /\ incidents \in Seq(Row)
        BY DEF Init, Ids
    <2>2. TypeOK
        BY <2>1 DEF Init, TypeOK, Nothing
    <2>3. LockIsHeld /\ ReadIsCurrent /\ EachInOne
        BY <2>1 DEF Init, LockIsHeld, ReadIsCurrent, EachInOne
    <2>4. ResolvedAreClosed /\ CountsAreRight /\ SeverityIsHighest /\ SeenInThePast
        BY <2>1 DEF ResolvedAreClosed, CountsAreRight, SeverityIsHighest, SeenInThePast
    <2>5. DatesAreKept
        BY <2>1 DEF Init, DatesAreKept
    <2>6. QED
        BY <2>2, <2>3, <2>4, <2>5 DEF Grouping
<1>2. Grouping /\ [Next]_vars => Grouping'
    BY GroupingStep
<1>3. QED
    BY <1>1, <1>2, PTL DEF Spec

\* Events, incidents, sweeps and claims keep their types.
THEOREM IncidentsAreTyped == Spec => []TypeOK
<1>1. Grouping => TypeOK
    BY DEF Grouping
<1>2. QED
    BY <1>1, GroupingInvariant, PTL

\* Every event that was routed is in exactly one incident and is counted once,
\* whoever routes, fails or resolves at the same time (route_event).
THEOREM GroupedOnceThroughout == Spec => []GroupedOnce
<1>1. Grouping => GroupedOnce
    <2> SUFFICES ASSUME Grouping PROVE GroupedOnce
        OBVIOUS
    <2>1. ASSUME NEW e \in Events, step[e] = "routed"
          PROVE  Cardinality({i \in Ids : e \in incidents[i].events}) = 1
        <3>1. PICK i \in Ids : {j \in Ids : e \in incidents[j].events} = {i}
            BY <2>1 DEF Grouping, EachInOne
        <3>2. QED
            BY <3>1, FS_Singleton
    <2>2. QED
        BY <2>1 DEF Grouping, CountsAreRight, GroupedOnce
<1>2. QED
    BY <1>1, GroupingInvariant, PTL

\* An incident is as severe as the most severe of its events (route_event).
THEOREM SeverityIsHighestThroughout == Spec => []SeverityIsHighest
<1>1. Grouping => SeverityIsHighest
    BY DEF Grouping
<1>2. QED
    BY <1>1, GroupingInvariant, PTL

\* A level is gained at most once per interval, however many replicas sweep
\* and however late they write (escalate_due_incidents).
THEOREM EscalationIsPaced == Spec => []EscalationPaced
<1>1. Grouping => EscalationPaced
    <2> SUFFICES ASSUME Grouping, NEW i \in Ids
                 PROVE  incidents[i].level * EscalateAfter <= now - incidents[i].created
        BY DEF EscalationPaced
    <2>1. incidents[i] \in Row /\ now \in Nat
        BY RowsAreRows DEF Grouping, TypeOK
    <2>2. incidents[i].level \in Nat /\ incidents[i].escalated \in Nat /\ incidents[i].created \in Nat
        BY <2>1 DEF Row
    <2>3. incidents[i].level * EscalateAfter \in Nat
        BY <2>2, IncidentAssumption
    <2>4. /\ incidents[i].level * EscalateAfter <= incidents[i].escalated - incidents[i].created
          /\ incidents[i].escalated <= now
        BY DEF Grouping, DatesAreKept
    <2>5. QED
        BY <2>1, <2>2, <2>3, <2>4
<1>2. QED
    BY <1>1, GroupingInvariant, PTL

\* No second incident is opened while an earlier one could be joined, whatever
\* happened between the transaction's read and its commit (_open_incident_for
\* under the route lock).
THEOREM NoDuplicates == Spec => NoDuplicateIncident
<1>1. Grouping /\ [Next]_vars =>
        \A e \in Events : Len(incidents') > Len(incidents) /\ step'[e] # step[e] =>
            \A i \in Ids : incidents[i].closed \/ at[e] - incidents[i].last > Window
    <2> SUFFICES ASSUME Grouping, [Next]_vars, Len(incidents') > Len(incidents),
                        NEW e \in Events, step'[e] # step[e]
                 PROVE  \A i \in Ids : incidents[i].closed \/ at[e] - incidents[i].last > Window
        OBVIOUS
    <2>1. Len(incidents) \in Nat /\ incidents \in Seq(Row)
        BY DEF Grouping, TypeOK
    <2>2. PICK f \in Events : Create(f)
        <3>1. \A f \in Events : Merge(f) => Len(incidents') = Len(incidents)
            BY MergeRow DEF Grouping
        <3>2. \A i \in Ids : Acknowledge(i) \/ Resolve(i) => Len(incidents') = Len(incidents)
            BY <2>1, AcknowledgeRow, ResolveRow DEF Grouping, SameGroups
        <3>3. \A r \in Replicas : Escalate(r) => Len(incidents') = Len(incidents)
            BY EscalateRow DEF Grouping, SameGroups, Escalate
        <3>4. Len(incidents') # Len(incidents)
            BY <2>1
        <3>5. incidents' # incidents
            BY <3>4
        <3>6. QED
            BY <3>1, <3>2, <3>3, <3>4, <3>5
            DEF Next, vars, Tick, SetMode, Detect, Ignore, Route, RouteFails, BeginSweep
    <2>3. f = e /\ step[f] = "route" /\ found[f] = 0
        BY <2>2 DEF Create, EndRoute, Grouping, TypeOK
    <2>4. QED
        BY <2>3 DEF Grouping, ReadIsCurrent
<1>2. QED
    BY <1>1, GroupingInvariant, PTL DEF Spec, NoDuplicateIncident
================================================================================
