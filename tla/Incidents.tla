------------------------------- MODULE Incidents -------------------------------
(***************************************************************************)
(* Grouping detections into incidents, for one camera, zone and kind:      *)
(* route_event, _open_incident_for, the route lock, acknowledge, resolve   *)
(* and escalate_due_incidents of app/services/incidents.py, called from    *)
(* create_and_broadcast_event (app/services/events.py) and poll_once, with *)
(* the notification claims of app/services/notifications.                  *)
(*                                                                         *)
(* Events are routed concurrently, by one process or by several, each in   *)
(* a session of its own. A session writes back the columns it changed, from*)
(* the values it read; the columns of one row are therefore kept apart.    *)
(* Left out: what decides, besides the arming mode, whether an event may   *)
(* raise an incident (zone switch, type, priority); AI summaries; and the  *)
(* delivery of a notification once it is claimed.                          *)
(***************************************************************************)
EXTENDS Integers, Sequences, FiniteSets

CONSTANTS
    Events,        \* detections of a person or a vehicle
    Replicas,      \* API replicas: each runs the escalation sweep
    Free,          \* "route lock free"
    Window,        \* incident_merge_window_seconds, in ticks
    EscalateAfter, \* incident_escalation_seconds, in ticks
    MaxLevel,      \* incident_max_escalation_level
    MaxTime        \* bound: the clock stops here

ASSUME IncidentAssumption ==
    /\ Free \notin Events
    /\ Window \in Nat /\ EscalateAfter \in Nat \ {0}
    /\ MaxLevel \in Nat /\ MaxTime \in Nat

VARIABLES
    now, armed,  \* the clock; whether the mode makes the zone alert-worthy
    step,        \* step[e]: how far create_and_broadcast_event has come
    at, type,    \* the event's start_time and final type
    modeAt,      \* mode_at_detection: armed or not
    found,       \* found[e]: incident read under the lock, 0 for none
    read,        \* read[e]: its event_ids, event_count and severity as read
    lock,        \* the event whose routing transaction has the route lock
    incidents,   \* the incident rows, in order of creation
    sweepAt,     \* sweepAt[r]: `now` of r's running sweep
    due,         \* due[r]: <<incident, level read>> still to be escalated
    claims       \* notification_deliveries: the dedupe keys claimed so far

event   == <<step, at, type, modeAt, found, read>>
sweep   == <<sweepAt, due>>
vars    == <<now, armed, event, lock, incidents, sweep, claims>>

Ids        == 1..Len(incidents)
Severity(t) == IF t = "person" THEN "high" ELSE "medium"
Raises(s, old) == s = "high" /\ old = "medium"
Nothing == [events |-> {}, count |-> 0, severity |-> "medium"]

Init ==
    /\ now = 0 /\ armed \in BOOLEAN
    /\ step = [e \in Events |-> "none"]
    /\ at = [e \in Events |-> 0]
    /\ type = [e \in Events |-> "vehicle"]
    /\ modeAt = [e \in Events |-> FALSE]
    /\ found = [e \in Events |-> 0]
    /\ read = [e \in Events |-> Nothing]
    /\ lock = Free
    /\ incidents = <<>>
    /\ sweepAt = [r \in Replicas |-> 0]
    /\ due = [r \in Replicas |-> {}]
    /\ claims = {}

\* --- create_and_broadcast_event ------------------------------------------

\* Persist the event and take the arming mode; enrichment may take long.
Detect(e) ==
    /\ step[e] = "none"
    /\ step' = [step EXCEPT ![e] = "enrich"]
    /\ at' = [at EXCEPT ![e] = now]
    /\ modeAt' = [modeAt EXCEPT ![e] = armed]
    /\ \E t \in {"person", "vehicle"} : type' = [type EXCEPT ![e] = t]
    /\ UNCHANGED <<now, armed, found, read, lock, incidents, sweep, claims>>

Ignore(e) ==
    /\ step[e] = "enrich" /\ ~modeAt[e]
    /\ step' = [step EXCEPT ![e] = "ignored"]
    /\ UNCHANGED <<now, armed, at, type, modeAt, found, read, lock, incidents, sweep, claims>>

\* _open_incident_for: the unresolved incident seen last, if that was within
\* the merge window of the event.
OnlyOpen   == {i \in Ids : incidents[i].status = "open"}  \* mutant: not once acknowledged
Unresolved == {i \in Ids : incidents[i].status # "resolved"}
SeenLast   == {i \in Unresolved : \A j \in Unresolved : incidents[j].last <= incidents[i].last}
Mergeable(t) == {i \in SeenLast : t - incidents[i].last <= Window}

\* Mutant: the check is made outside the route lock.
RouteUnlocked(e) ==
    /\ step[e] = "enrich" /\ modeAt[e]
    /\ step' = [step EXCEPT ![e] = "route"]
    /\ \E i \in IF Mergeable(at[e]) = {} THEN {0} ELSE Mergeable(at[e]) :
         /\ found' = [found EXCEPT ![e] = i]
         /\ read' = [read EXCEPT ![e] =
                       IF i = 0 THEN Nothing
                       ELSE [events |-> incidents[i].events, count |-> incidents[i].count,
                             severity |-> incidents[i].severity]]
    /\ UNCHANGED <<now, armed, at, type, modeAt, lock, incidents, sweep, claims>>

Route(e) ==
    /\ step[e] = "enrich" /\ modeAt[e] /\ lock = Free
    /\ step' = [step EXCEPT ![e] = "route"]
    /\ lock' = e
    /\ \E i \in IF Mergeable(at[e]) = {} THEN {0} ELSE Mergeable(at[e]) :
         /\ found' = [found EXCEPT ![e] = i]
         /\ read' = [read EXCEPT ![e] =
                       IF i = 0 THEN Nothing
                       ELSE [events |-> incidents[i].events, count |-> incidents[i].count,
                             severity |-> incidents[i].severity]]
    /\ UNCHANGED <<now, armed, at, type, modeAt, incidents, sweep, claims>>

EndRoute(e, how) ==
    /\ step' = [step EXCEPT ![e] = how]
    /\ found' = [found EXCEPT ![e] = 0]
    /\ read' = [read EXCEPT ![e] = Nothing]
    /\ lock' = IF lock = e THEN Free ELSE lock

Create(e) ==
    /\ step[e] = "route" /\ found[e] = 0
    /\ incidents' = Append(incidents,
         [status |-> "open", closed |-> FALSE, events |-> {e}, count |-> 1,
          last |-> at[e], created |-> at[e], severity |-> Severity(type[e]),
          level |-> 0, escalated |-> at[e]])
    /\ claims' = claims \union {<<Len(incidents) + 1, "created", 0>>}
    /\ EndRoute(e, "routed")
    /\ UNCHANGED <<now, armed, at, type, modeAt, sweep>>

\* Mutant: the severity follows the last event.
MergeLastWins(e) ==
    /\ step[e] = "route" /\ found[e] # 0
    /\ incidents' = [incidents EXCEPT
         ![found[e]].events = read[e].events \union {e},
         ![found[e]].count = read[e].count + 1,
         ![found[e]].last = at[e],
         ![found[e]].severity = Severity(type[e])]
    /\ EndRoute(e, "routed")
    /\ UNCHANGED <<now, armed, at, type, modeAt, sweep, claims>>

\* Only a raised severity is worth another alert.
Merge(e) ==
    LET i      == found[e]
        raised == Raises(Severity(type[e]), read[e].severity)
    IN  /\ step[e] = "route" /\ i # 0
        /\ incidents' = [incidents EXCEPT
             ![i].events = read[e].events \union {e},
             ![i].count = read[e].count + 1,
             ![i].last = at[e],
             ![i].severity = IF raised THEN Severity(type[e]) ELSE @]
        /\ claims' = IF raised THEN claims \union {<<i, "escalated", incidents[i].level>>}
                               ELSE claims
        /\ EndRoute(e, "routed")
        /\ UNCHANGED <<now, armed, at, type, modeAt, sweep>>

\* The database fails: rolled back, logged, and not tried again.
RouteFails(e) ==
    /\ step[e] = "route"
    /\ EndRoute(e, "failed")
    /\ UNCHANGED <<now, armed, at, type, modeAt, incidents, sweep, claims>>

\* --- the household -------------------------------------------------------

Acknowledge(i) ==
    /\ incidents' = [incidents EXCEPT ![i].status = "acknowledged"]
    /\ UNCHANGED <<now, armed, event, lock, sweep, claims>>

\* "closed" is resolved_at, which nothing clears.
Resolve(i) ==
    /\ incidents' = [incidents EXCEPT ![i].status = "resolved", ![i].closed = TRUE]
    /\ UNCHANGED <<now, armed, event, lock, sweep, claims>>

SetMode ==
    /\ armed' = ~armed
    /\ UNCHANGED <<now, event, lock, incidents, sweep, claims>>

\* --- escalate_due_incidents ----------------------------------------------

\* One query; which of its rows are due is decided by what it returned.
BeginSweep(r) ==
    /\ due[r] = {}
    /\ sweepAt' = [sweepAt EXCEPT ![r] = now]
    /\ due' = [due EXCEPT ![r] =
         {<<i, incidents[i].level>> : i \in
            {j \in Ids : /\ incidents[j].status = "open"
                         /\ incidents[j].level < MaxLevel
                         /\ now - incidents[j].escalated >= EscalateAfter}}]
    /\ due'[r] # {}
    /\ UNCHANGED <<now, armed, event, lock, incidents, claims>>

\* Mutant: last_escalated_at is not updated.
EscalateUndated(r) ==
    \E d \in due[r] :
      /\ incidents' = [incidents EXCEPT ![d[1]].level = d[2] + 1]
      /\ claims' = claims \union {<<d[1], "escalated", d[2] + 1>>}
      /\ due' = [due EXCEPT ![r] = @ \ {d}]
      /\ UNCHANGED <<now, armed, event, lock, sweepAt>>

\* Mutant: the level is raised in place, not from the value read.
EscalateInPlace(r) ==
    \E d \in due[r] :
      /\ incidents' = [incidents EXCEPT ![d[1]].level = @ + 1,
                                        ![d[1]].escalated = sweepAt[r]]
      /\ claims' = claims \union {<<d[1], "escalated", d[2] + 1>>}
      /\ due' = [due EXCEPT ![r] = @ \ {d}]
      /\ UNCHANGED <<now, armed, event, lock, sweepAt>>

\* One row, from the level the query returned, in a commit of its own.
Escalate(r) ==
    \E d \in due[r] :
      /\ incidents' = [incidents EXCEPT ![d[1]].level = d[2] + 1,
                                        ![d[1]].escalated = sweepAt[r]]
      /\ claims' = claims \union {<<d[1], "escalated", d[2] + 1>>}
      /\ due' = [due EXCEPT ![r] = @ \ {d}]
      /\ UNCHANGED <<now, armed, event, lock, sweepAt>>

Tick ==
    /\ now < MaxTime
    /\ now' = now + 1
    /\ UNCHANGED <<armed, event, lock, incidents, sweep, claims>>

Next ==
    \/ Tick \/ SetMode
    \/ \E e \in Events : \/ Detect(e) \/ Ignore(e) \/ Route(e)
                         \/ Create(e) \/ Merge(e) \/ RouteFails(e)
    \/ \E i \in Ids : Acknowledge(i) \/ Resolve(i)
    \/ \E r \in Replicas : BeginSweep(r) \/ Escalate(r)

Spec == Init /\ [][Next]_vars

-------------------------------------------------------------------------------
Row == [status : {"open", "acknowledged", "resolved"}, closed : BOOLEAN,
        events : SUBSET Events, count : Nat, last : Nat, created : Nat,
        severity : {"medium", "high"}, level : 0..MaxLevel, escalated : Nat]

TypeOK ==
    /\ now \in 0..MaxTime /\ armed \in BOOLEAN
    /\ step \in [Events -> {"none", "enrich", "ignored", "route", "routed", "failed"}]
    /\ at \in [Events -> Nat]
    /\ type \in [Events -> {"person", "vehicle"}]
    /\ modeAt \in [Events -> BOOLEAN]
    /\ found \in [Events -> Nat]
    /\ read \in [Events -> [events : SUBSET Events, count : Nat,
                            severity : {"medium", "high"}]]
    /\ lock \in Events \union {Free}
    /\ incidents \in Seq(Row)
    /\ sweepAt \in [Replicas -> Nat]
    /\ due \in [Replicas -> SUBSET (Nat \X Nat)]
    /\ claims \subseteq Nat \X {"created", "escalated"} \X (0..MaxLevel)

\* Every event that was routed is in exactly one incident and counted once,
\* however many are routed at the same time: no merge is lost (route_event).
GroupedOnce ==
    /\ \A i \in Ids : incidents[i].count = Cardinality(incidents[i].events)
    /\ \A e \in Events : step[e] = "routed" =>
         Cardinality({i \in Ids : e \in incidents[i].events}) = 1

\* A second incident is only opened when each earlier one was resolved by a
\* human or was last seen more than the merge window before the event.
NoDuplicateIncident ==
    [][\A e \in Events : Len(incidents') > Len(incidents) /\ step'[e] # step[e] =>
         \A i \in Ids : incidents[i].closed \/ at[e] - incidents[i].last > Window]_vars

\* An incident is as severe as the most severe of its events, in whatever
\* order they were merged.
SeverityIsHighest ==
    \A i \in Ids :
        incidents[i].severity = "high" <=> \E e \in incidents[i].events : type[e] = "person"

\* However many replicas sweep, and however late their writes, a level is
\* gained at most once per incident_escalation_seconds.
EscalationPaced ==
    \A i \in Ids : incidents[i].level * EscalateAfter <= now - incidents[i].created

\* An incident whose severity was raised alerts once more (route_event: "the
\* only kind of update worth re-alerting a human about").
SeverityRaiseAlerts ==
    [][\A i \in Ids : incidents'[i].severity # incidents[i].severity =>
         \E c \in claims' \ claims : c[1] = i]_vars
================================================================================
