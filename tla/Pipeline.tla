-------------------------------- MODULE Pipeline --------------------------------
(***************************************************************************)
(* What happens to one event from detection to broadcast                   *)
(* (services/events.py, create_and_broadcast_event, and the stages it      *)
(* calls in ai_pipeline.py, signals.py, scene_dedup.py and event_clips.py),*)
(* for several events of one unnamed person at once.  Every stage commits  *)
(* by itself and may fail; _recover then falls back on the committed row.  *)
(*                                                                         *)
(* Left out: how incidents group (Incidents), what becomes of clips and of *)
(* photos that arrive later (Clips), identities (Persons).                 *)
(***************************************************************************)
EXTENDS Integers, FiniteSets

CONSTANTS
    PlEvents,
    PlNone,
    PlQueue,       \* MAX_PENDING: photos looked for at a time
    PlMishaps,     \* bound: stages that fail
    PlModes        \* bound: changes of the arming mode

ASSUME PipelineAssumption == PlNone \notin PlEvents /\ {PlQueue, PlMishaps, PlModes} \subseteq Nat

VARIABLES
    stage,      \* the stage an event is at
    row,        \* its row, as committed
    told,       \* its latest state on the event bus
    armedNow,   \* whether the arming mode makes it alert-worthy
    armedThen,  \* mode_at_detection
    inForce,    \* history: what the mode was before the analysis began
    incidentOf, \* the events that raised or joined an incident, in order of routing
    reader,     \* the capture of the event's video: who has it
    claimed,    \* the claim on alerts about this person
    unclaimed,  \* history: events whose claim failed, and that alert all the same
    sought,     \* events whose photo is looked for
    plMishaps, plModes

plVars == <<stage, row, told, armedNow, armedThen, inForce, incidentOf, reader, claimed, unclaimed,
            sought, plMishaps, plModes>>

NewRow == [type |-> "motion", level |-> "none", priority |-> "source", photo |-> "pending",
           clip |-> "none"]
Untold == [NewRow EXCEPT !.photo = "untold"]
Goes(e, from, to) == stage[e] = from /\ stage' = [stage EXCEPT ![e] = to]
Fails == plMishaps < PlMishaps /\ plMishaps' = plMishaps + 1
Tell(e, r) == told' = [told EXCEPT ![e] = r]

PlInit ==
    /\ stage = [e \in PlEvents |-> "new"]
    /\ row = [e \in PlEvents |-> NewRow] /\ told = [e \in PlEvents |-> Untold]
    /\ armedNow \in BOOLEAN
    /\ armedThen = [e \in PlEvents |-> FALSE] /\ inForce = [e \in PlEvents |-> {}]
    /\ incidentOf = {} /\ reader = [e \in PlEvents |-> "none"]
    /\ claimed = PlNone /\ unclaimed = {} /\ sought = {} /\ plMishaps = 0 /\ plModes = 0

\* persist_event, with the capture of its video started at once when the camera has a
\* buffered one (incident_clips.seed and capture).
Persist(e) ==
    /\ Goes(e, "new", "persisted")
    /\ reader' \in {reader, [reader EXCEPT ![e] = "running"]}
    /\ inForce' = [inForce EXCEPT ![e] = {armedNow}]
    /\ UNCHANGED <<row, told, armedNow, armedThen, incidentOf, claimed, unclaimed, sought,
                   plMishaps, plModes>>

\* get_mode, before the analysis.
TakeMode(e) ==
    /\ Goes(e, "persisted", "analyse")
    /\ armedThen' = [armedThen EXCEPT ![e] = armedNow]
    /\ UNCHANGED <<row, told, armedNow, inForce, incidentOf, reader, claimed, unclaimed, sought,
                   plMishaps, plModes>>

SetsMode ==
    /\ plModes < PlModes /\ plModes' = plModes + 1 /\ armedNow' = ~armedNow
    /\ inForce' = [e \in PlEvents |->
          IF stage[e] = "persisted" THEN inForce[e] \union {~armedNow} ELSE inForce[e]]
    /\ UNCHANGED <<stage, row, told, armedThen, incidentOf, reader, claimed, unclaimed, sought,
                   plMishaps>>

\* What the detector and the zones make of the event, and the picture of it: of the
\* subject, or as it came (store_fallback), or none.
Classified(r) == {[r EXCEPT !.type = type] : type \in {"motion", "person"}}
Photographed(r) == {r, [r EXCEPT !.photo = "captured"]}

\* enrich_event and correlate_event: the event gets its final type and, with luck, its
\* photo, in one commit; a failure loses both.
Enrich(e) ==
    /\ Goes(e, "analyse", "signals")
    /\ \/ UNCHANGED plMishaps
          /\ \E r \in Classified(row[e]) : \E s \in Photographed(r) : row' = [row EXCEPT ![e] = s]
       \/ Fails /\ UNCHANGED row
    /\ UNCHANGED <<told, armedNow, armedThen, inForce, incidentOf, reader, claimed, unclaimed,
                   sought, plModes>>

\* apply_signals: tags, level and priority, from the final type.
ApplySignals(e) ==
    /\ \/ UNCHANGED plMishaps
          /\ \E level \in IF row[e].type = "person" THEN {"none", "suspicious"} ELSE {"none"} :
                /\ row' = [row EXCEPT ![e].level = level,
                              ![e].priority = IF level = "none" THEN "normal" ELSE "high"]
                /\ Goes(e, "signals", IF level = "none" THEN "photo" ELSE "claim")
       \/ Fails /\ UNCHANGED row /\ Goes(e, "signals", "photo")
    /\ UNCHANGED <<told, armedNow, armedThen, inForce, incidentOf, reader, claimed, unclaimed,
                   sought, plModes>>

\* scene_dedup.claim: an update that matches no row, a read that finds none, and then
\* the insert, which only one can win; a repeated appearance loses its alert.
ClaimFree(e) ==
    /\ claimed = PlNone /\ Goes(e, "claim", "insert")
    /\ UNCHANGED <<row, told, armedNow, armedThen, inForce, incidentOf, reader, claimed,
                   unclaimed, sought, plMishaps, plModes>>
Demoted(r) == [r EXCEPT !.level = "none", !.priority = "low"]
InsertsClaim(e) ==
    IF claimed = PlNone THEN claimed' = e /\ UNCHANGED row
    ELSE row' = [row EXCEPT ![e] = Demoted(@)] /\ UNCHANGED claimed
Claim(e) ==
    /\ \/ Goes(e, "insert", "photo") /\ InsertsClaim(e) /\ UNCHANGED plMishaps
       \/ /\ claimed # PlNone /\ Goes(e, "claim", "photo") /\ UNCHANGED plMishaps
          /\ row' = [row EXCEPT ![e] = Demoted(@)] /\ UNCHANGED claimed
       \/ /\ Fails /\ (Goes(e, "claim", "photo") \/ Goes(e, "insert", "photo"))
          /\ UNCHANGED <<row, claimed>>
    /\ unclaimed' = IF plMishaps' = plMishaps THEN unclaimed ELSE unclaimed \union {e}
    /\ UNCHANGED <<told, armedNow, armedThen, inForce, incidentOf, reader, sought, plModes>>

\* Without a photo, another try with the frame that caused the event; then the broadcast
\* of the row, and last the search for a photo that is still missing
\* (event_photos.schedule).
StoreFallback(r) == {r, [r EXCEPT !.photo = "captured"]}
Broadcast(e) ==
    /\ Goes(e, "photo", "schedule")
    /\ \E r \in StoreFallback(row[e]) : row' = [row EXCEPT ![e] = r]
    /\ Tell(e, row'[e])
    /\ UNCHANGED <<armedNow, armedThen, inForce, incidentOf, reader, claimed, unclaimed, sought,
                   plMishaps, plModes>>
SchedulesQuietly(e) ==  \* mutant: a full queue is recorded and nobody told
    /\ IF row[e].photo = "pending" /\ Cardinality(sought) >= PlQueue
       THEN row' = [row EXCEPT ![e].photo = "failed"] /\ UNCHANGED <<told, sought>>
       ELSE sought' = (IF row[e].photo = "pending" THEN sought \union {e} ELSE sought) /\ UNCHANGED <<row, told>>
Schedules(e) ==
    IF row[e].photo = "pending" /\ Cardinality(sought) >= PlQueue
    THEN row' = [row EXCEPT ![e].photo = "failed"] /\ Tell(e, row'[e]) /\ UNCHANGED sought
    ELSE sought' = (IF row[e].photo = "pending" THEN sought \union {e} ELSE sought)
         /\ UNCHANGED <<row, told>>
Schedule(e) ==
    /\ Goes(e, "schedule", "route") /\ Schedules(e)
    /\ UNCHANGED <<armedNow, armedThen, inForce, incidentOf, reader, claimed, unclaimed,
                   plMishaps, plModes>>

\* route_event with the mode of the detection; the first event of an incident hands it
\* its video (incident_clips.start) and is linked to it (link_incident).
AlertWorthy(e) == armedThen[e]
Route1(e) ==
    LET raises == row[e].type = "person" /\ AlertWorthy(e) IN
    /\ \/ /\ raises /\ incidentOf = {} /\ reader[e] = "running"
          /\ Goes(e, "route", "over") /\ reader' = [reader EXCEPT ![e] = "incident"]
          /\ row' = [row EXCEPT ![e].clip = "pending"] /\ Tell(e, row'[e])
       \/ /\ ~(raises /\ incidentOf = {} /\ reader[e] = "running")
          /\ Goes(e, "route", "clip") /\ UNCHANGED <<reader, row, told>>
    /\ incidentOf' = IF raises THEN incidentOf \union {e} ELSE incidentOf
    /\ UNCHANGED plMishaps
RouteFails1(e) ==
    /\ Fails /\ Goes(e, "route", "clip") /\ UNCHANGED <<reader, row, told, incidentOf>>
RouteEvent(e) ==
    /\ Route1(e) \/ RouteFails1(e)
    /\ UNCHANGED <<armedNow, armedThen, inForce, claimed, unclaimed, sought, plModes>>

\* attach: the event's own capture, one that another event shares, a fetch from the
\* camera, or none; what is left is discarded at the end.
Discarded(r) == IF r = "running" THEN "dropped" ELSE r
Attach(e) ==
    /\ Goes(e, "clip", "over")
    /\ \/ /\ \E clip \in {"pending", "unavailable"} : row' = [row EXCEPT ![e].clip = clip]
          /\ Tell(e, row'[e]) /\ UNCHANGED plMishaps
          /\ reader' \in {[reader EXCEPT ![e] = Discarded(@)],
                          [reader EXCEPT ![e] = IF @ = "running" THEN "event" ELSE @]}
       \/ (Fails \/ UNCHANGED plMishaps) /\ UNCHANGED <<row, told>>
          /\ reader' = [reader EXCEPT ![e] = Discarded(@)]
    /\ UNCHANGED <<armedNow, armedThen, inForce, incidentOf, claimed, unclaimed, sought, plModes>>

PlNext ==
    \/ SetsMode
    \/ \E e \in PlEvents :
          \/ Persist(e) \/ TakeMode(e) \/ Enrich(e) \/ ApplySignals(e) \/ ClaimFree(e) \/ Claim(e)
          \/ Broadcast(e) \/ Schedule(e) \/ RouteEvent(e) \/ Attach(e)

PlSpec == PlInit /\ [][PlNext]_plVars

\* --- properties ------------------------------------------------------------------------

\* Every variable has its type.
PipelineTypeOK ==
    /\ \A e \in PlEvents :
          /\ row[e].type \in {"motion", "person"} /\ row[e].level \in {"none", "suspicious"}
          /\ row[e].priority \in {"source", "normal", "high", "low"}
          /\ row[e].photo \in {"pending", "captured", "failed"}
          /\ reader[e] \in {"none", "running", "incident", "event", "dropped"}
    /\ claimed \in PlEvents \union {PlNone} /\ sought \subseteq PlEvents

\* When the pipeline is through with an event, the dashboard was last told what the row
\* says, whichever stages failed, and no capture of its video is left to nobody.
LeftInOrder == \A e \in PlEvents : stage[e] = "over" => told[e] = row[e] /\ reader[e] # "running"

\* An event raises an incident by a mode that was in force before its analysis began,
\* however long the analysis takes and whoever disarms meanwhile.
ModeOfDetection == \A e \in incidentOf : TRUE \in inForce[e]

\* One appearance alerts once, though its events are analysed side by side and
\* whichever other stage fails: an event that alerts as well is one whose own claim
\* failed, since "alert dedup cannot discard an event".
OneAlertPerFace ==
    Cardinality({e \in PlEvents : told[e].level # "none"} \ unclaimed) <= 1

\* What the stages of the pipeline owe each other (create_and_broadcast_event).
PipelineDelivers == LeftInOrder /\ ModeOfDetection /\ OneAlertPerFace
================================================================================
