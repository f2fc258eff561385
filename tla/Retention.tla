------------------------------- MODULE Retention -------------------------------
(***************************************************************************)
(* The retention purge (app/services/retention.py): passes of several      *)
(* replicas run over the same rows, category by category and batch by      *)
(* batch, while people hold events and clips and work on incidents.        *)
(* A batch is chosen in one statement and checked again under row locks in *)
(* the transaction that deletes.                                           *)
(*                                                                         *)
(* How old a row is does not change while the passes run: it is young, past *)
(* the cutoff of its imagery and its analyses ("media"), or past that of   *)
(* the row itself too ("old").  A dry run changes nothing and is left out, *)
(* and so is the audit log, which nothing protects.                        *)
(***************************************************************************)
EXTENDS Integers, FiniteSets, Sequences

CONSTANTS
    RtPasses,        \* the replicas
    RtIncidents,
    RtEvents,        \* the events' ids, by start time: 1 is the oldest
    RtPins,          \* event_ids of each incident
    RtBatch,         \* retention_batch_size
    RtMaxBatches,    \* retention_max_batches_per_run
    RtRuns,          \* bound: runs of the purge
    RtEdits          \* bound: what people do

ASSUME RetentionAssumption ==
    /\ RtEvents \subseteq Nat /\ IsFiniteSet(RtEvents)
    /\ RtPins \in [RtIncidents -> SUBSET RtEvents]
    /\ {RtBatch, RtMaxBatches} \subseteq Nat \ {0} /\ {RtRuns, RtEdits} \subseteq Nat

VARIABLES
    incident,      \* the status, "deleted" when the row is gone
    clip,          \* the incident's clip: "none", "ready" or "expired"
    clipHold,      \* clip_hold
    agedIncident,  \* how old each incident is
    event,         \* what each event still has: {} once it is deleted
    eventHold,     \* retention_hold
    agedEvent,     \* how old each event is
    purge,         \* where each pass is
    began,         \* history: what incidents pinned, and rtEdits, when it began
    rtRuns, rtEdits

retentionVars == <<incident, clip, clipHold, agedIncident, event, eventHold, agedEvent, purge,
                   began, rtRuns, rtEdits>>

\* "row" is the event itself; the rest are its children. "photo" stands for the
\* evidence too, "analysis" for the embedding that is cleared the same way.
Parts  == {"row", "photo", "analysis"}
Ages   == {"young", "media", "old"}
Phases == <<"incidents", "protect", "clips", "media", "analyses", "events">>
Resting == [phase |-> 0, ids |-> {}, left |-> 0, protected |-> {}]
PhaseOf(p) == IF purge[p].phase = 0 THEN "rest" ELSE Phases[purge[p].phase]

\* The n oldest of a set of events; of incidents, any n.
OldestOf(S, n) == {e \in S : Cardinality({f \in S : f < e}) < n}
Batches(S, n) ==
    IF Cardinality(S) <= n THEN {S} ELSE {B \in SUBSET S : Cardinality(B) = n}

\* --- what a pass selects ----------------------------------------------------

Deletable(i, age) ==
    incident[i] = "resolved" /\ ~clipHold[i] /\ (agedIncident[i] = "old" \/ agedIncident[i] = age)
Pinned == UNION {RtPins[i] : i \in {j \in RtIncidents : incident[j] # "deleted"}}
Unheld(e) == "row" \in event[e] /\ ~eventHold[e]

AgedFor(part) == {e \in RtEvents : /\ part \in event[e] /\ Unheld(e)
                                   /\ agedEvent[e] = "old" \/ part # "row"
                                   /\ agedEvent[e] # "young"}

\* _purgeable_event_ids asks for as many more rows as are protected.
AndMore(p) == RtBatch + Cardinality(purge[p].protected)
PurgeableEvents(p) ==
    OldestOf(OldestOf(AgedFor("row"), AndMore(p)) \ purge[p].protected, RtBatch)

SelectsFrom(p) ==
    CASE PhaseOf(p) = "incidents" -> Batches({i \in RtIncidents : Deletable(i, "old")}, RtBatch)
      [] PhaseOf(p) = "clips" ->
            Batches({i \in RtIncidents : clip[i] = "ready" /\ Deletable(i, "media")}, RtBatch)
      [] PhaseOf(p) = "media"    -> Batches(AgedFor("photo") \ purge[p].protected, RtBatch)
      [] PhaseOf(p) = "analyses" -> Batches(AgedFor("analysis") \ purge[p].protected, RtBatch)
      [] PhaseOf(p) = "events"   -> {PurgeableEvents(p)}

\* --- a pass (run) -----------------------------------------------------------

RunPurge(p) ==
    /\ purge[p].phase = 0 /\ rtRuns < RtRuns /\ rtRuns' = rtRuns + 1
    /\ purge' = [purge EXCEPT ![p] = [Resting EXCEPT !.phase = 1, !.left = RtMaxBatches]]
    /\ began' = [began EXCEPT ![p] = [pinned |-> Pinned, edits |-> rtEdits]]
    /\ UNCHANGED <<incident, clip, clipHold, agedIncident, event, eventHold, agedEvent, rtEdits>>

NextPhase(p) ==
    IF purge[p].phase = Len(Phases) THEN Resting
    ELSE [purge[p] EXCEPT !.phase = @ + 1, !.ids = {}, !.left = RtMaxBatches]

\* _incident_event_ids
Protect(p) ==
    /\ PhaseOf(p) = "protect"
    /\ purge' = [purge EXCEPT ![p] = [NextPhase(p) EXCEPT !.protected = Pinned]]
    /\ UNCHANGED <<incident, clip, clipHold, agedIncident, event, eventHold, agedEvent, began,
                   rtRuns, rtEdits>>

Select(p) ==
    /\ PhaseOf(p) \notin {"rest", "protect"} /\ purge[p].ids = {}
    /\ \E B \in SelectsFrom(p) :
          purge' = [purge EXCEPT ![p] = IF B = {} THEN NextPhase(p) ELSE [purge[p] EXCEPT !.ids = B]]
    /\ UNCHANGED <<incident, clip, clipHold, agedIncident, event, eventHold, agedEvent, began,
                   rtRuns, rtEdits>>

\* The rows of the batch that still qualify, under their locks.
AllOf(ids) == ids  \* mutant: a hold placed since is missed
StillUnheld(ids) == {e \in ids : Unheld(e)}
StillDeletable(ids, age) == {i \in ids : Deletable(i, age)}

DeleteBatch(p) ==
    LET ids  == purge[p].ids
        lost == CASE PhaseOf(p) = "media" -> {"photo"}
                  [] PhaseOf(p) = "analyses" -> {"analysis"}
                  [] OTHER -> Parts
    IN
    /\ ids # {}
    /\ IF PhaseOf(p) \in {"incidents", "clips"}
       THEN LET gone == StillDeletable(ids, IF PhaseOf(p) = "clips" THEN "media" ELSE "old") IN
            /\ clip' = [i \in RtIncidents |->
                          IF i \in gone
                          THEN IF PhaseOf(p) = "clips" THEN "expired" ELSE "none" ELSE clip[i]]
            /\ incident' = IF PhaseOf(p) = "clips" THEN incident
                           ELSE [i \in RtIncidents |-> IF i \in gone THEN "deleted" ELSE incident[i]]
            /\ UNCHANGED event
       ELSE /\ event' = [e \in RtEvents |-> IF e \in StillUnheld(ids) THEN event[e] \ lost ELSE event[e]]
            /\ UNCHANGED <<incident, clip>>
    /\ purge' = [purge EXCEPT ![p] =
                    IF Cardinality(ids) < RtBatch \/ purge[p].left = 1 THEN NextPhase(p)
                    ELSE [purge[p] EXCEPT !.ids = {}, !.left = @ - 1]]
    /\ UNCHANGED <<clipHold, agedIncident, eventHold, agedEvent, began, rtRuns, rtEdits>>

\* A statement fails, or the process dies: what was not committed is undone.
PurgeFails(p) ==
    /\ PhaseOf(p) # "rest" /\ rtEdits < RtEdits /\ rtEdits' = rtEdits + 1
    /\ purge' = [purge EXCEPT ![p] = Resting]
    /\ UNCHANGED <<incident, clip, clipHold, agedIncident, event, eventHold, agedEvent, began, rtRuns>>

\* --- people -----------------------------------------------------------------

RtEdit == rtEdits < RtEdits /\ rtEdits' = rtEdits + 1

\* set_event_retention_hold
HoldEvent(e, hold) ==
    /\ RtEdit /\ "row" \in event[e] /\ eventHold[e] # hold
    /\ eventHold' = [eventHold EXCEPT ![e] = hold]
    /\ UNCHANGED <<incident, clip, clipHold, agedIncident, event, agedEvent, purge, began,
                   rtRuns>>

\* hold_incident_clip
HoldClip(i, hold) ==
    /\ RtEdit /\ incident[i] # "deleted" /\ clip[i] = "ready" /\ clipHold[i] # hold
    /\ clipHold' = [clipHold EXCEPT ![i] = hold]
    /\ UNCHANGED <<incident, clip, agedIncident, event, eventHold, agedEvent, purge, began,
                   rtRuns>>

\* acknowledge, which reopens a resolved incident, and resolve
WorkOn(i, status) ==
    /\ RtEdit /\ incident[i] \notin {"deleted", status}
    /\ incident' = [incident EXCEPT ![i] = status]
    /\ UNCHANGED <<clip, clipHold, agedIncident, event, eventHold, agedEvent, purge, began,
                   rtRuns>>

RetentionInit ==
    /\ incident \in [RtIncidents -> {"open", "resolved"}]
    /\ clip = [i \in RtIncidents |-> "ready"] /\ clipHold = [i \in RtIncidents |-> FALSE]
    /\ agedIncident \in [RtIncidents -> Ages]
    /\ event = [e \in RtEvents |-> Parts] /\ eventHold = [e \in RtEvents |-> FALSE]
    /\ agedEvent \in [RtEvents -> Ages]
    /\ purge = [p \in RtPasses |-> Resting]
    /\ began = [p \in RtPasses |-> [pinned |-> {}, edits |-> 0]] /\ rtRuns = 0 /\ rtEdits = 0

PassStep(p) == Protect(p) \/ Select(p) \/ DeleteBatch(p)

RetentionNext ==
    \/ \E p \in RtPasses : RunPurge(p) \/ PassStep(p) \/ PurgeFails(p)
    \/ \E e \in RtEvents, hold \in BOOLEAN : HoldEvent(e, hold)
    \/ \E i \in RtIncidents : \/ \E hold \in BOOLEAN : HoldClip(i, hold)
                              \/ \E s \in {"acknowledged", "resolved"} : WorkOn(i, s)

RetentionSpec == RetentionInit /\ [][RetentionNext]_retentionVars

\* --- properties -------------------------------------------------------------

\* Every variable has its type, and no child outlives its event's row.
RetentionTypeOK ==
    /\ incident \in [RtIncidents -> {"open", "acknowledged", "resolved", "deleted"}]
    /\ clip \in [RtIncidents -> {"none", "ready", "expired"}]
    /\ clipHold \in [RtIncidents -> BOOLEAN] /\ eventHold \in [RtEvents -> BOOLEAN]
    /\ event \in [RtEvents -> SUBSET Parts] /\ \A e \in RtEvents : "row" \in event[e] \/ event[e] = {}
    /\ purge \in [RtPasses -> [phase : 0..Len(Phases), ids : SUBSET (RtEvents \union RtIncidents),
                               left : 0..RtMaxBatches, protected : SUBSET RtEvents]]
    /\ began \in [RtPasses -> [pinned : SUBSET RtEvents, edits : Nat]]

\* Nothing of an event is deleted while it is held, at any age and however late
\* the hold came (_lock_unheld), nor while an incident that exists refers to it.
EvidenceIsKept ==
    [][\A e \in RtEvents : event'[e] # event[e] => ~eventHold[e] /\ e \notin Pinned]_retentionVars

\* The clip of an incident that is held or still worked on is never deleted.
ClipIsKept ==
    [][\A i \in RtIncidents :
          clip'[i] # clip[i] => incident[i] = "resolved" /\ ~clipHold[i]]_retentionVars

\* Nothing goes before its time: an event loses its row only past the events'
\* cutoff and its imagery or analyses past theirs, and so do an incident and
\* its clip, whatever was chosen with it in a batch (_cutoffs).
OnlyAged ==
    [][/\ \A e \in RtEvents : event'[e] # event[e] =>
             agedEvent[e] = "old" \/ (agedEvent[e] = "media" /\ "row" \in event'[e])
       /\ \A i \in RtIncidents :
             /\ clip'[i] # clip[i] => agedIncident[i] # "young"
             /\ incident'[i] = "deleted" /\ incident[i] # "deleted" => agedIncident[i] = "old"
      ]_retentionVars

\* No row is starved: a pass that got to its end, with batches enough for the
\* backlog and nobody's edit meanwhile, leaves no row that has aged and is not
\* held, but for those an incident pinned when the pass began, whichever other
\* passes overlapped it.  Whether what it released itself goes at once or with
\* the next pass is left open.
NoBacklog ==
    [][\A p \in RtPasses :
          /\ PhaseOf(p) = "events" /\ purge'[p] = Resting /\ rtEdits' = began[p].edits
          /\ RtBatch * RtMaxBatches > Cardinality(RtEvents)
          => \A e \in RtEvents :
                agedEvent[e] = "old" /\ ~eventHold[e] /\ "row" \in event'[e]
                   => e \in began[p].pinned]_retentionVars

\* The purge takes what has aged, nothing that has not or that is needed, and
\* leaves no backlog behind.
PurgeIsExact == EvidenceIsKept /\ ClipIsKept /\ OnlyAged /\ NoBacklog
================================================================================
