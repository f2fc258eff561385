----------------------------- MODULE CameraHealth ------------------------------
(***************************************************************************)
(* The camera-health watchdog of one camera: app/ai/camera_health.py, the  *)
(* passes that poll_once (app/services/ingestion.py) makes over it, and    *)
(* raise_camera_health, resolve_camera_health, acknowledge and resolve of  *)
(* app/services/incidents.py.                                              *)
(*                                                                         *)
(* Each API replica keeps the watchdog's state in memory; the incidents    *)
(* are in the shared database. Durations are abstracted to whether they    *)
(* have elapsed. Of the incidents of a kind only the newest is told apart, *)
(* as in the code; the others are counted while they are not resolved.     *)
(* Acknowledged incidents are treated like open ones everywhere here.      *)
(***************************************************************************)
EXTENDS Naturals, FiniteSets

CONSTANTS
    Replicas,        \* API replicas sharing the database
    NoReplica,       \* "advisory lock free"
    Conditions,      \* what may be the matter with the camera: see AllConditions
    ConfirmSamples,  \* camera_obstruction_confirm_samples
    Faults,          \* a subset of FaultKinds
    MaxMishaps       \* bound: faults of those kinds in a behaviour

AllConditions == {"well", "offline", "blocked",  \* a flat image, with noise
                  "still", "dark"}               \* unchanging; flat and unchanging
FaultKinds    == {"handover",  \* the ingestion lease goes to another replica
                  "restart",   \* a replica's process ends and starts again
                  "db"}        \* a database call, or what follows it, raises

ASSUME HealthAssumption ==
    /\ NoReplica \notin Replicas
    /\ Conditions \subseteq AllConditions /\ "well" \in Conditions
    /\ ConfirmSamples \in Nat \ {0}
    /\ Faults \subseteq FaultKinds
    /\ MaxMishaps \in Nat

VARIABLES
    camera,      \* the camera's condition
    leader,      \* replica whose loop samples the camera (ingestion lease)
    newest,      \* newest[k]: the last incident of kind k
    older,       \* older[k]: incidents of kind k before it, not resolved
    lock,        \* lock[k]: replica in the route lock of (camera, k)
    pc, kind,    \* where a replica's pass is; the kind it raises or resolves
    frame,       \* condition shown by the frame being evaluated
    lastOnline,  \* _CameraHealth.last_online, "unknown" for None
    flags,       \* kinds whose *_incident_open is set
    obstructed,  \* consecutive_obstructed, counted up to ConfirmSamples
    lastFrame,   \* condition shown by the frame last_frame_stats is from
    frozen,      \* frozen_since: "no", "recent", or camera_frozen_seconds ago
    stranded,    \* history: stranded[r]: kinds about which r's last call failed
                 \* in a way that nothing in r will make it try again
    mishaps      \* faults so far

incidents == <<newest, older, lock>>
watch     == <<lastOnline, flags, obstructed, lastFrame, frozen, stranded>>
vars      == <<camera, leader, incidents, pc, kind, frame, watch, mishaps>>

Kinds  == {"offline", "obstruction", "frozen"}
PCs    == {"idle", "frame", "frozen", "raise", "insert", "raised", "resolve", "resolved"}
\* "recently": resolved less than camera_health_dedupe_seconds ago.
Status == {"none", "open", "recently", "resolved"}

Online(c)  == c # "offline"
Flat(c)    == c \in {"blocked", "dark"}
Static(c)  == c \in {"still", "dark"}

\* Incidents of kind k that are open or acknowledged.
Unresolved(k) == older[k] + (IF newest[k] = "open" THEN 1 ELSE 0)

Init ==
    /\ camera \in Conditions
    /\ leader \in Replicas
    /\ newest = [k \in Kinds |-> "none"]
    /\ older = [k \in Kinds |-> 0]
    /\ lock = [k \in Kinds |-> NoReplica]
    /\ pc = [r \in Replicas |-> "idle"]
    /\ kind = [r \in Replicas |-> "none"]
    /\ frame = [r \in Replicas |-> "none"]
    /\ lastOnline = [r \in Replicas |-> "unknown"]
    /\ flags = [r \in Replicas |-> {}]
    /\ obstructed = [r \in Replicas |-> 0]
    /\ lastFrame = [r \in Replicas |-> "none"]
    /\ frozen = [r \in Replicas |-> "no"]
    /\ stranded = [r \in Replicas |-> {}]
    /\ mishaps = 0

Goto(r, l) == pc' = [pc EXCEPT ![r] = l] /\ UNCHANGED kind
Begin(r, op, k) ==
    /\ pc' = [pc EXCEPT ![r] = op]
    /\ kind' = [kind EXCEPT ![r] = k]
Leave(r, l) ==  \* the call on the incident returned: the pass goes on at l
    /\ pc' = [pc EXCEPT ![r] = l]
    /\ kind' = [kind EXCEPT ![r] = "none"]
EndFrame(r) == frame' = [frame EXCEPT ![r] = "none"]

\* --- evaluate_online_state -----------------------------------------------

\* Only a transition between two observations of this replica counts.
Observe(r) ==
    /\ pc[r] = "idle" /\ leader = r
    /\ lastOnline' = [lastOnline EXCEPT ![r] = IF Online(camera) THEN "on" ELSE "off"]
    /\ IF lastOnline[r] = "on" /\ ~Online(camera)
       THEN Begin(r, "raise", "offline")
       ELSE IF lastOnline[r] = "off" /\ Online(camera) /\ "offline" \in flags[r]
       THEN Begin(r, "resolve", "offline")
       ELSE Goto(r, IF Online(camera) THEN "frame" ELSE "idle")
    /\ UNCHANGED <<camera, leader, incidents, frame, flags, obstructed, lastFrame,
                   frozen, stranded, mishaps>>

\* --- evaluate_frame ------------------------------------------------------

\* No snapshot capability, no provider, or no frame this time.
NoFrame(r) ==
    /\ pc[r] = "frame"
    /\ Goto(r, "idle")
    /\ UNCHANGED <<camera, leader, incidents, frame, watch, mishaps>>

\* Acquire a frame and check it for obstruction (_evaluate_obstruction).
Obstruction(r) ==
    /\ pc[r] = "frame" /\ Online(camera)
    /\ frame' = [frame EXCEPT ![r] = camera]
    /\ LET n == IF obstructed[r] < ConfirmSamples THEN obstructed[r] + 1
                                                  ELSE ConfirmSamples
           known == "obstruction" \in flags[r]
       IN  /\ obstructed' = [obstructed EXCEPT ![r] = IF Flat(camera) THEN n ELSE 0]
           /\ IF Flat(camera) /\ n = ConfirmSamples /\ ~known
              THEN Begin(r, "raise", "obstruction")
              ELSE IF ~Flat(camera) /\ known THEN Begin(r, "resolve", "obstruction")
              ELSE Goto(r, "frozen")
    /\ UNCHANGED <<camera, leader, incidents, lastOnline, flags, lastFrame, frozen,
                   stranded, mishaps>>

\* Compare it with the frame before (_evaluate_frozen).
Frozen(r) ==
    /\ pc[r] = "frozen"
    /\ LET unchanged == Static(frame[r]) /\ lastFrame[r] = frame[r]
           known     == "frozen" \in flags[r]
           raise     == unchanged /\ frozen[r] = "long" /\ ~known
           resolve   == lastFrame[r] # "none" /\ ~unchanged /\ known
       IN  /\ frozen' = [frozen EXCEPT ![r] =
                           IF lastFrame[r] = "none" THEN @
                           ELSE IF ~unchanged THEN "no"
                           ELSE IF @ = "no" THEN "recent" ELSE @]
           /\ IF raise \/ resolve
              THEN /\ Begin(r, IF raise THEN "raise" ELSE "resolve", "frozen")
                   /\ UNCHANGED <<lastFrame, frame>>
              ELSE /\ Goto(r, "idle")
                   /\ lastFrame' = [lastFrame EXCEPT ![r] = frame[r]]
                   /\ EndFrame(r)
    /\ UNCHANGED <<camera, leader, incidents, lastOnline, flags, obstructed,
                   stranded, mishaps>>

\* --- raise_camera_health, resolve_camera_health --------------------------

\* What follows the call for kind[r], when it returns and when it raises.
Resume(r) ==
    /\ Leave(r, IF kind[r] = "obstruction" THEN "frozen"
                ELSE IF kind[r] = "offline" /\ lastOnline[r] = "on" THEN "frame"
                ELSE "idle")
    /\ IF kind[r] = "frozen"
       THEN EndFrame(r) /\ lastFrame' = [lastFrame EXCEPT ![r] = frame[r]]
       ELSE UNCHANGED <<frame, lastFrame>>

Abandon(r) ==
    /\ Leave(r, IF kind[r] = "offline" /\ lastOnline[r] = "on" THEN "frame" ELSE "idle")
    /\ EndFrame(r)
    /\ UNCHANGED lastFrame

Succeeds(r) == stranded' = [stranded EXCEPT ![r] = @ \ {kind[r]}]

\* Mutant: the check is made outside the route lock.
RaiseUnlocked(r) ==
    /\ pc[r] = "raise"
    /\ Goto(r, IF newest[kind[r]] \in {"open", "recently"} THEN "raised" ELSE "insert")
    /\ UNCHANGED <<camera, leader, incidents, frame, watch, mishaps>>

\* Mutant: the dedupe window is not looked at.
RaiseAnyTime(r) ==
    LET k == kind[r] IN
    /\ pc[r] = "raise" /\ lock[k] = NoReplica
    /\ IF newest[k] = "open"
       THEN Goto(r, "raised") /\ UNCHANGED lock
       ELSE Goto(r, "insert") /\ lock' = [lock EXCEPT ![k] = r]
    /\ UNCHANGED <<camera, leader, newest, older, frame, watch, mishaps>>

\* Under the route lock: nothing to do while the newest incident is open, or
\* was resolved too recently.
RaiseCheck(r) ==
    LET k == kind[r] IN
    /\ pc[r] = "raise" /\ lock[k] = NoReplica
    /\ IF newest[k] \in {"open", "recently"}
       THEN Goto(r, "raised") /\ UNCHANGED lock
       ELSE Goto(r, "insert") /\ lock' = [lock EXCEPT ![k] = r]
    /\ UNCHANGED <<camera, leader, newest, older, frame, watch, mishaps>>

Insert(r) ==
    LET k == kind[r] IN
    /\ pc[r] = "insert"
    /\ older' = [older EXCEPT ![k] = Unresolved(k)]
    /\ newest' = [newest EXCEPT ![k] = "open"]
    /\ lock' = [lock EXCEPT ![k] = NoReplica]
    /\ Goto(r, "raised")
    /\ UNCHANGED <<camera, leader, frame, watch, mishaps>>

\* The call returned, with or without an incident: the flag is set.
Raised(r) ==
    /\ pc[r] = "raised"
    /\ flags' = [flags EXCEPT ![r] = @ \union {kind[r]}]
    /\ Succeeds(r)
    /\ Resume(r)
    /\ UNCHANGED <<camera, leader, incidents, lastOnline, obstructed, frozen, mishaps>>

\* The newest incident that is not resolved, if there is one, is.
ResolveNewest(k) ==
    IF newest[k] = "open"
    THEN newest' = [newest EXCEPT ![k] = "recently"] /\ UNCHANGED older
    ELSE /\ older' = [older EXCEPT ![k] = IF @ > 0 THEN @ - 1 ELSE 0]
         /\ UNCHANGED newest

Resolve(r) ==
    /\ pc[r] = "resolve" /\ lock[kind[r]] = NoReplica
    /\ ResolveNewest(kind[r])
    /\ Goto(r, "resolved")
    /\ UNCHANGED <<camera, leader, lock, frame, watch, mishaps>>

Resolved(r) ==
    /\ pc[r] = "resolved"
    /\ flags' = [flags EXCEPT ![r] = @ \ {kind[r]}]
    /\ Succeeds(r)
    /\ Resume(r)
    /\ UNCHANGED <<camera, leader, incidents, lastOnline, obstructed, frozen, mishaps>>

\* --- the household, the camera, time and faults --------------------------

\* POST /security/incidents/{id}/resolve on the newest one.
HumanResolve(k) ==
    /\ Unresolved(k) > 0
    /\ ResolveNewest(k)
    /\ UNCHANGED <<camera, leader, lock, pc, kind, frame, watch, mishaps>>

WindowEnds(k) ==
    /\ newest[k] = "recently"
    /\ newest' = [newest EXCEPT ![k] = "resolved"]
    /\ UNCHANGED <<camera, leader, older, lock, pc, kind, frame, watch, mishaps>>

Change ==
    /\ camera' \in Conditions \ {camera}
    /\ UNCHANGED <<leader, incidents, pc, kind, frame, watch, mishaps>>

FrozenLong(r) ==
    /\ frozen[r] = "recent"
    /\ frozen' = [frozen EXCEPT ![r] = "long"]
    /\ UNCHANGED <<camera, leader, incidents, pc, kind, frame, lastOnline, flags,
                   obstructed, lastFrame, stranded, mishaps>>

Mishap(f) == f \in Faults /\ mishaps < MaxMishaps /\ mishaps' = mishaps + 1
Release(r) == lock' = [k \in Kinds |-> IF lock[k] = r THEN NoReplica ELSE lock[k]]

\* No later sample of r makes up for the failed call: an incident that was
\* committed before its flag was set, or the one call on coming back online
\* (last_online is written before the call). A resolution of the other kinds
\* is tried again at the next frame.
Strands(r) == pc[r] = "raised" \/ (pc[r] = "resolve" /\ kind[r] = "offline")

\* Mutant: the route lock outlives the transaction that failed.
CallFailsLocked(r) ==
    /\ Mishap("db")
    /\ pc[r] \in {"raise", "insert", "raised", "resolve", "resolved"}
    /\ stranded' = [stranded EXCEPT ![r] = IF Strands(r) THEN @ \union {kind[r]} ELSE @]
    /\ Abandon(r)
    /\ UNCHANGED <<camera, leader, incidents, lastOnline, flags, obstructed, frozen>>

\* The call raises before, or after, what it commits; poll_once goes on.
CallFails(r) ==
    /\ Mishap("db")
    /\ pc[r] \in {"raise", "insert", "raised", "resolve", "resolved"}
    /\ Release(r)
    /\ stranded' = [stranded EXCEPT ![r] = IF Strands(r) THEN @ \union {kind[r]} ELSE @]
    /\ Abandon(r)
    /\ UNCHANGED <<camera, leader, newest, older, lastOnline, flags, obstructed, frozen>>

Handover ==
    /\ Mishap("handover")
    /\ leader' \in Replicas \ {leader}
    /\ UNCHANGED <<camera, incidents, pc, kind, frame, watch>>

\* Mutant: nothing is seeded at startup.
RestartUnseeded(r) ==
    /\ Mishap("restart")
    /\ Release(r)
    /\ Leave(r, "idle")
    /\ EndFrame(r)
    /\ flags' = [flags EXCEPT ![r] = {}]
    /\ lastOnline' = [lastOnline EXCEPT ![r] = "unknown"]
    /\ obstructed' = [obstructed EXCEPT ![r] = 0]
    /\ lastFrame' = [lastFrame EXCEPT ![r] = "none"]
    /\ frozen' = [frozen EXCEPT ![r] = "no"]
    /\ stranded' = [stranded EXCEPT ![r] = {}]
    /\ UNCHANGED <<camera, leader, newest, older>>

\* The state in memory is lost; seed_from_open_incidents restores the flags.
Restart(r) ==
    /\ Mishap("restart")
    /\ Release(r)
    /\ Leave(r, "idle")
    /\ EndFrame(r)
    /\ flags' = [flags EXCEPT ![r] = {k \in Kinds : Unresolved(k) > 0}]
    /\ lastOnline' = [lastOnline EXCEPT ![r] =
                        IF Unresolved("offline") > 0 THEN "off" ELSE "unknown"]
    /\ obstructed' = [obstructed EXCEPT ![r] = 0]
    /\ lastFrame' = [lastFrame EXCEPT ![r] = "none"]
    /\ frozen' = [frozen EXCEPT ![r] = "no"]
    /\ stranded' = [stranded EXCEPT ![r] = {}]
    /\ UNCHANGED <<camera, leader, newest, older>>

Pass(r) ==
    \/ Observe(r) \/ NoFrame(r) \/ Obstruction(r) \/ Frozen(r)
    \/ RaiseCheck(r) \/ Insert(r) \/ Raised(r) \/ Resolve(r) \/ Resolved(r)

Next ==
    \/ \E r \in Replicas : Pass(r) \/ FrozenLong(r) \/ CallFails(r) \/ Restart(r)
    \/ \E k \in Kinds : HumanResolve(k) \/ WindowEnds(k)
    \/ Change \/ Handover

Spec == Init /\ [][Next]_vars

\* The loop of every replica goes on, time passes, and a camera that keeps
\* being asked for a frame delivers one sooner or later.
Fairness ==
    /\ \A r \in Replicas :
          WF_vars(Pass(r)) /\ SF_vars(Obstruction(r)) /\ WF_vars(FrozenLong(r))
    /\ \A k \in Kinds : WF_vars(WindowEnds(k))

FairSpec == Spec /\ Fairness

-------------------------------------------------------------------------------
Types ==
    /\ camera \in Conditions /\ leader \in Replicas
    /\ newest \in [Kinds -> Status] /\ older \in [Kinds -> Nat]
    /\ lock \in [Kinds -> Replicas \union {NoReplica}]
    /\ pc \in [Replicas -> PCs]
    /\ kind \in [Replicas -> Kinds \union {"none"}]
    /\ frame \in [Replicas -> Conditions \union {"none"}]
    /\ lastOnline \in [Replicas -> {"unknown", "on", "off"}]
    /\ flags \in [Replicas -> SUBSET Kinds]
    /\ obstructed \in [Replicas -> 0..ConfirmSamples]
    /\ lastFrame \in [Replicas -> Conditions \union {"none"}]
    /\ frozen \in [Replicas -> {"no", "recent", "long"}]
    /\ stranded \in [Replicas -> SUBSET Kinds]
    /\ mishaps \in 0..MaxMishaps

\* The route lock of a kind is held by a pass about to insert that kind.
LocksAreHeld ==
    \A k \in Kinds : lock[k] # NoReplica => pc[lock[k]] = "insert" /\ kind[lock[k]] = k

\* Every variable has its type, and no route lock outlives the transaction
\* that took it, whatever call fails inside (_acquire_route_lock).
TypeOK == Types /\ LocksAreHeld

\* Two replicas that see the same trouble, before and after a handover, share
\* one incident for it (raise_camera_health under the route lock).
OneUnresolvedIncident == \A k \in Kinds : Unresolved(k) <= 1

\* A kind is not raised again within camera_health_dedupe_seconds of its last
\* incident being resolved, by whichever replica (raise_camera_health).
NotReraisedTooSoon ==
    [][\A k \in Kinds : newest[k] = "recently" => newest'[k] # "open"]_vars

\* While the same replica leads all the time, however often it restarts and
\* whichever of its calls fail, a camera that has recovered for good ends with
\* no unresolved incident (seed_from_open_incidents), but for a kind whose last
\* call failed where nothing retries it.
ClearedUnderOneLeader ==
    \A r \in Replicas, k \in Kinds :
        [](leader = r) /\ <>[](camera = "well")
            => <>[](Unresolved(k) = 0 \/ k \in stranded[r])

\* The same when the lease moves between replicas before it stays at one.
ClearedAfterHandover ==
    \A r \in Replicas, k \in Kinds :
        <>[](leader = r) /\ <>[](camera = "well")
            => <>[](Unresolved(k) = 0 \/ k \in stranded[r])
================================================================================
