----------------------------- MODULE VehicleTracks -----------------------------
(***************************************************************************)
(* The vehicle tracks of one camera (the vehicle half of                   *)
(* app/services/scene_state.py) against the cars that really stand there.  *)
(*                                                                         *)
(* Boxes are abstracted to spots: a box in the track's own spot is in the  *)
(* same place, one in a spot near it matches the track but has moved, and  *)
(* a partial box is part of a car. What comparing two colour signatures    *)
(* says is left open: of the same car they can differ (another light,      *)
(* infrared, none at all), of two cars agree. Times are ages, cut off      *)
(* where the code no longer tells them apart. Every save commits: what a   *)
(* failed one does is in IngestionLease.                                   *)
(***************************************************************************)
EXTENDS Integers, FiniteSetsExt

CONSTANTS
    Cars,
    Spots,        \* where a box can be
    Near,         \* pairs of spots whose boxes overlap enough to match
    Ids,          \* bound: vehicle_tracks rows at a time
    Confirm,      \* vehicle_confirm_observations
    Stable,       \* vehicle_stable_observations
    Absence,      \* vehicle_absence_seconds, in frames
    LookGap,      \* vehicle_appearance_gap_seconds, in frames
    Window,       \* vehicle_return_window_seconds, in frames
    Touch,        \* vehicle_interaction_observations
    Cooldown,     \* vehicle_interaction_cooldown_seconds, in frames
    Gaps,         \* how many frames' time may pass between two frames
    Outage,       \* scene_outage_seconds, in frames: a longer gap is an outage
    MaxMishaps    \* bound: outages, restarts and resets in a behaviour

ASSUME VehicleAssumption ==
    /\ IsFiniteSet(Cars) /\ IsFiniteSet(Ids)
    /\ Near \subseteq Spots \X Spots /\ \A p \in Near : <<p[2], p[1]>> \in Near
    /\ "away" \notin Spots
    /\ Confirm \in Nat \ {0} /\ Stable \in Nat /\ Stable > 1
    /\ Absence \in Nat \ {0} /\ LookGap \in Nat /\ LookGap > 1 /\ Window \in Nat
    /\ Touch \in Nat \ {0} /\ Cooldown \in Nat /\ Outage \in Nat \ {0}
    /\ Gaps \subseteq Nat \ {0} /\ 1 \in Gaps
    /\ MaxMishaps \in Nat

VARIABLES
    verifier,   \* the Foundry vehicle identification is configured
    pos,        \* the world: where each car stands
    unseenRun,  \* the world: for how many frames' time the detector has missed it
    tracks,     \* scene.tracks, saved with every frame
    watch,      \* age of scene.observed_since
    fresh,      \* the scene was just loaded: last_frame_at is None
    out,        \* transitions of the last frame still to be emitted
    vehicleTold,       \* history: announcements of the car since it took its spot or was
                       \* last reported gone from it, other than of a place with two tracks
    unlike,            \* history: cars taken for another since they were announced
    calm,       \* history: good frames in a row of cars that do not move
    mishaps

world == <<pos, unseenRun, verifier>>
vehicleVars == <<verifier, pos, unseenRun, tracks, watch, fresh, out, vehicleTold, unlike, calm,
                 mishaps>>

Away   == "away"
NoneId == [state |-> "none"]
Alive(T)  == {i \in Ids : T[i].state # "none"}
Active(T) == {i \in Alive(T) : T[i].state # "departed"}
Departed(T) == {i \in Alive(T) : T[i].state = "departed"}

Older(age, dt, cap) == IF age + dt > cap THEN cap ELSE age + dt
UnseenCap == IF Absence > LookGap THEN Absence ELSE LookGap
CountCap  == IF Confirm > Stable THEN Confirm ELSE Stable

\* Good frames after which the tracks are the cars: what nobody sees has gone and its spot is
\* free, and what stands there was seen Confirm times, each time before it was absent.
Patience == IF Absence > 2 THEN Absence ELSE 2
CaughtUp == Absence + 3 + Patience * Confirm

\* What the detector makes of a car: nothing, a whole box, or a box of part of it,
\* which is too weak to begin a track (vehicle_new_track_min_confidence).
Views == {"missed", "whole", "part"}
Standing == {c \in Cars : pos[c] # Away}
BoxesOf(view) ==
    {[car |-> c, spot |-> pos[c], part |-> view[c] = "part"] : c \in {d \in Cars : view[d] # "missed"}}

\* --- matching (_vehicle_step) --------------------------------------------

SamePlace(t, d) == t.spot = d.spot /\ ~d.part
PartOf(t, d)    == t.spot = d.spot /\ d.part
\* Order of the pairs by IoU.
IouRank(t, d) ==
    IF SamePlace(t, d) THEN 3
    ELSE IF <<t.spot, d.spot>> \in Near /\ ~d.part THEN 2
    ELSE IF t.spot = d.spot THEN 1 ELSE 0
Overlapping(T, D) == {p \in Active(T) \X D : IouRank(T[p[1]], p[2]) > 0}
DoubtfulAlways(T, D) == Overlapping(T, D)  \* mutant: signatures compared at every frame
\* After a gap the colour signatures are compared, and some pairs are rejected: the
\* same place, but a vehicle that looks different.
Doubtful(T, D) == {p \in Overlapping(T, D) : T[p[1]].unseen >= LookGap}
Clash(p, q) == p[1] = q[1] \/ p[2] = q[2]

\* What the greedy pass over the sorted pairs can leave: a pair is passed
\* over only for one at least as good.
Matchings(T, D, rejected) ==
    LET E == Overlapping(T, D) \ rejected IN
    {M \in SUBSET E :
        /\ \A p, q \in M : Clash(p, q) => p = q
        /\ \A p \in E \ M : \E q \in M :
              Clash(p, q) /\ IouRank(T[q[1]], q[2]) >= IouRank(T[p[1]], p[2])}

\* --- one track -----------------------------------------------------------

\* A transition, of the track as it stands in the scene.
Event(scene, i, what) == [what |-> what, track |-> i, spot |-> scene.tracks[i].spot]
Put(scene, i, t) == [scene EXCEPT !.tracks[i] = t]
Say(scene, e)    == [scene EXCEPT !.out = @ \union {e}]

\* Pairs the comparison of signatures may call similar: a departed track and another.
Comparable(T) == {p \in Departed(T) \X Ids : p[1] # p[2] /\ T[p[1]].gone <= Window}

\* Departed a short while ago from where i is, and similar to it: pairs of alike are.
Returning(T, i, alike) ==
    {j \in Departed(T) \ {i} : /\ T[j].gone <= Window
                               /\ T[j].spot = T[i].spot \/ <<T[j].spot, T[i].spot>> \in Near
                               /\ <<j, i>> \in alike}

\* _maybe_confirm: the vehicle is announced, once, when it was seen often
\* enough and nothing is being asked about it.
Confirmed(scene, i, alike) ==
    LET t    == scene.tracks[i]
        u    == [t EXCEPT !.reported = TRUE, !.watched = FALSE,
                          !.state = IF t.count >= Stable THEN "stable" ELSE "tracking"]
        back == Returning(scene.tracks, i, alike)
    IN  IF t.reported \/ t.count < Confirm \/ t.ident = "asked" THEN scene
        ELSE IF back # {}
        THEN LET j == CHOOSE k \in back : TRUE
             IN  Say(Put(Put(scene, i, u), j, NoneId), Event(scene, i, "returned"))
        ELSE Say(Put(scene, i, u), Event(scene, i, IF t.watched THEN "arrived" ELSE "first_seen"))

\* _schedule_vehicle_id: nothing asked and nothing known.
Asked(scene, i) ==
    IF verifier /\ scene.tracks[i].ident = "none"
    THEN Put(scene, i, [scene.tracks[i] EXCEPT !.ident = "asked"]) ELSE scene

\* _continue_track: seen again in place, in part, or moved.
Moved(t, d) ==
    [t EXCEPT !.spot = d.spot, !.count = 1,
              !.interacted = FALSE,
              !.ident = IF @ = "known" THEN "none" ELSE @,
              !.state = IF t.reported THEN "tracking" ELSE @]
Seen(t) == [t EXCEPT !.unseen = 0, !.missed = 0]
Settle(scene, i) ==
    LET t == scene.tracks[i] IN
    IF t.reported /\ t.state = "tracking" /\ t.count >= Stable
    THEN Put(scene, i, [t EXCEPT !.state = "stable"]) ELSE scene

Continued(scene, i, d, alike) ==
    LET t    == scene.tracks[i]
        seen == IF SamePlace(t, d)
                THEN [t EXCEPT !.count = IF @ < CountCap THEN @ + 1 ELSE @] ELSE Moved(t, d)
        said == IF ~SamePlace(t, d) /\ t.reported /\ (t.state = "stable" \/ t.interacted)
                THEN Say(scene, Event(scene, i, "moved")) ELSE scene
    IN  IF PartOf(t, d) THEN Put(scene, i, Seen(t))
        ELSE Settle(Confirmed(Put(said, i, Seen(seen)), i, alike), i)

Fresh(d, watched) ==
    [state |-> "tentative", spot |-> d.spot, count |-> 1,
     reported |-> FALSE, watched |-> watched, unseen |-> 0, missed |-> 0, streak |-> 0,
     since |-> Cooldown, interacted |-> FALSE,
     gone |-> 0, ident |-> "none"]

\* A box no track took becomes a track unless it is weak or lies in one.
Created(scene, d, watched, alike) ==
    IF d.part \/ \E i \in Active(scene.tracks) : scene.tracks[i].spot = d.spot THEN scene
    ELSE LET i == CHOOSE k \in Ids : scene.tracks[k].state = "none"
         IN  Confirmed(Asked([Put(scene, i, Fresh(d, watched)) EXCEPT !.met = @ \union {i}], i), i, alike)

\* Unseen for long enough while the camera watched: departed, or forgotten.
AwayForUnwatched(t, observed) == t.unseen  \* mutant: outages count toward absence
AwayFor(t, observed) == IF t.unseen < observed THEN t.unseen ELSE observed
Absent(t, observed) == AwayFor(t, observed) >= Absence /\ t.missed >= 2
Missed(scene, i, observed) ==
    LET t == scene.tracks[i]
        u == [t EXCEPT !.missed = IF @ < 2 THEN @ + 1 ELSE @]
    IN  IF Absent(u, observed)
        THEN IF t.reported
             THEN Say(Put(scene, i, [u EXCEPT !.state = "departed", !.streak = 0, !.gone = 0]),
                      Event(scene, i, "departed"))
             ELSE Put(scene, i, NoneId)
        ELSE Put(scene, i, u)

\* _person_interaction: enough frames in a row with somebody at the vehicle.
Touched(scene, i, people) ==
    LET t == scene.tracks[i]
        n == IF t.spot \in people THEN (IF t.streak < Touch THEN t.streak + 1 ELSE Touch) ELSE 0
        u == [t EXCEPT !.streak = n]
    IN  IF t.state \notin {"tracking", "stable"} THEN scene
        ELSE IF n < Touch \/ t.since < Cooldown THEN Put(scene, i, u)
        ELSE Say(Put(scene, i, [u EXCEPT !.since = 0, !.interacted = TRUE,
                                         !.state = "tracking", !.count = 1]),
                 Event(scene, i, "interaction"))

Expired(t) == IF t.state = "departed" /\ t.gone > Window THEN NoneId ELSE t

\* --- a frame -------------------------------------------------------------

Aged(t, dt, outage) ==
    IF t.state = "none" THEN t
    ELSE [t EXCEPT !.unseen = Older(@, dt, UnseenCap),
                   !.since = Older(@, dt, Cooldown),
                   !.gone = IF t.state = "departed" THEN Older(@, dt, Window + 1) ELSE 0,
                   !.watched = @ /\ ~outage]

\* The passes of _vehicle_step: continue what is matched, begin what is new, miss the
\* rest, and see who is at a vehicle.
ContinuedAll(T, M, alike) ==
    FoldSet(LAMBDA p, sc : Asked(Continued(sc, p[1], p[2], alike), p[1]),
            [tracks |-> T, out |-> {}, met |-> {p[1] : p \in M}], M)
CreatedAll(scene, D, watched, alike) ==
    FoldSet(LAMBDA d, sc : Created(sc, d, watched, alike), scene, D)
MissedAll(scene, I, observed) == FoldSet(LAMBDA i, sc : Missed(sc, i, observed), scene, I)
TouchedAll(scene, people) ==
    FoldSet(LAMBDA i, sc : Touched(sc, i, people), scene, Active(scene.tracks))

\* The whole of it, in its order, up to expiry.
Step(T, D, M, alike, people, observed) ==
    LET new     == CreatedAll(ContinuedAll(T, M, alike), D \ {p[2] : p \in M},
                              observed >= Absence, alike)
        touched == TouchedAll(MissedAll(new, Active(T) \ new.met, observed), people)
    IN  [touched EXCEPT !.tracks = [i \in Ids |-> Expired(@[i])]]

Announces(e) == e.what \in {"arrived", "first_seen", "returned"}
\* The car is reported gone from the spot it stands in.
GoneFrom(events, c) == \E e \in events : e.what = "departed" /\ e.spot = pos[c]

\* The detector does not miss a car for as long as Absence; of an outage only the
\* frame that ends it counts.
MissedFor(dt) == IF dt > Outage THEN 1 ELSE dt
Possible(view, dt) ==
    \A c \in Cars : IF pos[c] = Away THEN view[c] = "missed"
                   ELSE unseenRun[c] + MissedFor(dt) >= Absence => view[c] # "missed"

Frame(view, people, dt) ==
    LET D        == BoxesOf(view)
        outage   == fresh \/ dt > Outage
        observed == IF outage THEN 0 ELSE Older(watch, dt, UnseenCap)
        T        == [i \in Ids |-> Aged(tracks[i], dt, outage)]
    IN
    /\ out = {}
    /\ Possible(view, dt)
    /\ dt > Outage => mishaps < MaxMishaps
    /\ \E rejected \in SUBSET Doubtful(T, D), alike \in SUBSET Comparable(T) :
       \E M \in Matchings(T, D, rejected) :
         /\ Cardinality(D) - Cardinality(M) <= Cardinality(Ids \ Alive(T))
         /\ LET scene == Step(T, D, M, alike, people, observed) IN
              /\ tracks' = scene.tracks
              /\ out' = scene.out
         /\ unlike' = unlike \union {p[2].car : p \in {q \in rejected : T[q[1]].spot = q[2].spot}}
    /\ vehicleTold' = [c \in Cars |-> IF GoneFrom(out', c) THEN 0 ELSE vehicleTold[c]]
    /\ watch' = observed
    /\ fresh' = FALSE
    /\ unseenRun' = [c \in Cars |->
          IF pos[c] = Away \/ view[c] # "missed" THEN 0 ELSE unseenRun[c] + MissedFor(dt)]
    /\ mishaps' = IF dt > Outage THEN mishaps + 1 ELSE mishaps
    /\ calm' = IF /\ \A c \in Standing : view[c] = "whole"
                  /\ dt = 1 /\ ~\E i \in Alive(T) : T[i].ident = "asked"
               THEN (IF calm < CaughtUp THEN calm + 1 ELSE calm) ELSE 0
    /\ UNCHANGED <<pos, verifier>>

\* --- the rest of the loop, and the world ---------------------------------

\* Two tracks in one place: one came there while the other's car was away unseen,
\* and nothing merges them.
Doubled(spot) == \E i, j \in Active(tracks) : i # j /\ tracks[i].spot = spot /\ tracks[j].spot = spot

\* The transition's event is committed: an announcement is told...
ToldOf(e, c) == Announces(e) /\ e.spot = pos[c] /\ ~Doubled(e.spot)
Emit(e) ==
    /\ e \in out
    /\ out' = out \ {e}
    /\ vehicleTold' = [c \in Cars |->
          IF ToldOf(e, c) /\ vehicleTold[c] < 2 THEN vehicleTold[c] + 1 ELSE vehicleTold[c]]
    /\ unlike' = unlike \ {c \in Cars : ToldOf(e, c)}
    /\ UNCHANGED <<world, calm, tracks, watch, fresh, mishaps>>

Mishap == mishaps < MaxMishaps /\ mishaps' = mishaps + 1

\* ... or it is not, and nothing tries again.
EmitFails(e) ==
    /\ Mishap
    /\ e \in out
    /\ out' = out \ {e}
    /\ UNCHANGED <<world, calm, tracks, watch, fresh, vehicleTold, unlike>>

\* The answer is taken with the next frame; one that says nothing may be asked for
\* again (after scene_verifier_min_interval_seconds).
Answer(i) ==
    /\ out = {}
    /\ tracks[i].state # "none" /\ tracks[i].ident = "asked"
    /\ \E a \in {"known", "none"} : tracks' = [tracks EXCEPT ![i].ident = a]
    /\ UNCHANGED <<world, calm, watch, fresh, out, vehicleTold, unlike, mishaps>>

\* A restart, or a lost lease (forget): the rows stay, memory goes.
Restart ==
    /\ Mishap
    /\ tracks' = [i \in Ids |-> IF tracks[i].state # "none" /\ tracks[i].ident = "asked"
                              THEN [tracks[i] EXCEPT !.ident = "none"] ELSE tracks[i]]
    /\ watch' = 0 /\ fresh' = TRUE /\ out' = {} /\ calm' = 0
    /\ UNCHANGED <<world, vehicleTold, unlike>>

\* The scene was unusable (reset_camera): every car is news again.
Reset ==
    /\ Mishap
    /\ tracks' = [i \in Ids |-> NoneId]
    /\ watch' = 0 /\ fresh' = TRUE /\ out' = {} /\ calm' = 0
    /\ vehicleTold' = [c \in Cars |-> 0] /\ unlike' = {}
    /\ UNCHANGED world

\* A car takes a spot nobody stands in or near, or leaves. Its first frame
\* there shows it.
Drive(c) ==
    /\ out = {}
    /\ \E s \in Spots \union {Away} :
         /\ s # pos[c]
         /\ \A d \in Cars \ {c} : s # Away => pos[d] # s /\ <<pos[d], s>> \notin Near
         /\ pos' = [pos EXCEPT ![c] = s]
    /\ unseenRun' = [unseenRun EXCEPT ![c] = IF pos'[c] = Away THEN 0 ELSE Absence - 1]
    /\ vehicleTold' = [vehicleTold EXCEPT ![c] = 0]
    /\ unlike' = unlike \ {c}
    /\ calm' = 0
    /\ UNCHANGED <<verifier, tracks, watch, fresh, out, mishaps>>

VehicleInit ==
    /\ verifier \in BOOLEAN
    /\ pos = [c \in Cars |-> Away]
    /\ unseenRun = [c \in Cars |-> 0]
    /\ tracks = [i \in Ids |-> NoneId]
    /\ watch = 0 /\ fresh = TRUE /\ out = {}
    /\ vehicleTold = [c \in Cars |-> 0] /\ unlike = {}
    /\ calm = 0 /\ mishaps = 0

SomeFrame ==
    \E view \in [Cars -> Views], people \in SUBSET {pos[c] : c \in Standing}, dt \in Gaps :
        Frame(view, people, dt)

VehicleNext ==
    \/ SomeFrame \/ Restart \/ Reset
    \/ \E e \in out : Emit(e) \/ EmitFails(e)
    \/ \E i \in Ids : Answer(i)
    \/ \E c \in Cars : Drive(c)

VehicleSpec == VehicleInit /\ [][VehicleNext]_vehicleVars

Track == [state : {"tentative", "tracking", "stable", "departed"}, spot : Spots,
          count : 1..CountCap, reported : BOOLEAN, watched : BOOLEAN,
          unseen : 0..UnseenCap, missed : 0..2, streak : 0..Touch, since : 0..Cooldown,
          interacted : BOOLEAN, gone : 0..(Window + 1),
          ident : {"none", "asked", "known"}]

\* --- properties --------------------------------------------------------------

\* Every variable has its type, and a track is reported exactly when it is more
\* than tentative.
VehicleTypeOK ==
    /\ pos \in [Cars -> Spots \union {Away}]
    /\ unseenRun \in [Cars -> 0..(Absence - 1)]
    /\ tracks \in [Ids -> Track \union {NoneId}]
    /\ \A i \in Alive(tracks) :
         tracks[i].reported <=> tracks[i].state \in {"tracking", "stable", "departed"}
    /\ watch \in 0..UnseenCap /\ vehicleTold \in [Cars -> 0..2] /\ unlike \in SUBSET Cars
    /\ mishaps \in 0..MaxMishaps

\* A car that stands still is announced at most once, through missed and partial
\* detections, outages and restarts (the reason for keeping tracks: a parked car
\* is not news): not again unless it was reported gone in between. Where two tracks
\* came to lie in one place each announces it.
StayAnnouncedOnce == \A c \in Cars : vehicleTold[c] <= 1

\* Whatever went before, after enough good frames of cars that stand still the
\* reported tracks are those cars and no other, each in its spot.
SceneCatchesUp ==
    calm = CaughtUp =>
        /\ \A c \in Standing : \E i \in Active(tracks) :
              tracks[i].reported /\ tracks[i].spot = pos[c]
        /\ \A i \in Active(tracks) : \E c \in Standing : pos[c] = tracks[i].spot

\* The household is told of every stay once, and the scene becomes the truth
\* (_vehicle_step, _maybe_confirm), whatever comparing the colours says.
SceneTold == StayAnnouncedOnce /\ SceneCatchesUp

\* A car that was announced and stands there is not reported as departed, as long as
\* the detector does not miss it for vehicle_absence_seconds of watching, unless its
\* own box was taken for another vehicle's after a gap: time in which the camera was
\* dark does not count (_vehicle_step).
NoFalseDeparture ==
    [][\A c \in Cars : vehicleTold[c] > 0 /\ GoneFrom(out' \ out, c) => c \in unlike']_vehicleVars
================================================================================
