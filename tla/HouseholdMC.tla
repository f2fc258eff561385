------------------------------ MODULE HouseholdMC ------------------------------
(***************************************************************************)
(* The instance on which TLC checks the modules that share no variable     *)
(* with the lease, the watchdogs, the incidents and the schedules.         *)
(*                                                                         *)
(* They share none among each other either, and a property of one speaks   *)
(* of its own variables alone: interleaving them would show nothing that   *)
(* running one of them does not. So a behaviour is one of one subsystem,   *)
(* turn, and the others stay as they began.                                *)
(***************************************************************************)
EXTENDS VehicleTracks, Mailbox, Bins, Persons, Notify, Deterrence, Clips, Retention,
        Segments, EufyLive, EdgeLiveness, Loitering, Suspicious, Pipeline, Accounts,
        GoogleSignIn, Providers, Digest, DetectorWatchdog

VARIABLE turn

-----------------------------------------------------------------------------
(* Values of the constants.                                                *)

\* One model value stands for the first of each pair of like things, another for
\* the second; a third is the incident of Retention.
CONSTANTS one, two, theft

BothWays(pairs) == pairs \union {<<p[2], p[1]>> : p \in pairs}

NearSpots  == BothWays({<<"kerb", "drive">>})
AlikeFaces == BothWays({<<"v1", "v2">>, <<"v1", "v3">>})

Alerts        == {<<"r1", "a1">>, <<"r2", "a1">>, <<"r2", "a2">>, <<"r1", "faint">>}
AlertSeverity == [a1 |-> 2, a2 |-> 3, faint |-> 1]
ChannelFloor  == [c1 |-> 2]

PinnedEvents == [i \in {theft} |-> {1}]

FriendFirst == <<"friend", "stranger">>
Places      == [friend |-> {1, 2}, stranger |-> {4}]

SharedAddress == [p \in {one, two} |-> "m1"]

-----------------------------------------------------------------------------
Subsystems == {"vehicles", "mailbox", "bins", "persons", "notify", "deterrence", "clips",
               "retention", "segments", "eufy", "edge", "loitering", "suspicious",
               "pipeline", "accounts", "google", "providers", "digest", "detector"}

\* The subsystems whose turn it is not begin in one state, not in each of theirs.
OthersBeginAlike ==
    /\ turn # "vehicles" => ~verifier
    /\ turn # "bins" => look = "here"
    /\ turn # "notify" => \A c \in NtChannels : channelState[c] = "on"
    /\ turn # "retention" => /\ \A i \in RtIncidents : incident[i] = "open" /\ agedIncident[i] = "old"
                             /\ \A e \in RtEvents : agedEvent[e] = "old"
    /\ trust["stranger"] = "unknown"
    /\ turn # "suspicious" => trust["friend"] = "unknown"
    /\ turn # "pipeline" => armedNow

HouseholdInit ==
    /\ turn \in Subsystems
    /\ VehicleInit /\ MailboxInit /\ BinInit /\ PersonsInit /\ NotifyInit /\ DeterrenceInit
    /\ ClipsInit /\ RetentionInit /\ SegmentsInit /\ EufyInit /\ EdgeInit /\ LoiterInit
    /\ SuspectInit /\ PlInit /\ AcInit /\ GoInit /\ ProvidersInit /\ DigestInit /\ WatchdogInit
    /\ OthersBeginAlike

sceneVars  == <<vehicleVars, mailVars, binVars, personVars>>
alarmVars  == <<notifyVars, deterrenceVars, loiterVars, suspectVars, plVars>>
mediaVars  == <<clipVars, retentionVars, segmentVars, eufyVars, edgeVars>>
serverVars == <<acVars, goVars, pvVars, dgVars, wdVars>>

\* The bounds below keep a subsystem small: what they leave apart is each possible,
\* only not in one behaviour.

\* The second car is there to take the first one's place: it parks at the kerb, and
\* neither with the verifier, which makes tracks far more varied, nor when
\* something goes wrong; with both of these the first car does not shift.
SecondCar ==
    /\ pos'["blue"] \in IF verifier \/ mishaps' > 0 THEN {Away} ELSE {Away, "kerb"}
    /\ verifier /\ mishaps' > 0 => pos'["red"] # "drive"

\* Somebody busies himself with a car before anything went wrong, and not with the verifier.
SeldomTouched == (\E e \in out' : e.what = "interaction") => ~verifier /\ mishaps' = 0

\* What goes wrong at the mailbox does so between its first visit and its second.
AfterOneVisit == mailMishaps' > mailMishaps => visits' = 1

\* A bin tips over by itself, and is not the one that a restart forgets or an
\* outage hides, and the restart and the outage are not both.
TippedOrForgotten ==
    /\ look' = "tipped" => dark' = 0 /\ bin'.by = "nobody"
    /\ dark' <= 1

\* An alert below the channel's floor comes alone; a channel is changed, or a replica
\* crashes, within the first hour.
FaintComesAlone ==
    /\ ntMishaps' > ntMishaps => ntNow' = 1
    /\ tasks'[<<"r1", "faint">>].pc # "idle" =>
          /\ ntMishaps' = 0
          /\ \A t \in NtJobs : t[2] # "faint" => tasks'[t].pc = "idle"

\* Only the friend is ever trusted, and becomes so while the stranger is away.
StrangerStaysOne ==
    /\ trust'["stranger"] = "unknown"
    /\ trustChanges' > trustChanges => absent'["stranger"] > SuspectGap

\* A stage of the pipeline fails, or the mode changes, but not both; it changes
\* where nobody is suspicious, and one event at most has a video then.
OneUpset ==
    /\ plMishaps' + plModes' <= 1
    /\ plMishaps' + plModes' = 1 => Cardinality({e \in PlEvents : reader'[e] # "none"}) <= 1
    /\ plModes' = 1 => \A e \in PlEvents : row'[e].level = "none"

\* The photo of at most one event is not there at once.
OnePhotoMissing == Cardinality({e \in ClEvents : copy'[e].photo = "pending"}) <= 1

\* Once something went wrong, nothing is recorded and little is on the socket at a time.
QuietSocket ==
    elMishaps' = 1 =>
        /\ Len(commands') + Len(news') <= 1
        /\ \A t \in ElTasks : request'[t].does # "record"

\* The recorder is out of reach for one request at a time.
OneOutOfReach == probe'.ok \/ \E t \in EdTasks : fetch'[t].pc = "idle"

\* One event at most is assigned before it is recognised.
OneTooEarly == Cardinality(early') <= 1

VehicleTurn ==
    /\ turn = "vehicles" /\ VehicleNext /\ SecondCar /\ SeldomTouched
    /\ UNCHANGED <<turn, mailVars, binVars, personVars, alarmVars, mediaVars, serverVars>>
MailboxTurn ==
    /\ turn = "mailbox" /\ MailboxNext /\ AfterOneVisit
    /\ UNCHANGED <<turn, vehicleVars, binVars, personVars, alarmVars, mediaVars, serverVars>>
BinTurn ==
    /\ turn = "bins" /\ BinNext /\ TippedOrForgotten
    /\ UNCHANGED <<turn, vehicleVars, mailVars, personVars, alarmVars, mediaVars, serverVars>>
PersonsTurn ==
    /\ turn = "persons" /\ PersonsNext /\ OneTooEarly
    /\ UNCHANGED <<turn, vehicleVars, mailVars, binVars, alarmVars, mediaVars, serverVars>>
NotifyTurn ==
    /\ turn = "notify" /\ NotifyNext /\ FaintComesAlone
    /\ UNCHANGED <<turn, deterrenceVars, loiterVars, suspectVars, plVars, sceneVars, mediaVars, serverVars>>
DeterrenceTurn ==
    /\ turn = "deterrence" /\ DeterrenceNext
    /\ UNCHANGED <<turn, notifyVars, loiterVars, suspectVars, plVars, sceneVars, mediaVars, serverVars>>
LoiterTurn ==
    /\ turn = "loitering" /\ LoiterNext
    /\ UNCHANGED <<turn, notifyVars, deterrenceVars, suspectVars, plVars, sceneVars, mediaVars, serverVars>>
SuspectTurn ==
    /\ turn = "suspicious" /\ SuspectNext /\ StrangerStaysOne
    /\ UNCHANGED <<turn, notifyVars, deterrenceVars, loiterVars, plVars, sceneVars, mediaVars, serverVars>>
PipelineTurn ==
    /\ turn = "pipeline" /\ PlNext /\ OneUpset
    /\ UNCHANGED <<turn, notifyVars, deterrenceVars, loiterVars, suspectVars, sceneVars, mediaVars, serverVars>>
ClipsTurn ==
    /\ turn = "clips" /\ ClipsNext /\ OnePhotoMissing
    /\ UNCHANGED <<turn, retentionVars, segmentVars, eufyVars, edgeVars, sceneVars, alarmVars, serverVars>>
RetentionTurn ==
    /\ turn = "retention" /\ RetentionNext
    /\ UNCHANGED <<turn, clipVars, segmentVars, eufyVars, edgeVars, sceneVars, alarmVars, serverVars>>
SegmentsTurn ==
    /\ turn = "segments" /\ SegmentsNext
    /\ UNCHANGED <<turn, clipVars, retentionVars, eufyVars, edgeVars, sceneVars, alarmVars, serverVars>>
EufyTurn ==
    /\ turn = "eufy" /\ EufyNext /\ QuietSocket
    /\ UNCHANGED <<turn, clipVars, retentionVars, segmentVars, edgeVars, sceneVars, alarmVars, serverVars>>
EdgeTurn ==
    /\ turn = "edge" /\ EdgeNext /\ OneOutOfReach
    /\ UNCHANGED <<turn, clipVars, retentionVars, segmentVars, eufyVars, sceneVars, alarmVars, serverVars>>
AccountsTurn ==
    /\ turn = "accounts" /\ AcNext
    /\ UNCHANGED <<turn, goVars, pvVars, dgVars, wdVars, sceneVars, alarmVars, mediaVars>>
GoogleTurn ==
    /\ turn = "google" /\ GoNext
    /\ UNCHANGED <<turn, acVars, pvVars, dgVars, wdVars, sceneVars, alarmVars, mediaVars>>
ProvidersTurn ==
    /\ turn = "providers" /\ ProvidersNext
    /\ UNCHANGED <<turn, acVars, goVars, dgVars, wdVars, sceneVars, alarmVars, mediaVars>>
DigestTurn ==
    /\ turn = "digest" /\ DigestNext
    /\ UNCHANGED <<turn, acVars, goVars, pvVars, wdVars, sceneVars, alarmVars, mediaVars>>
DetectorTurn ==
    /\ turn = "detector" /\ WatchdogNext
    /\ UNCHANGED <<turn, acVars, goVars, pvVars, dgVars, sceneVars, alarmVars, mediaVars>>

HouseholdNext ==
    \/ VehicleTurn \/ MailboxTurn \/ BinTurn \/ PersonsTurn \/ NotifyTurn \/ DeterrenceTurn
    \/ ClipsTurn \/ RetentionTurn \/ SegmentsTurn \/ EufyTurn \/ EdgeTurn \/ LoiterTurn
    \/ SuspectTurn \/ PipelineTurn \/ AccountsTurn \/ GoogleTurn \/ ProvidersTurn
    \/ DigestTurn \/ DetectorTurn

\* What tells two states apart: the variables of the subsystem that runs, as the others
\* stay as they began.
HouseholdView ==
    <<turn,
      CASE turn = "vehicles" -> vehicleVars
        [] turn = "mailbox" -> mailVars
        [] turn = "bins" -> binVars
        [] turn = "persons" -> personVars
        [] turn = "notify" -> notifyVars
        [] turn = "deterrence" -> deterrenceVars
        [] turn = "clips" -> clipVars
        [] turn = "retention" -> retentionVars
        [] turn = "segments" -> segmentVars
        [] turn = "eufy" -> eufyVars
        [] turn = "edge" -> edgeVars
        [] turn = "loitering" -> loiterVars
        [] turn = "suspicious" -> suspectVars
        [] turn = "pipeline" -> plVars
        [] turn = "accounts" -> acVars
        [] turn = "google" -> goVars
        [] turn = "providers" -> pvVars
        [] turn = "digest" -> dgVars
        [] OTHER -> wdVars>>

================================================================================
