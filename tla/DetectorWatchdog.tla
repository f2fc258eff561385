-------------------------- MODULE DetectorWatchdog --------------------------
(***************************************************************************)
(* The zero-detection watchdog (services/detector_watchdog.py): one window *)
(* of evidence per camera, over the frames the detector ran on.            *)
(***************************************************************************)
EXTENDS Integers

CONSTANTS WdCameras,
          BlackoutWindow,   \* settings.detector_blackout_window_seconds
          MinFrames,        \* settings.detector_blackout_min_frames
          WdHorizon         \* bound: the last instant looked at

ASSUME WatchdogAssumption ==
    BlackoutWindow \in Nat /\ MinFrames \in Nat \ {0} /\ WdHorizon \in Nat

VARIABLES moment,     \* time.monotonic()
          windows,    \* _cameras: a window per camera, NoWindow before its first frame
          silence     \* history: each camera's frames since its last box, by instant

wdVars == <<moment, windows, silence>>

NoWindow == [started |-> -1, frames |-> 0, blackout |-> FALSE]
SilenceFrom(at) == [from |-> at, frames |-> 0, last |-> at]

WatchdogInit == /\ moment = 0
                /\ windows = [c \in WdCameras |-> NoWindow]
                /\ silence = [c \in WdCameras |-> SilenceFrom(-1)]

WatchdogTick == /\ moment < WdHorizon
                /\ moment' = moment + 1
                /\ UNCHANGED <<windows, silence>>

\* The window this frame falls in; it starts with the first frame.  Frames are
\* counted up to MinFrames: beyond, nothing tells their numbers apart.
Counted(w) == [w EXCEPT !.started = IF @ = -1 THEN moment ELSE @,
                        !.frames = IF @ < MinFrames THEN @ + 1 ELSE @]

\* A box proves the detector works for this camera alone.
AllRestarted(c) ==  \* mutant: one working camera vouches for every other
    [k \in WdCameras |-> IF windows[k] = NoWindow /\ k # c THEN NoWindow
                         ELSE [NoWindow EXCEPT !.started = moment]]
Restarted(c) == [windows EXCEPT ![c] = [NoWindow EXCEPT !.started = moment]]

\* _evaluate
Evaluated(w) ==
    IF moment - w.started >= BlackoutWindow /\ w.frames >= MinFrames
    THEN [w EXCEPT !.blackout = TRUE] ELSE w

RecordFrame(c, boxes) ==
    /\ windows' = IF boxes THEN Restarted(c)
                  ELSE [windows EXCEPT ![c] = Evaluated(Counted(@))]
    /\ silence' = [silence EXCEPT
                     ![c] = IF boxes THEN SilenceFrom(moment)
                            ELSE [from   |-> IF @.from = -1 THEN moment ELSE @.from,
                                  frames |-> IF @.frames < MinFrames THEN @.frames + 1 ELSE @.frames,
                                  last   |-> moment]]
    /\ UNCHANGED moment

\* A restart of the process forgets every window.
WatchdogReset == /\ windows' = [c \in WdCameras |-> NoWindow]
                 /\ silence' = [c \in WdCameras |-> SilenceFrom(-1)]
                 /\ UNCHANGED moment

WatchdogNext == \/ WatchdogTick \/ WatchdogReset
                \/ \E c \in WdCameras, boxes \in BOOLEAN : RecordFrame(c, boxes)

WatchdogSpec == WatchdogInit /\ [][WatchdogNext]_wdVars

-----------------------------------------------------------------------------
\* Types of the watchdog's state.
WatchdogTypeOK ==
    /\ moment \in 0 .. WdHorizon
    /\ windows \in [WdCameras -> [started : -1 .. WdHorizon, frames : 0 .. MinFrames,
                                  blackout : BOOLEAN]]
    /\ silence \in [WdCameras -> [from : -1 .. WdHorizon, frames : 0 .. MinFrames,
                                  last : -1 .. WdHorizon]]

\* A camera is reported blind exactly when the detector has returned no box on
\* it, over frames enough and for the whole window, whatever the other cameras
\* see in the meantime: none of them masks it, and none makes it look blind.
BlindIsNoticed ==
    \A c \in WdCameras :
       windows[c].blackout <=> /\ silence[c].frames >= MinFrames
                               /\ silence[c].last - silence[c].from >= BlackoutWindow
=============================================================================
