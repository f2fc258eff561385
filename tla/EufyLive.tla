-------------------------------- MODULE EufyLive --------------------------------
(***************************************************************************)
(* Livestreams of one battery doorbell: the adapter's client of the bridge *)
(* (apps/eufy-edge/eufy_ws.py) and what the adapter does with it (app.py): *)
(* viewers that subscribe and leave, /live calls whose viewer may never    *)
(* come, and the recorder, which waits for a picture first.                *)
(*                                                                         *)
(* Commands go to the bridge and results and events come back over one     *)
(* socket, each way in order; tasks are interleaved where they await: a    *)
(* result is there before its task runs on, and a call that was given up   *)
(* may still be obeyed.  The bridge is external: it carries out commands   *)
(* in order, and answers a start of a device that streams with "already",  *)
(* which counts as success.                                                *)
(***************************************************************************)
EXTENDS Integers, Sequences

CONSTANTS
    ElTasks,      \* requests and recordings that may run at a time
    ElStreams,    \* bound: Livestream objects made
    ElWire,       \* bound: messages on the socket, each way
    ElMishaps,    \* bound: lost sockets, refused commands and timeouts
    ElNobody      \* for whom a result is that came too late

ASSUME EufyAssumption ==
    {ElStreams, ElWire, ElMishaps} \subseteq Nat /\ ElWire > 1 /\ ElNobody \notin ElTasks

VARIABLES
    streams,   \* the Livestream objects
    current,   \* _livestreams[serial]: 0 for none
    request,   \* what each task does, where it awaits, and its stream
    picture,   \* whether a viewer's bytes begin with a keyframe
    commands,  \* on their way to the bridge: who sent what
    news,      \* on their way from it
    awake,     \* the device streams
    missed,    \* history: tasks whose stream was taken away before they ran on, or
               \* was forgotten under their eyes
    adrift,    \* history: a stream was let go of although the device streams, or will
    elMishaps

eufyVars == <<streams, current, request, picture, commands, news, awake, missed, adrift, elMishaps>>

StreamIds  == 1..ElStreams
NoStream   == [made |-> FALSE, started |-> FALSE, closed |-> FALSE, queues |-> {}, waiting |-> {},
               gop |-> FALSE, keyframe |-> FALSE, idle |-> FALSE]
ElIdle     == [does |-> "none", pc |-> "idle", stream |-> 0]
Unmade     == {s \in StreamIds : ~streams[s].made}
NewStream  == CHOOSE s \in Unmade : TRUE
HasRoomFor(q)    == Len(q) < ElWire
ElMishap   == elMishaps < ElMishaps /\ elMishaps' = elMishaps + 1
At(t, pc)  == [request EXCEPT ![t].pc = pc]

\* close: every queue ends, the idle task is cancelled, and who waits is woken.
Closed(s) == [streams[s] EXCEPT !.closed = TRUE, !.queues = {}, !.waiting = {}, !.gop = FALSE,
                                !.keyframe = TRUE, !.idle = FALSE]

\* Tasks that were promised stream s, or wait to hear whether they are.
Callers(s) == {t \in ElTasks : request[t].stream = s /\ request[t].pc \in {"asked", "granted"}}
Wakeful    == awake \/ \E i \in DOMAIN commands : commands[i].what = "start"

\* --- start_livestream --------------------------------------------------------------

\* add_subscriber: primed with the current GOP, or left waiting for the next one.
AddSubscriber(st, t) ==
    [st EXCEPT !.queues = @ \union {t}, !.waiting = IF st.gop THEN @ ELSE @ \union {t}]

\* A task has stream s, which is as st now: without an await a viewer subscribes to
\* it and /live answers; the recorder waits for a keyframe.
Enter(t, does, s, st) ==
    /\ streams' = [streams EXCEPT ![s] = IF does = "view" THEN AddSubscriber(st, t) ELSE st]
    /\ picture' = [picture EXCEPT ![t] = IF does = "view" /\ st.gop THEN "whole" ELSE "none"]
    /\ request' = [request EXCEPT ![t] =
          IF does = "live" THEN ElIdle
          ELSE [does |-> does, stream |-> s, pc |-> IF does = "view" THEN "watch" ELSE "has"]]

\* A task asks for the stream: the one that has started, or one that it starts.
StartLivestream(t, does) ==
    /\ request[t] = ElIdle
    /\ \/ /\ current # 0 /\ streams[current].started
          /\ Enter(t, does, current, streams[current]) /\ UNCHANGED <<current, commands>>
       \/ /\ IF current = 0 THEN Unmade # {} ELSE ~streams[current].started
          /\ HasRoomFor(commands) /\ commands' = Append(commands, [what |-> "start", by |-> t])
          /\ current' = IF current = 0 THEN NewStream ELSE current
          /\ streams' = [streams EXCEPT ![current'].made = TRUE]
          /\ request' = [request EXCEPT ![t] = [does |-> does, stream |-> current', pc |-> "asked"]]
          /\ UNCHANGED picture
    /\ missed' = missed \ {t}
    /\ UNCHANGED <<news, awake, adrift, elMishaps>>

\* Its start succeeded: the stream, whatever became of it since, has started, and is
\* stopped again if nobody comes to watch it.
BegunUnminded(st) == [st EXCEPT !.started = TRUE]  \* mutant: nothing waits for a viewer
Begun(st) == [st EXCEPT !.started = TRUE, !.idle = @ \/ st.queues = {}]
Granted(t) ==
    /\ request[t].pc = "granted"
    /\ Enter(t, request[t].does, request[t].stream, Begun(streams[request[t].stream]))
    /\ UNCHANGED <<current, commands, news, awake, missed, adrift, elMishaps>>

\* It was refused or took too long: whichever stream is registered now is forgotten,
\* viewers and all. It is not closed, and the bridge is not told.
DropStream(t) ==
    /\ current' = 0 /\ request' = [request EXCEPT ![t] = ElIdle]
    /\ missed' = IF current = 0 THEN missed
                 ELSE missed \union (Callers(current) \ {t}) \union streams[current].queues
    /\ adrift' = Wakeful
Denied(t) ==
    /\ request[t].pc = "denied" /\ DropStream(t)
    /\ UNCHANGED <<streams, picture, commands, news, awake, elMishaps>>

\* No result within COMMAND_TIMEOUT_SECONDS; the bridge may obey all the same, and
\* its result is for nobody. A stop that takes too long is left at that.
TooLate(t, what, key) == IF what[key] = t THEN [what EXCEPT ![key] = ElNobody] ELSE what
TimesOut(t) ==
    /\ request[t].pc \in {"asked", "stopping"} /\ ElMishap
    /\ commands' = [i \in DOMAIN commands |-> TooLate(t, commands[i], "by")]
    /\ news' = [i \in DOMAIN news |-> TooLate(t, news[i], "for")]
    /\ IF request[t].pc = "asked" THEN DropStream(t)
       ELSE request' = [request EXCEPT ![t] = ElIdle] /\ UNCHANGED <<current, missed, adrift>>
    /\ UNCHANGED <<streams, picture, awake>>

\* --- what a task does with the stream ------------------------------------------------

\* stop_livestream: the registered stream is forgotten and closed, then the bridge told.
StopLivestream(t) ==
    /\ HasRoomFor(commands) /\ commands' = Append(commands, [what |-> "stop", by |-> t])
    /\ current' = 0
    /\ streams' = IF current = 0 THEN streams ELSE [streams EXCEPT ![current] = Closed(current)]
    /\ missed' = missed \union Callers(current)

\* unsubscribe: the viewer left, or its queue ended. It looks at the stream that
\* is registered now, which may be another than its own.
LastToLeave(t) == current # 0 /\ streams[current].queues \subseteq {t}
Unsubscribe(t) ==
    /\ request[t].pc = "watch"
    /\ IF LastToLeave(t) THEN StopLivestream(t) /\ request' = At(t, "stopping")
       ELSE /\ streams' = IF current = 0 THEN streams
                          ELSE [streams EXCEPT ![current].queues = @ \ {t}, ![current].waiting = @ \ {t}]
            /\ request' = [request EXCEPT ![t] = ElIdle]
            /\ UNCHANGED <<current, commands, missed>>
    /\ picture' = [picture EXCEPT ![t] = "none"]
    /\ UNCHANGED <<news, awake, adrift, elMishaps>>

\* _record: a keyframe came and go2rtc takes over as a viewer, or the stream was
\* closed, or the wait is over; then it is stopped unless somebody watches it.
Recorded(t) ==
    LET s == request[t].stream IN
    /\ request[t].pc = "has" /\ request[t].does = "record"
    /\ IF (streams[s].keyframe /\ ~streams[s].closed) \/ streams[s].queues # {} \/ current # s
       THEN request' = [request EXCEPT ![t] = ElIdle] /\ UNCHANGED <<streams, current, commands, missed>>
       ELSE StopLivestream(t) /\ request' = At(t, "stopping")
    /\ UNCHANGED <<picture, news, awake, adrift, elMishaps>>

\* _stop_if_idle
StopIfIdle(t, s) ==
    /\ streams[s].idle /\ request[t] = ElIdle
    /\ IF current = s /\ streams[s].queues = {}
       THEN StopLivestream(t) /\ request' = At(t, "stopping")
       ELSE /\ streams' = [streams EXCEPT ![s].idle = FALSE]
            /\ UNCHANGED <<current, commands, request, missed>>
    /\ UNCHANGED <<picture, news, awake, adrift, elMishaps>>

\* --- the bridge ------------------------------------------------------------------------

BridgeObeys ==
    /\ commands # <<>> /\ HasRoomFor(news)
    /\ LET c == Head(commands) IN
       \/ /\ c.what = "start" /\ awake' = TRUE
          /\ news' = Append(news, [what |-> "started", for |-> c.by]) /\ UNCHANGED elMishaps
       \/ /\ c.what = "start" /\ ElMishap /\ UNCHANGED awake
          /\ news' = Append(news, [what |-> "refused", for |-> c.by])
       \/ /\ c.what = "stop" /\ awake' = FALSE /\ UNCHANGED elMishaps
          /\ awake => Len(news) + 2 <= ElWire
          /\ news' = news \o (IF awake THEN <<[what |-> "stopped", for |-> ElNobody]>> ELSE <<>>)
                          \o <<[what |-> "answered", for |-> c.by]>>
    /\ commands' = Tail(commands) /\ adrift' = (adrift /\ Wakeful')
    /\ UNCHANGED <<streams, current, request, picture, missed>>

\* A chunk of video, or the device falls asleep by itself.
DeviceSends(what) ==
    /\ awake /\ HasRoomFor(news) /\ news' = Append(news, [what |-> what, for |-> ElNobody])
    /\ awake' = (what # "stopped")
    /\ UNCHANGED <<streams, current, request, picture, commands, missed, elMishaps>>
    /\ adrift' = (adrift /\ Wakeful')

\* --- what comes back (_dispatch) ---------------------------------------------------------

\* publish: a GOP that grows too large is dropped; who waits gets the next keyframe.
Published(st, key, drop) ==
    [st EXCEPT !.gop = (key \/ @) /\ ~drop, !.keyframe = @ \/ key,
               !.waiting = IF key THEN {} ELSE @]

Chunk(key) ==
    IF current = 0 THEN UNCHANGED <<streams, picture>>
    ELSE LET st == streams[current] IN
         /\ \E drop \in {FALSE, ~key} :
               streams' = [streams EXCEPT ![current] = Published(st, key, drop)]
         /\ picture' = [t \in ElTasks |->
               IF t \in st.queues /\ (key \/ t \notin st.waiting) /\ picture[t] = "none"
               THEN IF key THEN "whole" ELSE "torn" ELSE picture[t]]

\* A result wakes its task, if that still waits for it.
ResultFor(t, waits, next) ==
    /\ request' = IF t \in ElTasks /\ request[t].pc = waits
                  THEN IF next = "idle" THEN [request EXCEPT ![t] = ElIdle] ELSE At(t, next)
                  ELSE request
    /\ UNCHANGED <<streams, current, picture, missed, adrift>>

Dispatch ==
    /\ news # <<>> /\ news' = Tail(news)
    /\ LET n == Head(news) IN
       \/ n.what = "started" /\ ResultFor(n.for, "asked", "granted")
       \/ n.what = "refused" /\ ResultFor(n.for, "asked", "denied")
       \/ n.what = "answered" /\ ResultFor(n.for, "stopping", "idle")
       \/ /\ n.what = "stopped" /\ current' = 0
          /\ streams' = IF current = 0 THEN streams ELSE [streams EXCEPT ![current] = Closed(current)]
          /\ missed' = missed \union Callers(current) /\ adrift' = Wakeful
          /\ UNCHANGED <<request, picture>>
       \/ /\ n.what \in {"key", "delta"} /\ Chunk(n.what = "key")
          /\ UNCHANGED <<request, current, missed, adrift>>
    /\ UNCHANGED <<commands, awake, elMishaps>>

\* The socket is lost: pending calls fail, every stream is closed; a bridge that
\* nobody listens to lets the device sleep. A new call connects again.
SocketLost ==
    /\ ElMishap
    /\ streams' = [s \in StreamIds |-> IF s = current THEN Closed(s) ELSE streams[s]]
    /\ current' = 0 /\ commands' = <<>> /\ news' = <<>> /\ awake' = FALSE
    /\ request' = [t \in ElTasks |-> IF request[t].pc \in {"asked", "stopping"} THEN ElIdle ELSE request[t]]
    /\ missed' = missed \union Callers(current) /\ adrift' = FALSE
    /\ UNCHANGED picture

EufyInit ==
    /\ streams = [s \in StreamIds |-> NoStream] /\ current = 0
    /\ request = [t \in ElTasks |-> ElIdle] /\ picture = [t \in ElTasks |-> "none"]
    /\ commands = <<>> /\ news = <<>> /\ awake = FALSE /\ elMishaps = 0
    /\ missed = {} /\ adrift = FALSE

EufyNext ==
    \/ \E t \in ElTasks :
          \/ \E does \in {"view", "live", "record"} : StartLivestream(t, does)
          \/ Granted(t) \/ Denied(t) \/ TimesOut(t) \/ Unsubscribe(t) \/ Recorded(t)
          \/ \E s \in StreamIds : StopIfIdle(t, s)
    \/ BridgeObeys \/ Dispatch \/ SocketLost
    \/ \E what \in {"key", "delta", "stopped"} : DeviceSends(what)

EufySpec == EufyInit /\ [][EufyNext]_eufyVars

\* --- properties ----------------------------------------------------------------------------

\* Every variable has its type.
EufyTypeOK ==
    /\ current \in 0..ElStreams /\ awake \in BOOLEAN /\ elMishaps \in 0..ElMishaps
    /\ picture \in [ElTasks -> {"none", "whole", "torn"}]
    /\ \A t \in ElTasks : request[t].pc \in {"idle", "asked", "granted", "denied", "has", "watch", "stopping"}
    /\ \A s \in StreamIds : streams[s].waiting \subseteq streams[s].queues
    /\ (current # 0 => streams[current].made /\ ~streams[current].closed)
    /\ Len(commands) <= ElWire /\ Len(news) <= ElWire

\* What a viewer gets begins with a keyframe, whenever it joins and whatever GOP
\* is cached then (add_subscriber and publish).
StartsAtKeyframe == \A t \in ElTasks : picture[t] # "torn"

\* A viewer waits for bytes of the stream that is registered, or was told that its own
\* has ended; unless that was closed, or forgotten, before its call ran on, or was
\* forgotten when another start of the device failed (start_livestream, subscribe).
ViewersAreFed ==
    \A t \in ElTasks : request[t].pc = "watch" =>
        LET s == request[t].stream IN
        \/ s = current /\ t \in streams[s].queues
        \/ streams[s].closed /\ t \notin streams[s].queues
        \/ t \in missed

\* The stream that is registered is looked after: a task watches it, or still has to
\* hear whether it starts, or it is stopped when nobody has come (_stop_if_idle).
StreamIsMinded ==
    current # 0 =>
        \/ streams[current].idle
        \/ \E t \in ElTasks : /\ request[t].stream = current
                             /\ request[t].pc \in {"asked", "granted", "denied", "watch"}

\* The device streams for nobody only until the stop on its way to the bridge; unless
\* a start failed or a stop was reported although it streams, or is about to
\* ("cannot keep the battery doorbell awake indefinitely" is said without the unless).
AwakeForSomebody ==
    awake /\ current = 0 => adrift \/ \E i \in DOMAIN commands : commands[i].what = "stop"

\* What viewers see begins at a keyframe and goes on, and the device streams for them;
\* the exceptions are the ones named.
StreamsAreServed == StartsAtKeyframe /\ ViewersAreFed /\ StreamIsMinded /\ AwakeForSomebody
================================================================================
