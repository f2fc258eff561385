------------------------------ MODULE MediaProofs ------------------------------
(***************************************************************************)
(* Proofs about what is recorded, streamed and told of it: the detector's  *)
(* watchdog, the digests, the clips, their segments, the doorbell's        *)
(* livestreams and the recorder's channels, for every number of cameras,   *)
(* writers, events, tasks, segments and channels.                          *)
(***************************************************************************)
EXTENDS DetectorWatchdog, Digest, Clips, Segments, EufyLive, EdgeLiveness, FiniteSetTheorems,
        SequenceTheorems, NumberLemmas, TLAPS

-------------------------------------------------------------------------------
(* DetectorWatchdog                                                        *)

\* A camera's window is its silence, and no more of it.
WindowIsSilence ==
    \A c \in WdCameras :
        /\ windows[c].started = silence[c].from /\ windows[c].frames = silence[c].frames
        /\ silence[c].from = -1 => silence[c].frames = 0
        /\ silence[c].last <= moment

WatchdogInv == WatchdogTypeOK /\ WindowIsSilence /\ BlindIsNoticed

Windows == [started : -1 .. WdHorizon, frames : 0 .. MinFrames, blackout : BOOLEAN]

\* What counting a frame makes of a window.
LEMMA CountedWindow ==
    ASSUME NEW old \in Windows, moment \in 0 .. WdHorizon
    PROVE  /\ Counted(old) \in Windows
           /\ Counted(old).started = (IF old.started = -1 THEN moment ELSE old.started)
           /\ Counted(old).frames = (IF old.frames < MinFrames THEN old.frames + 1 ELSE old.frames)
           /\ Counted(old).blackout = old.blackout
<1>1. MinFrames \in Nat \ {0} /\ WdHorizon \in Nat
    BY WatchdogAssumption
<1>2. /\ (IF old.started = -1 THEN moment ELSE old.started) \in -1 .. WdHorizon
      /\ (IF old.frames < MinFrames THEN old.frames + 1 ELSE old.frames) \in 0 .. MinFrames
    BY <1>1 DEF Windows
<1>3. QED
    BY <1>2 DEF Counted, Windows

\* What looking at the window makes of it.
LEMMA EvaluatedWindow ==
    ASSUME NEW w \in Windows
    PROVE  /\ Evaluated(w) \in Windows
           /\ Evaluated(w).started = w.started /\ Evaluated(w).frames = w.frames
           /\ moment - w.started >= BlackoutWindow /\ w.frames >= MinFrames => Evaluated(w).blackout
           /\ Evaluated(w).blackout
                 => w.blackout \/ (moment - w.started >= BlackoutWindow /\ w.frames >= MinFrames)
           /\ w.blackout => Evaluated(w).blackout
<1>1. CASE moment - w.started >= BlackoutWindow /\ w.frames >= MinFrames
    <2>1. Evaluated(w) = [w EXCEPT !.blackout = TRUE]
        BY <1>1 DEF Evaluated
    <2>2. QED
        BY <1>1, <2>1 DEF Windows
<1>2. CASE ~(moment - w.started >= BlackoutWindow /\ w.frames >= MinFrames)
    BY <1>2 DEF Evaluated
<1>3. QED
    BY <1>1, <1>2

\* One frame without a box, in one camera's window and in its silence.
LEMMA FrameCounted ==
    ASSUME WatchdogInv, NEW c \in WdCameras
    PROVE  LET w == Evaluated(Counted(windows[c]))
               s == [from   |-> IF silence[c].from = -1 THEN moment ELSE silence[c].from,
                     frames |-> IF silence[c].frames < MinFrames THEN silence[c].frames + 1
                                ELSE silence[c].frames,
                     last   |-> moment]
           IN  /\ w \in Windows
               /\ s \in [from : -1 .. WdHorizon, frames : 0 .. MinFrames, last : -1 .. WdHorizon]
               /\ w.started = s.from /\ w.frames = s.frames /\ s.from # -1 /\ s.last = moment
               /\ w.blackout <=> s.frames >= MinFrames /\ s.last - s.from >= BlackoutWindow
<1> DEFINE old == windows[c]
           gone == silence[c]
           new == Counted(old)
           w == Evaluated(new)
           from == IF gone.from = -1 THEN moment ELSE gone.from
           frames == IF gone.frames < MinFrames THEN gone.frames + 1 ELSE gone.frames
<1>1. /\ moment \in 0 .. WdHorizon /\ old \in Windows
      /\ gone \in [from : -1 .. WdHorizon, frames : 0 .. MinFrames, last : -1 .. WdHorizon]
      /\ old.started = gone.from /\ old.frames = gone.frames
      /\ gone.from = -1 => gone.frames = 0
      /\ gone.last <= moment
    BY DEF WatchdogInv, WatchdogTypeOK, WindowIsSilence, Windows
<1>2. old.blackout <=> gone.frames >= MinFrames /\ gone.last - gone.from >= BlackoutWindow
    BY DEF WatchdogInv, BlindIsNoticed
<1> HIDE DEF old, gone
<1>3. from \in 0 .. WdHorizon /\ frames \in 0 .. MinFrames /\ from # -1
    BY <1>1, WatchdogAssumption
<1>4. new \in Windows /\ new.started = from /\ new.frames = frames /\ new.blackout = old.blackout
    BY <1>1, CountedWindow
<1> HIDE DEF new
<1>5. /\ w \in Windows /\ w.started = new.started /\ w.frames = new.frames
      /\ moment - new.started >= BlackoutWindow /\ new.frames >= MinFrames => w.blackout
      /\ w.blackout
            => new.blackout \/ (moment - new.started >= BlackoutWindow /\ new.frames >= MinFrames)
    BY <1>4, EvaluatedWindow
<1>6. gone.frames >= MinFrames /\ gone.last - gone.from >= BlackoutWindow
         => moment - from >= BlackoutWindow /\ frames >= MinFrames
    BY <1>1, WatchdogAssumption
<1> HIDE DEF w, from, frames
<1>7. w.blackout <=> frames >= MinFrames /\ moment - from >= BlackoutWindow
    BY <1>2, <1>4, <1>5, <1>6
<1>8. w.started = from /\ w.frames = frames
    BY <1>4, <1>5
<1> DEFINE s == [from |-> from, frames |-> frames, last |-> moment]
<1>9. /\ s \in [from : -1 .. WdHorizon, frames : 0 .. MinFrames, last : -1 .. WdHorizon]
      /\ s.from = from /\ s.frames = frames /\ s.last = moment
    BY <1>1, <1>3
<1>10. /\ w \in Windows
       /\ s \in [from : -1 .. WdHorizon, frames : 0 .. MinFrames, last : -1 .. WdHorizon]
       /\ w.started = s.from /\ w.frames = s.frames /\ s.from # -1 /\ s.last = moment
       /\ w.blackout <=> s.frames >= MinFrames /\ s.last - s.from >= BlackoutWindow
    <2> HIDE DEF s
    <2>1. QED
        BY <1>3, <1>5, <1>7, <1>8, <1>9
<1>11. QED
    BY <1>10 DEF s, w, new, from, frames, old, gone

LEMMA WatchdogStep ==
    ASSUME WatchdogInv, [WatchdogNext]_wdVars
    PROVE  WatchdogInv'
<1> USE WatchdogAssumption
<1>1. CASE WatchdogTick
    BY <1>1 DEF WatchdogTick, WatchdogInv, WatchdogTypeOK, WindowIsSilence, BlindIsNoticed
<1>2. CASE WatchdogReset
    BY <1>2 DEF WatchdogReset, NoWindow, SilenceFrom, WatchdogInv, WatchdogTypeOK, WindowIsSilence,
                BlindIsNoticed
<1>3. ASSUME NEW c \in WdCameras, NEW w, NEW s,
             windows' = [windows EXCEPT ![c] = w], silence' = [silence EXCEPT ![c] = s],
             moment' = moment,
             w \in [started : -1 .. WdHorizon, frames : 0 .. MinFrames, blackout : BOOLEAN],
             s \in [from : -1 .. WdHorizon, frames : 0 .. MinFrames, last : -1 .. WdHorizon],
             w.started = s.from, w.frames = s.frames, s.from # -1, s.last = moment,
             w.blackout <=> s.frames >= MinFrames /\ s.last - s.from >= BlackoutWindow
      PROVE  WatchdogInv'
    <2>1. WatchdogTypeOK'
        BY <1>3 DEF WatchdogInv, WatchdogTypeOK
    <2>2. /\ windows'[c] = w /\ silence'[c] = s
          /\ \A k \in WdCameras : k # c => windows'[k] = windows[k] /\ silence'[k] = silence[k]
        BY <1>3 DEF WatchdogInv, WatchdogTypeOK
    <2>3. moment \in Int
        BY DEF WatchdogInv, WatchdogTypeOK
    <2>4. WindowIsSilence'
        BY <1>3, <2>2, <2>3 DEF WatchdogInv, WindowIsSilence
    <2>5. BlindIsNoticed'
        BY <1>3, <2>2 DEF WatchdogInv, BlindIsNoticed
    <2>6. QED
        BY <2>1, <2>4, <2>5 DEF WatchdogInv
<1>4. ASSUME NEW c \in WdCameras, RecordFrame(c, TRUE)
      PROVE  WatchdogInv'
    <2> DEFINE w == [NoWindow EXCEPT !.started = moment]
               s == SilenceFrom(moment)
    <2>1. moment \in 0 .. WdHorizon
        BY DEF WatchdogInv, WatchdogTypeOK
    <2>2. /\ w \in [started : -1 .. WdHorizon, frames : 0 .. MinFrames, blackout : BOOLEAN]
          /\ s \in [from : -1 .. WdHorizon, frames : 0 .. MinFrames, last : -1 .. WdHorizon]
          /\ w.started = s.from /\ w.frames = s.frames /\ s.from # -1 /\ s.last = moment
          /\ w.blackout <=> s.frames >= MinFrames /\ s.last - s.from >= BlackoutWindow
        <3>1. NoWindow \in Windows /\ NoWindow.frames = 0 /\ ~NoWindow.blackout
            BY DEF NoWindow, Windows
        <3>2. s = [from |-> moment, frames |-> 0, last |-> moment] /\ ~(0 >= MinFrames)
            BY DEF SilenceFrom
        <3> HIDE DEF s
        <3>3. /\ w.started = moment /\ w.frames = 0 /\ ~w.blackout
              /\ w \in [started : -1 .. WdHorizon, frames : 0 .. MinFrames, blackout : BOOLEAN]
            BY <2>1, <3>1 DEF Windows
        <3>4. /\ s.from = moment /\ s.frames = 0 /\ s.last = moment
              /\ s \in [from : -1 .. WdHorizon, frames : 0 .. MinFrames, last : -1 .. WdHorizon]
            BY <2>1, <3>2
        <3> HIDE DEF w
        <3>5. QED
            BY <2>1, <3>2, <3>3, <3>4
    <2>3. /\ windows' = [windows EXCEPT ![c] = w] /\ silence' = [silence EXCEPT ![c] = s]
          /\ moment' = moment
        BY <1>4 DEF RecordFrame, Restarted
    <2> HIDE DEF w, s
    <2>4. QED
        BY <1>3, <2>2, <2>3
<1>5. ASSUME NEW c \in WdCameras, RecordFrame(c, FALSE)
      PROVE  WatchdogInv'
    <2> DEFINE w == Evaluated(Counted(windows[c]))
               s == [from   |-> IF silence[c].from = -1 THEN moment ELSE silence[c].from,
                     frames |-> IF silence[c].frames < MinFrames THEN silence[c].frames + 1
                                ELSE silence[c].frames,
                     last   |-> moment]
    <2>1. /\ windows' = [windows EXCEPT ![c] = w] /\ silence' = [silence EXCEPT ![c] = s]
          /\ moment' = moment
        BY <1>5 DEF RecordFrame
    <2>2. /\ w \in [started : -1 .. WdHorizon, frames : 0 .. MinFrames, blackout : BOOLEAN]
          /\ s \in [from : -1 .. WdHorizon, frames : 0 .. MinFrames, last : -1 .. WdHorizon]
          /\ w.started = s.from /\ w.frames = s.frames /\ s.from # -1 /\ s.last = moment
          /\ w.blackout <=> s.frames >= MinFrames /\ s.last - s.from >= BlackoutWindow
        BY FrameCounted DEF Windows
    <2> HIDE DEF w, s
    <2>3. QED
        BY <1>3, <2>1, <2>2
<1>6. CASE UNCHANGED wdVars
    BY <1>6 DEF wdVars, WatchdogInv, WatchdogTypeOK, WindowIsSilence, BlindIsNoticed
<1>7. QED
    BY <1>1, <1>2, <1>4, <1>5, <1>6 DEF WatchdogNext

\* A camera is reported blind exactly when its own detector has been silent
\* over frames enough and for the whole window (_evaluate and record_frame).
THEOREM BlindIsNoticedThroughout == WatchdogSpec => []BlindIsNoticed
<1>1. WatchdogInit => WatchdogInv
    BY WatchdogAssumption
    DEF WatchdogInit, NoWindow, SilenceFrom, WatchdogInv, WatchdogTypeOK, WindowIsSilence, BlindIsNoticed
<1>2. WatchdogInv /\ [WatchdogNext]_wdVars => WatchdogInv'
    BY WatchdogStep
<1>3. WatchdogInv => BlindIsNoticed
    BY DEF WatchdogInv
<1>4. QED
    BY <1>1, <1>2, <1>3, PTL DEF WatchdogSpec

-------------------------------------------------------------------------------
(* Digest                                                                  *)

\* A generation only overwrites a row for a refresh that was asked for, and
\* what it is about to store counts something.
DraftsAreKnown ==
    \A w \in Writers :
        /\ drafts[w].refresh => drafts[w].day \in refreshed
        /\ drafts[w].found => drafts[w].refresh
        /\ drafts[w].stage = "counted" => drafts[w].counted # NoDigest

\* What was answered is stored.
AnswersAreStored ==
    \A w \in Writers : \/ answers[w] = NoAnswer
                       \/ answers[w].day \in Days /\ digest[answers[w].day] # NoDigest

DigestInv == DigestTypeOK /\ DraftsAreKnown /\ AnswersAreStored /\ DigestsAgree

Drafts == [stage : {"none", "asked", "found", "counted"}, day : Days, refresh : BOOLEAN,
           found : BOOLEAN, counted : NoDigest .. DgEvents, next : BOOLEAN]

\* Where a generation leads: to none, or to the day before without a refresh.
LEMMA OverTyped ==
    ASSUME DigestTypeOK, NEW w \in Writers
    PROVE  Over(w) \in Drafts /\ ~Over(w).refresh /\ ~Over(w).found /\ Over(w).stage # "counted"
<1> USE DigestAssumption
<1>1. drafts[w] \in Drafts
    BY DEF DigestTypeOK, Drafts
<1>2. NoDraft \in Drafts
    BY DEF NoDraft, Drafts, Days, NoDigest
<1>3. drafts[w].day > 1 => drafts[w].day - 1 \in Days
    BY <1>1 DEF Drafts, Days
<1>4. QED
    BY <1>2, <1>3 DEF Over, NoDraft, Drafts

\* Only one generation moves on, and only its own answer is new.
LEMMA OneDraftMoves ==
    ASSUME DigestInv, NEW w \in Writers, NEW d \in Drafts, drafts' = [drafts EXCEPT ![w] = d],
           refreshed \subseteq refreshed', d.refresh => d.day \in refreshed',
           d.found => d.refresh, d.stage = "counted" => d.counted # NoDigest
    PROVE  DraftsAreKnown' /\ drafts' \in [Writers -> Drafts]
BY DEF DigestInv, DigestTypeOK, DraftsAreKnown, Drafts

LEMMA DigestStep ==
    ASSUME DigestInv, [DigestNext]_dgVars
    PROVE  DigestInv'
<1> USE DigestAssumption
<1>1. drafts \in [Writers -> Drafts]
    BY DEF DigestInv, DigestTypeOK, Drafts
<1>2. CASE EventHappens \/ Midnight \/ UNCHANGED dgVars
    <2>1. DigestTypeOK'
        <3>1. CASE EventHappens
            BY <3>1 DEF EventHappens, DigestInv, DigestTypeOK
        <3>2. CASE Midnight
            BY <3>2 DEF Midnight, DigestInv, DigestTypeOK, Days
        <3>3. CASE UNCHANGED dgVars
            BY <3>3 DEF dgVars, DigestInv, DigestTypeOK
        <3>4. QED
            BY <1>2, <3>1, <3>2, <3>3
    <2>2. UNCHANGED <<digest, drafts, answers, refreshed>>
        BY <1>2 DEF EventHappens, Midnight, dgVars
    <2>3. QED
        BY <2>1, <2>2 DEF DigestInv, DraftsAreKnown, AnswersAreStored, DigestsAgree
\* What a step of one generation that leaves the rows alone has to show.
<1>3. ASSUME NEW w \in Writers, NEW d \in Drafts, drafts' = [drafts EXCEPT ![w] = d],
             UNCHANGED <<today, happened, digest>>, generated' \in 0 .. DgRuns,
             refreshed \subseteq refreshed', refreshed' \subseteq Days, d.refresh => d.day \in refreshed',
             d.found => d.refresh, d.stage = "counted" => d.counted # NoDigest,
             \/ UNCHANGED answers
             \/ \E day \in Days : /\ digest[day] # NoDigest
                                  /\ answers' = [answers EXCEPT ![w] = [day |-> day, counted |-> digest[day]]]
      PROVE  DigestInv'
    <2>1. DraftsAreKnown' /\ drafts' \in [Writers -> Drafts]
        BY <1>3, OneDraftMoves
    <2>2. answers' \in [Writers -> [day : 0 .. DgDays, counted : NoDigest .. DgEvents]]
        <3>1. answers \in [Writers -> [day : 0 .. DgDays, counted : NoDigest .. DgEvents]]
              /\ \A day \in Days : day \in 0 .. DgDays /\ digest[day] \in NoDigest .. DgEvents
            BY DEF DigestInv, DigestTypeOK, Days
        <3>2. CASE UNCHANGED answers
            BY <3>1, <3>2
        <3>3. ASSUME NEW day \in Days,
                     answers' = [answers EXCEPT ![w] = [day |-> day, counted |-> digest[day]]]
              PROVE  answers' \in [Writers -> [day : 0 .. DgDays, counted : NoDigest .. DgEvents]]
            BY <3>1, <3>3
        <3>4. QED
            BY <1>3, <3>2, <3>3
    <2>3. DigestTypeOK'
        BY <1>3, <2>1, <2>2 DEF DigestInv, DigestTypeOK, Drafts
    <2>4. \A x \in Writers :
             \/ answers'[x] = answers[x]
             \/ \E day \in Days : answers'[x].day = day /\ digest[day] # NoDigest
                                  /\ answers'[x].counted = digest[day]
        BY <1>3 DEF DigestInv, DigestTypeOK
    <2>5. AnswersAreStored' /\ DigestsAgree'
        BY <1>3, <2>4 DEF DigestInv, AnswersAreStored, DigestsAgree
    <2>6. QED
        BY <2>1, <2>3, <2>5 DEF DigestInv
<1>4. ASSUME NEW w \in Writers, NEW day \in Days, NEW refresh \in BOOLEAN, NEW next \in BOOLEAN,
             Asks(w, day, refresh, next)
      PROVE  DigestInv'
    <2> DEFINE d == [NoDraft EXCEPT !.stage = "asked", !.day = day, !.refresh = refresh, !.next = next]
    <2>1. d \in Drafts /\ d.refresh = refresh /\ d.day = day /\ ~d.found /\ d.stage = "asked"
        <3>1. NoDraft \in Drafts /\ ~NoDraft.found
            BY DEF NoDraft, Drafts, Days, NoDigest
        <3>2. QED
            BY <3>1 DEF Drafts
    <2>2. /\ drafts' = [drafts EXCEPT ![w] = d] /\ UNCHANGED <<today, happened, digest, answers>>
          /\ refreshed' = IF refresh THEN refreshed \cup {day} ELSE refreshed
        BY <1>4 DEF Asks
    <2>3. generated' \in 0 .. DgRuns /\ refreshed \subseteq Days
        BY <1>4 DEF Asks, DigestInv, DigestTypeOK
    <2> HIDE DEF d
    <2>4. refreshed \subseteq refreshed' /\ refreshed' \subseteq Days /\ (refresh => day \in refreshed')
        BY <2>2, <2>3
    <2>5. QED
        BY <1>3, <2>1, <2>2, <2>3, <2>4
<1>5. ASSUME NEW w \in Writers, Tick(w) \/ Request(w)
      PROVE  DigestInv'
    <2>1. today \in Days /\ 1 .. today \subseteq Days
        BY DEF DigestInv, DigestTypeOK, Days
    <2>2. QED
        BY <1>4, <1>5, <2>1 DEF Tick, Request
<1>6. ASSUME NEW w \in Writers, FindStored(w)
      PROVE  DigestInv'
    <2> DEFINE stored == digest[drafts[w].day]
    <2>1. drafts[w].day \in Days /\ drafts[w] \in Drafts /\ generated \in 0 .. DgRuns
          /\ refreshed \subseteq Days
        BY <1>1 DEF Drafts, DigestInv, DigestTypeOK
    <2>2. CASE stored # NoDigest /\ ~drafts[w].refresh
        <3>1. /\ answers' = [answers EXCEPT ![w] = [day |-> drafts[w].day, counted |-> stored]]
              /\ drafts' = [drafts EXCEPT ![w] = Over(w)]
              /\ UNCHANGED <<today, happened, digest, refreshed, generated>>
            BY <1>6, <2>2 DEF FindStored, Returns
        <3>2. Over(w) \in Drafts /\ ~Over(w).refresh /\ ~Over(w).found /\ Over(w).stage # "counted"
            BY OverTyped DEF DigestInv
        <3>3. QED
            BY <1>3, <2>1, <2>2, <3>1, <3>2
    <2>3. CASE ~(stored # NoDigest /\ ~drafts[w].refresh)
        <3> DEFINE d == [drafts[w] EXCEPT !.stage = "found", !.found = stored # NoDigest]
        <3>1. /\ drafts' = [drafts EXCEPT ![w] = d]
              /\ UNCHANGED <<today, happened, digest, refreshed, generated, answers>>
            BY <1>6, <2>3 DEF FindStored
        <3>2. d \in Drafts /\ d.refresh = drafts[w].refresh /\ d.day = drafts[w].day
              /\ d.found = (stored # NoDigest) /\ d.stage = "found"
            BY <2>1 DEF Drafts
        <3> HIDE DEF d
        <3>3. d.refresh => d.day \in refreshed
            BY <3>2 DEF DigestInv, DraftsAreKnown
        <3>4. QED
            BY <1>3, <2>1, <2>3, <3>1, <3>2, <3>3
    <2>4. QED
        BY <2>2, <2>3
<1>7. ASSUME NEW w \in Writers, CollectStats(w)
      PROVE  DigestInv'
    <2> DEFINE d == [drafts[w] EXCEPT !.stage = "counted", !.counted = happened[drafts[w].day]]
    <2>1. /\ drafts' = [drafts EXCEPT ![w] = d]
          /\ UNCHANGED <<today, happened, digest, refreshed, generated, answers>>
        BY <1>7 DEF CollectStats
    <2>2. drafts[w] \in Drafts /\ happened[drafts[w].day] \in 0 .. DgEvents
          /\ generated \in 0 .. DgRuns /\ refreshed \subseteq Days
        BY <1>1 DEF Drafts, DigestInv, DigestTypeOK
    <2>3. d \in Drafts /\ d.refresh = drafts[w].refresh /\ d.day = drafts[w].day
          /\ d.found = drafts[w].found /\ d.counted # NoDigest
        <3> DEFINE n == happened[drafts[w].day]
                   old == drafts[w]
        <3>1. n \in NoDigest .. DgEvents /\ n # NoDigest
            BY <2>2 DEF NoDigest
        <3>2. d = [old EXCEPT !.stage = "counted", !.counted = n] /\ old \in Drafts
            BY <2>2
        <3> HIDE DEF n, d, old
        <3>3. d \in Drafts /\ d.refresh = old.refresh /\ d.day = old.day /\ d.found = old.found
              /\ d.counted = n
            BY <3>1, <3>2 DEF Drafts
        <3>4. QED
            BY <3>1, <3>3 DEF old
    <2> HIDE DEF d
    <2>4. (d.refresh => d.day \in refreshed) /\ (d.found => d.refresh)
        BY <2>3 DEF DigestInv, DraftsAreKnown
    <2>5. QED
        BY <1>3, <2>1, <2>2, <2>3, <2>4
<1>8. ASSUME NEW w \in Writers, Store(w)
      PROVE  DigestInv'
    <2> DEFINE day == drafts[w].day
               mine == drafts[w].counted
    <2>1. /\ day \in Days /\ mine \in NoDigest .. DgEvents /\ mine # NoDigest
          /\ generated \in 0 .. DgRuns /\ refreshed \subseteq Days
        BY <1>1, <1>8 DEF Store, Drafts, DigestInv, DigestTypeOK, DraftsAreKnown
    <2>2. Over(w) \in Drafts /\ ~Over(w).refresh /\ ~Over(w).found /\ Over(w).stage # "counted"
        BY OverTyped DEF DigestInv
    <2>3. CASE ~(drafts[w].found \/ digest[day] = NoDigest)
        <3>1. /\ answers' = [answers EXCEPT ![w] = [day |-> day, counted |-> digest[day]]]
              /\ drafts' = [drafts EXCEPT ![w] = Over(w)]
              /\ UNCHANGED <<today, happened, digest, refreshed, generated>>
            BY <1>8, <2>3 DEF Store, Returns, Winner
        <3>2. QED
            BY <1>3, <2>1, <2>2, <2>3, <3>1
    <2>4. CASE drafts[w].found \/ digest[day] = NoDigest
        <3>1. /\ answers' = [answers EXCEPT ![w] = [day |-> day, counted |-> mine]]
              /\ drafts' = [drafts EXCEPT ![w] = Over(w)]
              /\ digest' = [digest EXCEPT ![day] = mine]
              /\ UNCHANGED <<today, happened, refreshed, generated>>
            BY <1>8, <2>4 DEF Store, Returns
        <3>2. day \in refreshed \/ digest[day] = NoDigest
            BY <2>4 DEF DigestInv, DraftsAreKnown
        <3> HIDE DEF day, mine
        <3>3. DraftsAreKnown' /\ drafts' \in [Writers -> Drafts]
            BY <2>2, <3>1, OneDraftMoves
        <3>4. DigestTypeOK'
            <4>1. digest' \in [Days -> NoDigest .. DgEvents]
                BY <2>1, <3>1 DEF DigestInv, DigestTypeOK
            <4>2. [day |-> day, counted |-> mine] \in [day : 0 .. DgDays, counted : NoDigest .. DgEvents]
                BY <2>1 DEF Days
            <4>3. answers' \in [Writers -> [day : 0 .. DgDays, counted : NoDigest .. DgEvents]]
                BY <3>1, <4>2 DEF DigestInv, DigestTypeOK
            <4>4. QED
                BY <3>1, <3>3, <4>1, <4>3 DEF DigestInv, DigestTypeOK, Drafts
        <3>5. /\ digest'[day] = mine /\ \A k \in Days : k # day => digest'[k] = digest[k]
              /\ answers'[w].day = day /\ answers'[w].counted = mine
              /\ \A x \in Writers : x # w => answers'[x] = answers[x]
            BY <2>1, <3>1 DEF DigestInv, DigestTypeOK
        <3>6. AnswersAreStored'
            BY <2>1, <3>5 DEF DigestInv, AnswersAreStored
        <3>7. DigestsAgree'
            BY <3>1, <3>2, <3>5 DEF DigestInv, AnswersAreStored, DigestsAgree
        <3>8. QED
            BY <3>3, <3>4, <3>6, <3>7 DEF DigestInv
    <2>5. QED
        BY <2>3, <2>4
<1>9. ASSUME NEW w \in Writers, GenerateFails(w)
      PROVE  DigestInv'
    <2>1. NoDraft \in Drafts /\ ~NoDraft.refresh /\ ~NoDraft.found /\ NoDraft.stage # "counted"
        BY DEF NoDraft, Drafts, Days, NoDigest
    <2>2. generated \in 0 .. DgRuns /\ refreshed \subseteq Days
        BY DEF DigestInv, DigestTypeOK
    <2>3. QED
        BY <1>3, <1>9, <2>1, <2>2 DEF GenerateFails
<1>10. QED
    BY <1>2, <1>5, <1>6, <1>7, <1>8, <1>9 DEF DigestNext

\* All that was answered about a day nobody asked to refresh is what is stored
\* for it, whichever writer was first (generate and its insert that may lose).
THEOREM DigestsAgreeThroughout == DigestSpec => []DigestsAgree
<1>1. DigestInit => DigestInv
    BY DigestAssumption
    DEF DigestInit, NoDraft, NoAnswer, NoDigest, Days, DigestInv, DigestTypeOK, DraftsAreKnown,
        AnswersAreStored, DigestsAgree
<1>2. DigestInv /\ [DigestNext]_dgVars => DigestInv'
    BY DigestStep
<1>3. DigestInv => DigestsAgree
    BY DEF DigestInv
<1>4. QED
    BY <1>1, <1>2, <1>3, PTL DEF DigestSpec

-------------------------------------------------------------------------------
(* EdgeLiveness                                                            *)

\* What was told of a channel is what the evidence says, and it was passed over
\* at most once by each of the channels verified since its own turn.
EvidenceIsTheAnswers == answered = evidence /\ evidence \in [Channels -> 0 .. OfflineGrace]

PassedByOthers ==
    /\ askedSince \in [Channels -> SUBSET Channels] /\ passed \in [Channels -> Nat]
    /\ \A c \in Channels : c \notin askedSince[c] /\ passed[c] <= Cardinality(askedSince[c])

EdListings == [online : SUBSET Channels, since : SUBSET Channels]
EdRequests == [pc : {"idle", "report", "verify", "listed", "sync"}, about : SUBSET Channels,
               verifies : Channels \union {EdNobody}, listing : EdListings]

\* No channel in its grace period is hidden by the listing, unless it is news to it.
Minds(listing, ages) ==
    /\ listing \in EdListings
    /\ \A c \in Channels : InGrace(ages[c]) => c \in listing.online \union listing.since

\* So it is with each listing there is.
ListingsMind ==
    /\ fetch \in [EdTasks -> EdRequests]
    /\ Minds(shown, answered) /\ Minds(discovered.listing, answered)
    /\ \A t \in EdTasks : HasListing(fetch[t]) => Minds(fetch[t].listing, answered)

EdgeInv == EvidenceIsTheAnswers /\ PassedByOthers /\ ListingsMind

\* Whoever was passed over by each other channel at most once was passed over
\* by fewer than there are channels.
LEMMA FewerThanAll ==
    ASSUME PassedByOthers
    PROVE  EveryoneIsAsked
<1> SUFFICES ASSUME NEW c \in Channels
             PROVE  passed[c] < Cardinality(Channels)
    BY DEF EveryoneIsAsked
<1>1. IsFiniteSet(Channels) /\ askedSince[c] \subseteq Channels /\ askedSince[c] # Channels
    BY EdgeAssumption DEF PassedByOthers
<1>2. Cardinality(askedSince[c]) < Cardinality(Channels)
    BY <1>1, FS_Subset, FS_CardinalityType
<1>3. Cardinality(askedSince[c]) \in Nat /\ Cardinality(Channels) \in Nat
    BY <1>1, FS_Subset, FS_CardinalityType
<1>4. passed[c] \in Nat /\ passed[c] <= Cardinality(askedSince[c])
    BY DEF PassedByOthers
<1>5. QED
    BY <1>2, <1>3, <1>4

\* The verification of channel c, chosen among those that are due.
LEMMA TurnTaken ==
    ASSUME PassedByOthers, NEW due \in SUBSET Channels, NEW c \in NextToVerify(due), EdAsked(c),
           passed' = [d \in Channels |->
                         IF d \notin due \/ d = c THEN 0 ELSE EdOlder(passed[d], Cardinality(Channels))]
    PROVE  PassedByOthers'
<1>1. c \in due /\ \A d \in due : c \notin askedSince[d]
    BY DEF NextToVerify
<1>2. IsFiniteSet(Channels)
    BY EdgeAssumption
<1>3. askedSince' = [d \in Channels |-> IF d = c THEN {} ELSE askedSince[d] \union {c}]
    BY DEF EdAsked
<1>4. askedSince' \in [Channels -> SUBSET Channels]
    BY <1>1, <1>3 DEF PassedByOthers
<1>5. ASSUME NEW d \in Channels
      PROVE  /\ passed'[d] \in Nat
             /\ d \notin askedSince'[d] /\ passed'[d] <= Cardinality(askedSince'[d])
    <2>1. /\ askedSince[d] \subseteq Channels /\ d \notin askedSince[d]
          /\ passed[d] \in Nat /\ passed[d] <= Cardinality(askedSince[d])
        BY DEF PassedByOthers
    <2>2. IsFiniteSet(askedSince'[d]) /\ Cardinality(askedSince'[d]) \in Nat
        BY <1>2, <1>4, FS_Subset, FS_CardinalityType
    <2>3. d \notin askedSince'[d]
        BY <1>3, <2>1
    <2>4. CASE d \notin due \/ d = c
        BY <2>2, <2>3, <2>4
    <2>5. CASE ~(d \notin due \/ d = c)
        <3>1. c \notin askedSince[d] /\ askedSince'[d] = askedSince[d] \union {c}
            BY <1>1, <1>3, <2>5
        <3>2. IsFiniteSet(askedSince[d]) /\ Cardinality(askedSince[d]) \in Nat
            BY <1>2, <2>1, FS_Subset, FS_CardinalityType
        <3>3. Cardinality(askedSince'[d]) = Cardinality(askedSince[d]) + 1
            BY <3>1, <3>2, FS_AddElement
        <3>4. Cardinality(Channels) \in Nat
            BY <1>2, FS_CardinalityType
        <3>5. passed'[d] \in Nat /\ passed'[d] <= passed[d] + 1
            BY <2>1, <2>5, <3>4 DEF EdOlder
        <3>6. QED
            BY <2>1, <2>3, <3>2, <3>3, <3>5
    <2>6. QED
        BY <2>4, <2>5
<1>6. passed' \in [Channels -> Nat]
    BY <1>5
<1>7. QED
    BY <1>4, <1>5, <1>6 DEF PassedByOthers

\* A listing that minds still does once it is told who answered.
LEMMA StaleMinds ==
    ASSUME NEW listing, NEW ages, NEW channels \in SUBSET Channels,
           Minds(listing, ages)
    PROVE  Minds(Stale(listing, channels), Renewed(ages, channels))
<1>1. listing \in EdListings
    BY DEF Minds
<1>2. /\ Stale(listing, channels) \in EdListings
      /\ Stale(listing, channels).online = listing.online
      /\ Stale(listing, channels).since = listing.since \union (channels \ listing.online)
    BY <1>1 DEF Stale, EdListings
<1>3. ASSUME NEW c \in Channels, InGrace(Renewed(ages, channels)[c])
      PROVE  c \in listing.online \union listing.since \union channels
    BY <1>3 DEF Renewed, Minds
<1>4. QED
    BY <1>2, <1>3 DEF Minds

\* The listing of a refresh, drawn up once the report counts.
LEMMA DrawnMinds ==
    ASSUME NEW ages
    PROVE  Minds([online |-> {c \in Channels : InGrace(ages[c])}, since |-> {}], ages)
BY DEF Minds, EdListings

\* Somebody answered task t, whose own listing minds.
LEMMA HeardKeeps ==
    ASSUME EvidenceIsTheAnswers, ListingsMind,
           NEW t \in EdTasks, NEW channels \in SUBSET Channels, NEW mine \in EdRequests,
           HasListing(mine) => Minds(mine.listing, Renewed(answered, channels)),
           HeardBy(t, channels, mine), evidence' = Renewed(evidence, channels)
    PROVE  EvidenceIsTheAnswers' /\ ListingsMind'
<1>1. OfflineGrace \in Nat \ {0}
    BY EdgeAssumption
<1>2. answered' = Renewed(answered, channels)
    BY DEF HeardBy, Heard
<1>3. EvidenceIsTheAnswers'
    BY <1>1, <1>2 DEF EvidenceIsTheAnswers, Renewed
<1>4. Minds(shown, answered)'
    <2>1. shown' = Stale(shown, channels) /\ Minds(shown, answered)
        BY DEF HeardBy, Heard, ListingsMind
    <2>2. Minds(shown', answered')
        BY <1>2, <2>1, StaleMinds
    <2>3. QED
        BY <2>2 DEF Minds, InGrace
<1>5. Minds(discovered.listing, answered)'
    <2>1. /\ discovered' = [discovered EXCEPT !.listing = Stale(@, channels)]
          /\ Minds(discovered.listing, answered)
        BY DEF HeardBy, Heard, ListingsMind
    <2>2. QED
        BY <1>2, <2>1, StaleMinds
<1>6. ASSUME NEW u \in EdTasks
      PROVE  /\ fetch'[u] \in EdRequests
             /\ HasListing(fetch'[u]) => Minds(fetch'[u].listing, answered')
    <2>1. fetch[u] \in EdRequests /\ (HasListing(fetch[u]) => Minds(fetch[u].listing, answered))
        BY DEF ListingsMind
    <2>2. CASE u = t
        BY <1>2, <2>2 DEF HeardBy
    <2>3. CASE u # t /\ ~HasListing(fetch[u])
        BY <2>1, <2>3 DEF HeardBy
    <2>4. CASE u # t /\ HasListing(fetch[u])
        <3>1. fetch'[u] = [fetch[u] EXCEPT !.listing = Stale(@, channels)]
            BY <2>4 DEF HeardBy
        <3>2. Minds(Stale(fetch[u].listing, channels), answered')
            BY <1>2, <2>1, <2>4, StaleMinds
        <3>3. Stale(fetch[u].listing, channels) \in EdListings
            BY <3>2 DEF Minds
        <3> HIDE DEF Stale
        <3>4. fetch'[u] \in EdRequests /\ fetch'[u].listing = Stale(fetch[u].listing, channels)
            BY <2>1, <3>1, <3>3 DEF EdRequests
        <3>5. QED
            BY <3>2, <3>4
    <2>5. QED
        BY <2>2, <2>3, <2>4
<1>7. fetch' \in [EdTasks -> EdRequests]
    BY <1>6 DEF HeardBy
<1>8. QED
    BY <1>3, <1>4, <1>5, <1>6, <1>7 DEF ListingsMind

\* Media of channel c count like a report that it is online.
LEMMA MediaCount ==
    ASSUME EvidenceIsTheAnswers, NEW c \in Channels
    PROVE  MarkOnline(evidence, c) = Renewed(evidence, {c})
BY DEF EvidenceIsTheAnswers, MarkOnline, Renewed

\* A refresh: what is in grace is shown, and a channel that is not may be asked.
LEMMA RefreshKeeps ==
    ASSUME EdgeInv, NEW t \in EdTasks, Refresh(t)
    PROVE  EdgeInv'
<1> DEFINE confirmed == fetch[t].about
           fresh == Renewed(evidence, confirmed)
           online == {c \in Channels : InGrace(fresh[c])}
           due == Candidates(online)
           drawn == [online |-> online, since |-> {}]
           Drawn(pc, c) == [pc |-> pc, about |-> {}, verifies |-> c, listing |-> drawn]
<1>1. confirmed \in SUBSET Channels /\ due \in SUBSET Channels
    BY DEF EdgeInv, ListingsMind, EdRequests, Candidates
<1>2. fresh = Renewed(answered, confirmed) /\ evidence' = fresh
    BY DEF EdgeInv, EvidenceIsTheAnswers, Refresh
<1>3. Minds(drawn, fresh) /\ drawn \in EdListings
    <2> HIDE DEF fresh
    <2>1. QED
        BY DrawnMinds DEF Minds
<1>4. ASSUME NEW pc \in {"listed", "verify"}, NEW c \in Channels \union {EdNobody},
             HeardBy(t, confirmed, Drawn(pc, c))
      PROVE  EvidenceIsTheAnswers' /\ ListingsMind'
    <2> HIDE DEF drawn
    <2>1. Drawn(pc, c) \in EdRequests /\ Drawn(pc, c).listing = drawn
        BY <1>3 DEF EdRequests
    <2> HIDE DEF Drawn, confirmed
    <2>2. Minds(Drawn(pc, c).listing, Renewed(answered, confirmed))
        BY <1>2, <1>3, <2>1
    <2>3. evidence' = Renewed(evidence, confirmed)
        BY <1>2
    <2>4. QED
        BY <1>1, <1>4, <2>1, <2>2, <2>3, HeardKeeps DEF EdgeInv
<1>5. CASE /\ due = {} /\ HeardBy(t, confirmed, Drawn("listed", EdNobody))
           /\ passed' = [c \in Channels |-> 0]
           /\ UNCHANGED <<attempts, askedSince>>
    <2>1. \A c \in Channels : 0 <= Cardinality(askedSince[c])
        BY FS_Subset, FS_CardinalityType, EdgeAssumption DEF EdgeInv, PassedByOthers
    <2>2. PassedByOthers'
        BY <1>5, <2>1 DEF EdgeInv, PassedByOthers
    <2> HIDE DEF Drawn, confirmed
    <2>3. EvidenceIsTheAnswers' /\ ListingsMind'
        BY <1>4, <1>5
    <2>4. QED
        BY <2>2, <2>3 DEF EdgeInv
<1>6. ASSUME NEW c \in NextToVerify(due), EdAsked(c), HeardBy(t, confirmed, Drawn("verify", c)),
             passed' = [d \in Channels |->
                IF d \notin due \/ d = c THEN 0 ELSE EdOlder(passed[d], Cardinality(Channels))]
      PROVE  EdgeInv'
    <2>1. c \in Channels
        BY <1>1 DEF NextToVerify
    <2>2. PassedByOthers'
        <3> HIDE DEF due
        <3>1. QED
            BY <1>1, <1>6, TurnTaken DEF EdgeInv
    <2> HIDE DEF Drawn, confirmed, due
    <2>3. EvidenceIsTheAnswers' /\ ListingsMind'
        BY <1>4, <1>6, <2>1
    <2>4. QED
        BY <2>2, <2>3 DEF EdgeInv
<1>7. QED
    BY <1>5, <1>6 DEF Refresh

LEMMA EdgeStep ==
    ASSUME EdgeInv, [EdgeNext]_edgeVars
    PROVE  EdgeInv'
<1>1. OfflineGrace \in Nat \ {0} /\ Attached \subseteq Channels
    BY EdgeAssumption
<1>2. EvidenceIsTheAnswers /\ PassedByOthers /\ ListingsMind
    BY DEF EdgeInv
<1>3. CASE EdgeTick
    <2>1. EvidenceIsTheAnswers' /\ PassedByOthers'
        BY <1>1, <1>2, <1>3 DEF EdgeTick, EdOlder, EvidenceIsTheAnswers, PassedByOthers
    <2>2. \A c \in Channels : InGrace(answered'[c]) => InGrace(answered[c])
        BY <1>1, <1>2, <1>3 DEF EdgeTick, EdOlder, EvidenceIsTheAnswers, InGrace
    <2>3. ASSUME NEW listing, Minds(listing, answered)
          PROVE  Minds(listing, answered')
        BY <2>2, <2>3 DEF Minds
    <2>4. fetch' = fetch /\ shown' = shown /\ discovered'.listing = discovered.listing
        BY <1>3 DEF EdgeTick
    <2>5. ListingsMind'
        BY <1>2, <2>3, <2>4 DEF ListingsMind
    <2>6. QED
        BY <2>1, <2>5 DEF EdgeInv
<1>4. ASSUME NEW t \in EdTasks, NEW spare, NEW spared, AskConnector(t, spare, spared)
      PROVE  EdgeInv'
    <2>1. EvidenceIsTheAnswers' /\ PassedByOthers'
        BY <1>2, <1>4 DEF AskConnector, EvidenceIsTheAnswers, PassedByOthers
    <2> DEFINE report == Reported(probe'.ok, liveness')
               asked == [NoRequest EXCEPT !.pc = "report", !.about = report]
    <2>2. report \in SUBSET Channels
        BY DEF Reported
    <2>3. fetch' = [fetch EXCEPT ![t] = asked] \/ fetch' = fetch
        BY <1>4 DEF AskConnector
    <2> HIDE DEF report
    <2>4. asked \in EdRequests /\ ~HasListing(asked)
        BY <2>2 DEF NoRequest, NoneListed, EdRequests, EdListings, HasListing
    <2> HIDE DEF asked
    <2>5. \A u \in EdTasks : /\ fetch'[u] \in EdRequests
                             /\ fetch'[u] = fetch[u] \/ ~HasListing(fetch'[u])
        BY <1>2, <2>3, <2>4 DEF ListingsMind
    <2>6. fetch' \in [EdTasks -> EdRequests]
        BY <1>2, <2>5, <2>3 DEF ListingsMind
    <2>7. answered' = answered /\ shown' = shown /\ discovered' = discovered
        BY <1>4 DEF AskConnector
    <2>8. ListingsMind'
        BY <1>2, <2>5, <2>6, <2>7 DEF ListingsMind
    <2>9. QED
        BY <2>1, <2>8 DEF EdgeInv
<1>5. ASSUME NEW t \in EdTasks, Refresh(t)
      PROVE  EdgeInv'
    BY <1>5, RefreshKeeps
<1>6. ASSUME NEW t \in EdTasks, Verify(t)
      PROVE  EdgeInv'
    <2> DEFINE c == fetch[t].verifies
               verified == [fetch[t] EXCEPT !.pc = "listed", !.verifies = EdNobody]
    <2>1. /\ verified \in EdRequests /\ verified.listing = fetch[t].listing
          /\ fetch[t].listing \in EdListings /\ Minds(fetch[t].listing, answered)
          /\ fetch[t] \in EdRequests
        BY <1>2, <1>6 DEF Verify, ListingsMind, EdRequests, HasListing
    <2>2. PassedByOthers'
        BY <1>2, <1>6 DEF Verify, PassedByOthers
    <2>3. CASE /\ c \in Attached /\ evidence' = MarkOnline(evidence, c)
               /\ HeardBy(t, {c}, [verified EXCEPT !.listing.online = @ \union {c}])
        <3> DEFINE mine == [verified EXCEPT !.listing.online = @ \union {c}]
        <3> HIDE DEF verified, c
        <3>1. c \in Channels
            BY <1>1, <2>3
        <3>2. /\ mine \in EdRequests
              /\ mine.listing.online = fetch[t].listing.online \union {c}
              /\ mine.listing.since = fetch[t].listing.since
              /\ mine.listing \in EdListings
            BY <2>1, <3>1 DEF EdRequests, EdListings
        <3>3. HeardBy(t, {c}, mine)
            BY <2>3
        <3> HIDE DEF mine
        <3>4. Minds(mine.listing, Renewed(answered, {c}))
            BY <2>1, <3>2 DEF Minds, Renewed
        <3>5. evidence' = Renewed(evidence, {c})
            BY <1>2, <2>3, <3>1, MediaCount
        <3>6. EvidenceIsTheAnswers' /\ ListingsMind'
            BY <1>2, <3>1, <3>2, <3>3, <3>4, <3>5, HeardKeeps
        <3>7. QED
            BY <2>2, <3>6 DEF EdgeInv
    <2>4. CASE /\ fetch' = [fetch EXCEPT ![t] = verified]
               /\ UNCHANGED <<evidence, answered, discovered, shown>>
        <3> HIDE DEF verified
        <3>1. EvidenceIsTheAnswers' /\ ListingsMind'
            BY <1>2, <2>1, <2>4 DEF EvidenceIsTheAnswers, ListingsMind
        <3>2. QED
            BY <2>2, <3>1 DEF EdgeInv
    <2>5. QED
        BY <1>6, <2>3, <2>4 DEF Verify
<1>7. ASSUME NEW t \in EdTasks, Discover(t)
      PROVE  EdgeInv'
    <2>1. EvidenceIsTheAnswers' /\ PassedByOthers' /\ answered' = answered /\ shown' = shown
        BY <1>2, <1>7 DEF Discover, EvidenceIsTheAnswers, PassedByOthers
    <2>2. CASE /\ fetch[t].pc = "listed" /\ fetch' = [fetch EXCEPT ![t].pc = "sync"]
               /\ discovered' = [listing |-> fetch[t].listing, age |-> 0]
        <3>1. \A u \in EdTasks : /\ fetch'[u] \in EdRequests /\ fetch'[u].listing = fetch[u].listing
                                 /\ HasListing(fetch'[u]) => HasListing(fetch[u])
            BY <1>2, <2>2 DEF ListingsMind, EdRequests, HasListing
        <3>2. fetch' \in [EdTasks -> EdRequests]
            BY <1>2, <2>2, <3>1 DEF ListingsMind
        <3>3. Minds(fetch[t].listing, answered)
            BY <1>2, <2>2 DEF ListingsMind, HasListing
        <3>4. ListingsMind'
            BY <1>2, <2>1, <2>2, <3>1, <3>2, <3>3 DEF ListingsMind
        <3>5. QED
            BY <2>1, <3>4 DEF EdgeInv
    <2>3. CASE /\ fetch' = [fetch EXCEPT ![t].pc = "sync", ![t].listing = discovered.listing]
               /\ discovered' = discovered
        <3>1. discovered.listing \in EdListings /\ Minds(discovered.listing, answered)
            BY <1>2 DEF ListingsMind, Minds
        <3>2. \A u \in EdTasks :
                 /\ fetch'[u] \in EdRequests
                 /\ fetch'[u].listing = IF u = t THEN discovered.listing ELSE fetch[u].listing
                 /\ HasListing(fetch'[u]) => u = t \/ HasListing(fetch[u])
            BY <1>2, <2>3, <3>1 DEF ListingsMind, EdRequests, HasListing
        <3>3. fetch' \in [EdTasks -> EdRequests]
            BY <1>2, <2>3, <3>2 DEF ListingsMind
        <3>4. \A u \in EdTasks : HasListing(fetch'[u]) => Minds(fetch'[u].listing, answered)
            BY <1>2, <3>1, <3>2 DEF ListingsMind
        <3>5. ListingsMind'
            BY <1>2, <2>1, <2>3, <3>3, <3>4 DEF ListingsMind
        <3>6. QED
            BY <2>1, <3>5 DEF EdgeInv
    <2>4. QED
        BY <1>7, <2>2, <2>3 DEF Discover
<1>8. ASSUME NEW t \in EdTasks, SyncCameras(t)
      PROVE  EdgeInv'
    <2>1. EvidenceIsTheAnswers' /\ PassedByOthers' /\ answered' = answered /\ discovered' = discovered
        BY <1>2, <1>8 DEF SyncCameras, EvidenceIsTheAnswers, PassedByOthers
    <2>2. NoRequest \in EdRequests /\ ~HasListing(NoRequest)
        BY DEF NoRequest, NoneListed, EdRequests, EdListings, HasListing
    <2>3. fetch' = [fetch EXCEPT ![t] = NoRequest] /\ shown' = fetch[t].listing
        BY <1>8 DEF SyncCameras
    <2>4. Minds(shown', answered)
        BY <1>2, <1>8, <2>3 DEF SyncCameras, ListingsMind, HasListing
    <2> HIDE DEF NoRequest
    <2>5. ListingsMind'
        BY <1>2, <2>1, <2>2, <2>3, <2>4 DEF ListingsMind
    <2>6. QED
        BY <2>1, <2>5 DEF EdgeInv
<1>9. ASSUME NEW t \in EdTasks, GetMedia(t)
      PROVE  EdgeInv'
    <2>1. PassedByOthers'
        BY <1>2, <1>9 DEF GetMedia, PassedByOthers
    <2>2. NoRequest \in EdRequests /\ ~HasListing(NoRequest)
        BY DEF NoRequest, NoneListed, EdRequests, EdListings, HasListing
    <2> HIDE DEF NoRequest
    <2>3. ASSUME NEW c \in Attached, evidence' = MarkOnline(evidence, c), HeardBy(t, {c}, NoRequest)
          PROVE  EdgeInv'
        <3>1. c \in Channels
            BY <1>1
        <3>2. evidence' = Renewed(evidence, {c})
            BY <1>2, <2>3, <3>1, MediaCount
        <3>3. EvidenceIsTheAnswers' /\ ListingsMind'
            BY <1>2, <2>2, <2>3, <3>1, <3>2, HeardKeeps
        <3>4. QED
            BY <2>1, <3>3 DEF EdgeInv
    <2>4. CASE /\ fetch' = [fetch EXCEPT ![t] = NoRequest]
               /\ UNCHANGED <<evidence, answered, discovered, shown>>
        <3>1. EvidenceIsTheAnswers' /\ ListingsMind'
            BY <1>2, <2>2, <2>4 DEF EvidenceIsTheAnswers, ListingsMind
        <3>2. QED
            BY <2>1, <3>1 DEF EdgeInv
    <2>5. QED
        BY <1>9, <2>3, <2>4 DEF GetMedia
<1>10. CASE UNCHANGED edgeVars
    BY <1>2, <1>10
    DEF edgeVars, EdgeInv, EvidenceIsTheAnswers, PassedByOthers, ListingsMind
<1>11. QED
    BY <1>3, <1>4, <1>5, <1>6, <1>7, <1>8, <1>9, <1>10 DEF EdgeNext

\* A channel in the grace period of its last sign of life is hidden by no listing
\* drawn up since, and none whose turn it is is passed over once more than there are
\* others (_refresh_channels and _verify_one_offline_channel).
THEOREM WorkingCamerasShowThroughout == EdgeSpec => []WorkingCamerasShow
<1>1. EdgeInit => EdgeInv
    <2> SUFFICES ASSUME EdgeInit PROVE EdgeInv
        OBVIOUS
    <2>1. OfflineGrace \in Nat \ {0} /\ Cardinality({}) = 0
        BY EdgeAssumption, FS_EmptySet
    <2>2. EvidenceIsTheAnswers /\ PassedByOthers
        BY <2>1 DEF EdgeInit, EvidenceIsTheAnswers, PassedByOthers
    <2>3. NoRequest \in EdRequests /\ ~HasListing(NoRequest)
        BY DEF NoRequest, NoneListed, EdRequests, EdListings, HasListing
    <2>4. Minds(NoneListed, answered)
        BY <2>1 DEF EdgeInit, Minds, NoneListed, EdListings, InGrace
    <2>5. ListingsMind
        BY <2>3, <2>4 DEF EdgeInit, ListingsMind
    <2>6. QED
        BY <2>2, <2>5 DEF EdgeInv
<1>2. EdgeInv /\ [EdgeNext]_edgeVars => EdgeInv'
    BY EdgeStep
<1>3. EdgeInv => WorkingCamerasShow
    BY FewerThanAll
    DEF EdgeInv, WorkingCamerasShow, ShownWhileProven, Listings, ListingsMind, Minds
<1>4. QED
    BY <1>1, <1>2, <1>3, PTL DEF EdgeSpec
-------------------------------------------------------------------------------
(* EufyLive                                                                *)

Streams == [made : BOOLEAN, started : BOOLEAN, closed : BOOLEAN, queues : SUBSET ElTasks,
            waiting : SUBSET ElTasks, gop : BOOLEAN, keyframe : BOOLEAN, idle : BOOLEAN]
Requests == [does : {"none", "view", "live", "record"},
             pc : {"idle", "asked", "granted", "denied", "has", "watch", "stopping"},
             stream : 0 .. ElStreams]
Commands == [what : {"start", "stop"}, by : ElTasks \union {ElNobody}]

EufyTyped ==
    /\ streams \in [StreamIds -> Streams] /\ current \in 0 .. ElStreams
    /\ request \in [ElTasks -> Requests] /\ picture \in [ElTasks -> {"none", "whole", "torn"}]

\* What there is of a stream before it is made, and of one that a task waits for
\* or watches.
StreamsAreMade ==
    /\ \A s \in StreamIds : ~streams[s].made => streams[s].queues = {} /\ ~streams[s].started
    /\ current # 0 => streams[current].made
    /\ \A t \in ElTasks : request[t].pc \in {"asked", "granted", "watch"} =>
          request[t].stream \in StreamIds /\ streams[request[t].stream].made

\* Who is in the registered stream's queues watches it, and has had its keyframe
\* or waits for the next.
ViewersWatch ==
    current # 0 => \A t \in streams[current].queues :
        /\ request[t].pc = "watch" /\ request[t].stream = current
        /\ t \in streams[current].waiting \/ picture[t] = "whole"

\* A started stream has a viewer or its idle task, another a task that starts it.
CurrentIsMinded ==
    current # 0 =>
        IF streams[current].started THEN streams[current].queues # {} \/ streams[current].idle
        ELSE \E t \in ElTasks : /\ request[t].stream = current
                                /\ request[t].pc \in {"asked", "granted", "denied"}

\* Who waits for the stream that is registered no more has missed it.
CallersKnow ==
    \A t \in ElTasks : request[t].pc \in {"asked", "granted"} =>
        request[t].stream = current \/ t \in missed

\* What concerns the streams and who has them.
StreamsInv ==
    /\ EufyTyped /\ StreamsAreMade /\ ViewersWatch /\ CurrentIsMinded /\ StartsAtKeyframe
    /\ CallersKnow /\ ViewersAreFed

\* With no stream registered, the device streams, or will, only until the stop that
\* is the last command.
StopIsLast ==
    /\ commands \in Seq(Commands)
    /\ current = 0 /\ Wakeful =>
          adrift \/ (commands # <<>> /\ commands[Len(commands)].what = "stop")

EufyInv == StreamsInv /\ StopIsLast

LEMMA ClosedStream ==
    ASSUME NEW s \in StreamIds, streams \in [StreamIds -> Streams]
    PROVE  /\ Closed(s) \in Streams /\ Closed(s).queues = {} /\ Closed(s).closed
           /\ Closed(s).made = streams[s].made /\ Closed(s).started = streams[s].started
BY DEF Closed, Streams

LEMMA PicturesAreWhole ==
    ASSUME StreamsInv
    PROVE  picture \in [ElTasks -> {"none", "whole"}]
BY DEF StreamsInv, EufyTyped, StartsAtKeyframe

\* No stream is registered any more; those there are may have been closed, no task
\* came to wait for one, and who waited or watched has missed it or sees its end.
LEMMA NoneRegistered ==
    ASSUME StreamsInv, current' = 0,
           streams' \in [StreamIds -> Streams], request' \in [ElTasks -> Requests],
           \A s \in StreamIds : /\ streams'[s].made = streams[s].made
                                /\ streams'[s].started = streams[s].started
                                /\ streams'[s].queues = {} \/ streams'[s].queues = streams[s].queues
                                /\ streams[s].closed => streams'[s].closed,
           \A t \in ElTasks : request'[t].pc \in {"asked", "granted", "watch"} => request'[t] = request[t],
           picture' \in [ElTasks -> {"none", "whole"}],
           missed \subseteq missed',
           current # 0 => \A t \in ElTasks : request'[t].stream = current =>
              /\ request'[t].pc \in {"asked", "granted"} => t \in missed'
              /\ request'[t].pc = "watch" /\ t \in streams[current].queues =>
                    \/ t \in missed'
                    \/ streams'[current].closed /\ streams'[current].queues = {}
    PROVE  StreamsInv'
<1>1. EufyTyped'
    BY EufyAssumption DEF EufyTyped
<1>2. StreamsAreMade'
    BY DEF StreamsInv, EufyTyped, StreamsAreMade
<1>3. ViewersWatch' /\ CurrentIsMinded' /\ StartsAtKeyframe'
    BY DEF ViewersWatch, CurrentIsMinded, StartsAtKeyframe
<1>4. CallersKnow'
    <2> SUFFICES ASSUME NEW t \in ElTasks, request'[t].pc \in {"asked", "granted"}
                 PROVE  t \in missed'
        BY DEF CallersKnow
    <2>1. request'[t] = request[t] /\ request[t].stream # 0
        BY EufyAssumption DEF StreamsInv, StreamsAreMade, StreamIds
    <2>2. request[t].stream = current \/ t \in missed
        BY <2>1 DEF StreamsInv, CallersKnow
    <2>3. QED
        BY <2>1, <2>2
<1>5. ViewersAreFed'
    <2> SUFFICES ASSUME NEW t \in ElTasks, request'[t].pc = "watch"
                 PROVE  \/ streams'[request'[t].stream].closed
                           /\ t \notin streams'[request'[t].stream].queues
                        \/ t \in missed'
        BY DEF ViewersAreFed
    <2> DEFINE s == request[t].stream
    <2>1. request'[t] = request[t] /\ s \in StreamIds
        BY DEF StreamsInv, StreamsAreMade
    <2>2. \/ s = current /\ t \in streams[s].queues
          \/ streams[s].closed /\ t \notin streams[s].queues
          \/ t \in missed
        BY <2>1 DEF StreamsInv, ViewersAreFed
    <2>3. s # 0
        BY <2>1, EufyAssumption DEF StreamIds
    <2>4. CASE s = current /\ t \in streams[s].queues
        BY <2>1, <2>3, <2>4
    <2>5. CASE streams[s].closed /\ t \notin streams[s].queues
        BY <2>1, <2>5
    <2>6. QED
        BY <2>1, <2>2, <2>4, <2>5
<1>6. QED
    BY <1>1, <1>2, <1>3, <1>4, <1>5 DEF StreamsInv

\* The registered stream, if any, is closed and forgotten: as by stop_livestream, when
\* the bridge says it stopped, and when the socket is lost.
LEMMA CurrentForgotten ==
    ASSUME StreamsInv, current' = 0,
           streams' = IF current = 0 THEN streams ELSE [streams EXCEPT ![current] = Closed(current)],
           request' \in [ElTasks -> Requests],
           \A t \in ElTasks : request'[t].pc \in {"asked", "granted", "watch"} => request'[t] = request[t],
           picture' \in [ElTasks -> {"none", "whole"}],
           missed' = missed \union Callers(current)
    PROVE  StreamsInv'
<1>1. streams \in [StreamIds -> Streams] /\ current \in 0 .. ElStreams
    BY DEF StreamsInv, EufyTyped
<1>2. current # 0 => current \in StreamIds
    BY <1>1, EufyAssumption DEF StreamIds
<1>3. current # 0 => /\ Closed(current) \in Streams /\ Closed(current).queues = {}
                     /\ Closed(current).closed
                     /\ Closed(current).made = streams[current].made
                     /\ Closed(current).started = streams[current].started
    BY <1>1, <1>2, ClosedStream
<1> DEFINE c == Closed(current)
<1> HIDE DEF c
<1>4. streams' = IF current = 0 THEN streams ELSE [streams EXCEPT ![current] = c]
    BY DEF c
<1>5. streams' \in [StreamIds -> Streams]
    BY <1>1, <1>2, <1>3, <1>4 DEF c
<1>6. \A s \in StreamIds : /\ streams'[s].made = streams[s].made
                           /\ streams'[s].started = streams[s].started
                           /\ streams'[s].queues = {} \/ streams'[s].queues = streams[s].queues
                           /\ streams[s].closed => streams'[s].closed
    BY <1>1, <1>2, <1>3, <1>4 DEF c
<1>7. current # 0 => streams'[current].closed /\ streams'[current].queues = {}
    BY <1>1, <1>2, <1>3, <1>4 DEF c
<1>8. \A t \in ElTasks : request'[t].stream = current /\ request'[t].pc \in {"asked", "granted"}
                         => t \in missed'
    BY DEF Callers
<1>9. QED
    BY <1>5, <1>6, <1>7, <1>8, NoneRegistered

\* stop_livestream, whoever calls it.
LEMMA StreamStopped ==
    ASSUME StreamsInv, NEW t \in ElTasks, StopLivestream(t), request' = At(t, "stopping"),
           picture' \in [ElTasks -> {"none", "whole"}]
    PROVE  StreamsInv'
<1>1. request \in [ElTasks -> Requests]
    BY DEF StreamsInv, EufyTyped
<1>2. request' \in [ElTasks -> Requests]
      /\ \A u \in ElTasks : request'[u].pc \in {"asked", "granted", "watch"} => request'[u] = request[u]
    BY <1>1 DEF At, Requests
<1>3. QED
    BY <1>2, CurrentForgotten DEF StopLivestream

\* A start fails: the registered stream is forgotten as it is.
LEMMA StreamForgotten ==
    ASSUME StreamsInv, NEW t \in ElTasks, DropStream(t), UNCHANGED <<streams, picture>>
    PROVE  StreamsInv'
<1>1. /\ request \in [ElTasks -> Requests] /\ streams \in [StreamIds -> Streams]
      /\ ElIdle \in Requests /\ ElIdle.pc = "idle"
    BY EufyAssumption DEF StreamsInv, EufyTyped, ElIdle, Requests
<1>2. /\ current' = 0 /\ request' = [request EXCEPT ![t] = ElIdle]
      /\ missed' = IF current = 0 THEN missed
                   ELSE missed \union (Callers(current) \ {t}) \union streams[current].queues
    BY DEF DropStream
<1>3. request' \in [ElTasks -> Requests] /\ request'[t].pc = "idle"
      /\ \A u \in ElTasks : u # t => request'[u] = request[u]
    BY <1>1, <1>2
<1>4. current # 0 => \A u \in ElTasks : request'[u].stream = current =>
          /\ request'[u].pc \in {"asked", "granted"} => u \in missed'
          /\ request'[u].pc = "watch" /\ u \in streams[current].queues => u \in missed'
    BY <1>2, <1>3 DEF Callers
<1>5. missed \subseteq missed'
    BY <1>2
<1>6. picture' \in [ElTasks -> {"none", "whole"}]
    BY PicturesAreWhole
<1>7. \A u \in ElTasks : request'[u].pc \in {"asked", "granted", "watch"} => request'[u] = request[u]
    BY <1>3
<1>8. QED
    BY <1>1, <1>2, <1>3, <1>4, <1>5, <1>6, <1>7, NoneRegistered

\* A task that neither waits for a stream nor watches one turns to something else of
\* that kind.
LEMMA TaskMoves ==
    ASSUME StreamsInv, NEW t \in ElTasks, NEW r \in Requests,
           request[t].pc \in {"idle", "has", "stopping"}, r.pc \in {"idle", "has", "stopping"},
           request' = [request EXCEPT ![t] = r], UNCHANGED <<streams, current, picture, missed>>
    PROVE  StreamsInv'
<1>1. request \in [ElTasks -> Requests]
    BY DEF StreamsInv, EufyTyped
<1>2. /\ request' \in [ElTasks -> Requests] /\ request'[t] = r
      /\ \A u \in ElTasks : u # t => request'[u] = request[u]
    BY <1>1
<1>3. EufyTyped' /\ StartsAtKeyframe'
    BY <1>2 DEF StreamsInv, EufyTyped, StartsAtKeyframe
<1>4. StreamsAreMade'
    BY <1>2 DEF StreamsInv, StreamsAreMade
<1>5. current # 0 => \A u \in streams[current].queues : u # t
    BY DEF StreamsInv, ViewersWatch
<1>6. current # 0 => streams[current].queues \subseteq ElTasks
    BY EufyAssumption DEF StreamsInv, EufyTyped, StreamIds, Streams
<1>7. ViewersWatch'
    BY <1>2, <1>5, <1>6 DEF StreamsInv, ViewersWatch
<1>8. CurrentIsMinded'
    BY <1>2 DEF StreamsInv, CurrentIsMinded
<1>9. CallersKnow' /\ ViewersAreFed'
    BY <1>2 DEF StreamsInv, CallersKnow, ViewersAreFed
<1>10. QED
    BY <1>3, <1>4, <1>7, <1>8, <1>9 DEF StreamsInv

\* The result of a start is there: the task waits on.
LEMMA CallerMoves ==
    ASSUME StreamsInv, NEW t \in ElTasks, NEW pc \in {"granted", "denied"},
           request[t].pc = "asked", request' = At(t, pc), UNCHANGED <<streams, current, picture, missed>>
    PROVE  StreamsInv'
<1>1. request \in [ElTasks -> Requests]
    BY DEF StreamsInv, EufyTyped
<1>2. /\ request' \in [ElTasks -> Requests] /\ request'[t].pc = pc /\ request'[t].stream = request[t].stream
      /\ \A u \in ElTasks : u # t => request'[u] = request[u]
    BY <1>1 DEF At, Requests
<1>3. EufyTyped' /\ StartsAtKeyframe'
    BY <1>2 DEF StreamsInv, EufyTyped, StartsAtKeyframe
<1>4. StreamsAreMade'
    BY <1>2 DEF StreamsInv, StreamsAreMade
<1>5. current # 0 => \A u \in streams[current].queues : u # t
    BY DEF StreamsInv, ViewersWatch
<1>6. current # 0 => streams[current].queues \subseteq ElTasks
    BY EufyAssumption DEF StreamsInv, EufyTyped, StreamIds, Streams
<1>7. ViewersWatch'
    BY <1>2, <1>5, <1>6 DEF StreamsInv, ViewersWatch
<1>8. CurrentIsMinded'
    BY <1>2 DEF StreamsInv, CurrentIsMinded
<1>9. CallersKnow' /\ ViewersAreFed'
    BY <1>2 DEF StreamsInv, CallersKnow, ViewersAreFed
<1>10. QED
    BY <1>3, <1>4, <1>7, <1>8, <1>9 DEF StreamsInv

\* A task asks for the stream that is registered but not started, or makes one.
LEMMA StreamAsked ==
    ASSUME StreamsInv, NEW t \in ElTasks, NEW does \in {"view", "live", "record"},
           request[t] = ElIdle,
           IF current = 0 THEN Unmade # {} ELSE ~streams[current].started,
           current' = IF current = 0 THEN NewStream ELSE current,
           streams' = [streams EXCEPT ![current'].made = TRUE],
           request' = [request EXCEPT ![t] = [does |-> does, stream |-> current', pc |-> "asked"]],
           picture' = picture, missed' = missed \ {t}
    PROVE  StreamsInv'
<1> DEFINE s == IF current = 0 THEN NewStream ELSE current
           r == [does |-> does, stream |-> s, pc |-> "asked"]
<1>1. /\ streams \in [StreamIds -> Streams] /\ current \in 0 .. ElStreams
      /\ request \in [ElTasks -> Requests]
    BY DEF StreamsInv, EufyTyped
<1>2. /\ current' = s /\ request' = [request EXCEPT ![t] = r]
      /\ streams' = [streams EXCEPT ![s].made = TRUE]
    OBVIOUS
<1>3. /\ s \in StreamIds /\ s # 0 /\ (current = 0 => ~streams[s].made)
      /\ (current # 0 => s = current) /\ ~streams[s].started
    BY <1>1, EufyAssumption DEF NewStream, Unmade, StreamIds, StreamsInv, StreamsAreMade
<1> HIDE DEF s
<1>4. r \in Requests /\ r.stream = s /\ r.pc = "asked"
    BY <1>3 DEF Requests, StreamIds
<1> HIDE DEF r
<1>5. /\ request' \in [ElTasks -> Requests] /\ request'[t] = r
      /\ \A u \in ElTasks : u # t => request'[u] = request[u]
    BY <1>1, <1>2, <1>4
<1>6. /\ streams' \in [StreamIds -> Streams] /\ streams'[s].made
      /\ streams'[s].started = streams[s].started /\ streams'[s].queues = streams[s].queues
      /\ streams'[s].waiting = streams[s].waiting /\ streams'[s].idle = streams[s].idle
      /\ streams'[s].closed = streams[s].closed
      /\ \A k \in StreamIds : k # s => streams'[k] = streams[k]
    <2> DEFINE d == [streams[s] EXCEPT !.made = TRUE]
    <2>1. streams[s] \in Streams
        BY <1>1, <1>3
    <2>2. /\ d \in Streams /\ d.made
          /\ d.started = streams[s].started /\ d.queues = streams[s].queues
          /\ d.waiting = streams[s].waiting /\ d.idle = streams[s].idle
          /\ d.closed = streams[s].closed
        BY <2>1 DEF Streams
    <2>3. streams' = [streams EXCEPT ![s] = d]
        BY <1>1, <1>2, <1>3
    <2> HIDE DEF d
    <2>4. QED
        BY <1>1, <1>3, <2>2, <2>3
<1>7. EufyTyped' /\ StartsAtKeyframe'
    BY <1>2, <1>3, <1>5, <1>6 DEF StreamsInv, EufyTyped, StreamIds, StartsAtKeyframe
<1>8. StreamsAreMade'
    <2>1. \A k \in StreamIds : streams[k].made => streams'[k].made
        BY <1>6
    <2>2. \A k \in StreamIds : ~streams'[k].made => streams'[k].queues = {} /\ ~streams'[k].started
        BY <1>6 DEF StreamsInv, StreamsAreMade
    <2>3. ASSUME NEW u \in ElTasks, request'[u].pc \in {"asked", "granted", "watch"}
          PROVE  request'[u].stream \in StreamIds /\ streams'[request'[u].stream].made
        <3>1. CASE u = t
            BY <1>3, <1>4, <1>5, <1>6, <3>1
        <3>2. CASE u # t
            BY <1>5, <2>1, <2>3, <3>2 DEF StreamsInv, StreamsAreMade
        <3>3. QED
            BY <3>1, <3>2
    <2>4. QED
        BY <1>2, <1>6, <2>2, <2>3 DEF StreamsAreMade
<1>9. ViewersWatch'
    <2>1. current = 0 => streams[s].queues = {}
        BY <1>3 DEF StreamsInv, StreamsAreMade
    <2>2. streams[s].queues \subseteq ElTasks
        BY <1>1, <1>3 DEF Streams
    <2>3. \A u \in streams[s].queues :
             /\ u # t /\ request[u].pc = "watch" /\ request[u].stream = s
             /\ u \in streams[s].waiting \/ picture[u] = "whole"
        BY <1>2, <1>3, <2>1 DEF StreamsInv, ViewersWatch, ElIdle
    <2>4. QED
        BY <1>2, <1>5, <1>6, <2>2, <2>3 DEF ViewersWatch
<1>10. CurrentIsMinded'
    BY <1>2, <1>3, <1>4, <1>5, <1>6 DEF CurrentIsMinded
<1>11. CallersKnow'
    <2> SUFFICES ASSUME NEW u \in ElTasks, u # t, request[u].pc \in {"asked", "granted"}
                 PROVE  request[u].stream = s \/ u \in missed'
        BY <1>2, <1>4, <1>5 DEF CallersKnow
    <2>1. request[u].stream = current \/ u \in missed
        BY DEF StreamsInv, CallersKnow
    <2>2. request[u].stream # 0
        BY EufyAssumption DEF StreamsInv, StreamsAreMade, StreamIds
    <2>3. QED
        BY <1>3, <2>1, <2>2
<1>12. ViewersAreFed'
    <2> SUFFICES ASSUME NEW u \in ElTasks, u # t, request[u].pc = "watch"
                 PROVE  \/ request[u].stream = s /\ u \in streams'[request[u].stream].queues
                        \/ streams'[request[u].stream].closed /\ u \notin streams'[request[u].stream].queues
                        \/ u \in missed'
        BY <1>2, <1>4, <1>5 DEF ViewersAreFed
    <2> DEFINE k == request[u].stream
    <2>1. k \in StreamIds /\ k # 0
        BY EufyAssumption DEF StreamsInv, StreamsAreMade, StreamIds
    <2>2. streams'[k].queues = streams[k].queues /\ streams'[k].closed = streams[k].closed
        BY <1>6, <2>1
    <2>3. \/ k = current /\ u \in streams[k].queues
          \/ streams[k].closed /\ u \notin streams[k].queues
          \/ u \in missed
        BY DEF StreamsInv, ViewersAreFed
    <2>4. QED
        BY <1>3, <2>1, <2>2, <2>3
<1>13. QED
    BY <1>7, <1>8, <1>9, <1>10, <1>11, <1>12 DEF StreamsInv

\* A task that was not in a stream's queue and waits for none moves, alone; what
\* remains to be shown is that of the registered stream and of the task itself.
LEMMA OneMoves ==
    ASSUME StreamsInv, NEW t \in ElTasks, current' = current,
           streams' \in [StreamIds -> Streams], request' \in [ElTasks -> Requests],
           picture' \in [ElTasks -> {"none", "whole"}],
           \A k \in StreamIds : /\ streams'[k].made = streams[k].made
                                /\ streams'[k].closed = streams[k].closed
                                /\ \A u \in ElTasks : u # t => (u \in streams'[k].queues <=> u \in streams[k].queues)
                                /\ ~streams[k].made => streams'[k].queues = {} /\ ~streams'[k].started,
           \A u \in ElTasks : u # t => request'[u] = request[u] /\ (u \in missed => u \in missed'),
           request'[t].pc \notin {"asked", "granted"},
           request'[t].pc = "watch" =>
              /\ request'[t].stream \in StreamIds /\ streams[request'[t].stream].made
              /\ \/ request'[t].stream = current /\ t \in streams'[current].queues
                 \/ t \in missed',
           ViewersWatch', CurrentIsMinded'
    PROVE  StreamsInv'
<1>1. EufyTyped' /\ StartsAtKeyframe'
    BY DEF StreamsInv, EufyTyped, StartsAtKeyframe
<1>2. StreamsAreMade'
    <2>1. \A k \in StreamIds : ~streams'[k].made => streams'[k].queues = {} /\ ~streams'[k].started
        OBVIOUS
    <2>2. current' # 0 => streams'[current'].made
        BY EufyAssumption DEF StreamsInv, StreamsAreMade, EufyTyped, StreamIds
    <2>3. ASSUME NEW u \in ElTasks, request'[u].pc \in {"asked", "granted", "watch"}
          PROVE  request'[u].stream \in StreamIds /\ streams'[request'[u].stream].made
        BY <2>3 DEF StreamsInv, StreamsAreMade
    <2>4. QED
        BY <2>1, <2>2, <2>3 DEF StreamsAreMade
<1>3. CallersKnow'
    BY DEF StreamsInv, CallersKnow
<1>4. ViewersAreFed'
    <2> SUFFICES ASSUME NEW u \in ElTasks, request'[u].pc = "watch"
                 PROVE  \/ request'[u].stream = current /\ u \in streams'[request'[u].stream].queues
                        \/ streams'[request'[u].stream].closed /\ u \notin streams'[request'[u].stream].queues
                        \/ u \in missed'
        BY DEF ViewersAreFed
    <2>1. CASE u = t
        BY <2>1
    <2>2. CASE u # t
        <3>1. request'[u] = request[u] /\ request[u].stream \in StreamIds
            BY <2>2 DEF StreamsInv, StreamsAreMade
        <3>2. \/ request[u].stream = current /\ u \in streams[request[u].stream].queues
              \/ streams[request[u].stream].closed /\ u \notin streams[request[u].stream].queues
              \/ u \in missed
            BY <3>1 DEF StreamsInv, ViewersAreFed
        <3>3. QED
            BY <2>2, <3>1, <3>2
    <2>3. QED
        BY <2>1, <2>2
<1>5. QED
    BY <1>1, <1>2, <1>3, <1>4 DEF StreamsInv

\* A task has its stream, which has started and has somebody who minds it.
LEMMA EnterKeeps ==
    ASSUME StreamsInv, NEW t \in ElTasks, NEW does \in {"none", "view", "live", "record"},
           NEW s \in StreamIds, NEW st \in Streams, streams[s].made,
           st.made, st.started, st.closed = streams[s].closed, st.queues = streams[s].queues,
           st.waiting = streams[s].waiting, st.idle \/ st.queues # {},
           request[t].pc = "idle" \/ (request[t].pc = "granted" /\ request[t].stream = s),
           s = current \/ t \in missed',
           \A u \in ElTasks : u # t /\ u \in missed => u \in missed',
           Enter(t, does, s, st), current' = current
    PROVE  StreamsInv'
<1> DEFINE d == IF does = "view" THEN AddSubscriber(st, t) ELSE st
           r == IF does = "live" THEN ElIdle
                ELSE [does |-> does, stream |-> s, pc |-> IF does = "view" THEN "watch" ELSE "has"]
<1>1. /\ streams \in [StreamIds -> Streams] /\ current \in 0 .. ElStreams
      /\ request \in [ElTasks -> Requests] /\ picture \in [ElTasks -> {"none", "whole"}]
    BY PicturesAreWhole DEF StreamsInv, EufyTyped
<1>2. /\ streams' = [streams EXCEPT ![s] = d] /\ request' = [request EXCEPT ![t] = r]
      /\ picture' = [picture EXCEPT ![t] = IF does = "view" /\ st.gop THEN "whole" ELSE "none"]
    BY DEF Enter
<1>3. /\ d \in Streams /\ d.made /\ d.started /\ d.closed = st.closed /\ d.idle = st.idle
      /\ d.queues = (IF does = "view" THEN st.queues \union {t} ELSE st.queues)
      /\ st.waiting \subseteq d.waiting /\ (does = "view" /\ ~st.gop => t \in d.waiting)
    <2>1. CASE does = "view"
        BY <2>1 DEF AddSubscriber, Streams
    <2>2. CASE does # "view"
        BY <2>2
    <2>3. QED
        BY <2>1, <2>2
<1>4. /\ r \in Requests /\ r.pc \notin {"asked", "granted"}
      /\ (does = "view" => r.pc = "watch" /\ r.stream = s) /\ (r.pc = "watch" => does = "view")
    BY EufyAssumption DEF Requests, ElIdle, StreamIds
<1> HIDE DEF d, r
<1>5. /\ request' \in [ElTasks -> Requests] /\ request'[t] = r
      /\ \A u \in ElTasks : u # t => request'[u] = request[u]
    BY <1>1, <1>2, <1>4
<1>6. /\ streams' \in [StreamIds -> Streams] /\ streams'[s] = d
      /\ \A k \in StreamIds : k # s => streams'[k] = streams[k]
    BY <1>1, <1>2, <1>3
<1>7. /\ picture' \in [ElTasks -> {"none", "whole"}] /\ \A u \in ElTasks : u # t => picture'[u] = picture[u]
      /\ (does = "view" /\ st.gop => picture'[t] = "whole")
    BY <1>1, <1>2
<1>8. current # 0 => /\ streams[current].queues \subseteq ElTasks
                     /\ \A u \in streams[current].queues :
                           /\ u # t /\ request[u].pc = "watch" /\ request[u].stream = current
                           /\ u \in streams[current].waiting \/ picture[u] = "whole"
    BY <1>1, EufyAssumption DEF StreamsInv, ViewersWatch, StreamIds, Streams
<1>9. ViewersWatch'
    <2> SUFFICES ASSUME current # 0, NEW u \in streams'[current].queues
                 PROVE  /\ request'[u].pc = "watch" /\ request'[u].stream = current
                        /\ u \in streams'[current].waiting \/ picture'[u] = "whole"
        BY DEF ViewersWatch
    <2>1. current \in StreamIds
        BY <1>1, EufyAssumption DEF StreamIds
    <2>2. CASE u \in streams[current].queues
        BY <1>3, <1>5, <1>6, <1>7, <1>8, <2>1, <2>2
    <2>3. CASE u \notin streams[current].queues
        <3>1. s = current /\ does = "view" /\ u = t
            BY <1>3, <1>6, <2>1, <2>3
        <3>2. QED
            BY <1>3, <1>4, <1>5, <1>6, <1>7, <3>1
    <2>4. QED
        BY <2>2, <2>3
<1>10. CurrentIsMinded'
    <2> SUFFICES ASSUME current # 0
                 PROVE  IF streams'[current].started
                        THEN streams'[current].queues # {} \/ streams'[current].idle
                        ELSE \E u \in ElTasks : /\ request'[u].stream = current
                                                 /\ request'[u].pc \in {"asked", "granted", "denied"}
        BY DEF CurrentIsMinded
    <2>1. current \in StreamIds
        BY <1>1, EufyAssumption DEF StreamIds
    <2>2. CASE s = current
        BY <1>3, <1>6, <2>2
    <2>3. CASE s # current
        <3>1. IF streams[current].started
              THEN streams[current].queues # {} \/ streams[current].idle
              ELSE \E u \in ElTasks : /\ request[u].stream = current
                                       /\ request[u].pc \in {"asked", "granted", "denied"}
            BY DEF StreamsInv, CurrentIsMinded
        <3>2. \A u \in ElTasks : request[u].stream = current
                                 /\ request[u].pc \in {"asked", "granted", "denied"} => u # t
            BY <2>3
        <3>3. CASE streams[current].started
            BY <1>6, <2>1, <2>3, <3>1, <3>3
        <3>4. CASE ~streams[current].started
            BY <1>5, <1>6, <2>1, <2>3, <3>1, <3>2, <3>4
        <3>5. QED
            BY <3>3, <3>4
    <2>4. QED
        BY <2>2, <2>3
<1>11. \A k \in StreamIds :
          /\ streams'[k].made = streams[k].made /\ streams'[k].closed = streams[k].closed
          /\ \A u \in ElTasks : u # t => (u \in streams'[k].queues <=> u \in streams[k].queues)
          /\ ~streams[k].made => streams'[k].queues = {} /\ ~streams'[k].started
    <2> SUFFICES ASSUME NEW k \in StreamIds
                 PROVE  /\ streams'[k].made = streams[k].made /\ streams'[k].closed = streams[k].closed
                        /\ \A u \in ElTasks : u # t => (u \in streams'[k].queues <=> u \in streams[k].queues)
                        /\ ~streams[k].made => streams'[k].queues = {} /\ ~streams'[k].started
        OBVIOUS
    <2>1. ~streams[k].made => streams[k].queues = {} /\ ~streams[k].started
        BY DEF StreamsInv, StreamsAreMade
    <2>2. CASE k = s
        <3>1. streams[s].made = TRUE /\ d.made = TRUE
            BY <1>1, <1>3 DEF Streams
        <3>2. \A u \in ElTasks : u # t => (u \in d.queues <=> u \in streams[s].queues)
            BY <1>3
        <3>3. d.closed = streams[s].closed
            BY <1>3
        <3>4. QED
            BY <1>6, <2>2, <3>1, <3>2, <3>3
    <2>3. CASE k # s
        BY <1>6, <2>1, <2>3
    <2>4. QED
        BY <2>2, <2>3
<1>12. request'[t].pc = "watch" =>
          /\ request'[t].stream \in StreamIds /\ streams[request'[t].stream].made
          /\ \/ request'[t].stream = current /\ t \in streams'[current].queues
             \/ t \in missed'
    BY <1>3, <1>4, <1>5, <1>6
<1>13. QED
    BY <1>4, <1>5, <1>6, <1>7, <1>9, <1>10, <1>11, <1>12, OneMoves

\* unsubscribe, while others watch or no stream is registered.
LEMMA ViewerLeaves ==
    ASSUME StreamsInv, NEW t \in ElTasks, request[t].pc = "watch", ~LastToLeave(t),
           streams' = IF current = 0 THEN streams
                      ELSE [streams EXCEPT ![current].queues = @ \ {t}, ![current].waiting = @ \ {t}],
           request' = [request EXCEPT ![t] = ElIdle], picture' = [picture EXCEPT ![t] = "none"],
           UNCHANGED <<current, missed>>
    PROVE  StreamsInv'
<1>1. /\ streams \in [StreamIds -> Streams] /\ current \in 0 .. ElStreams
      /\ request \in [ElTasks -> Requests] /\ picture \in [ElTasks -> {"none", "whole"}]
      /\ ElIdle \in Requests /\ ElIdle.pc = "idle"
    BY PicturesAreWhole, EufyAssumption DEF StreamsInv, EufyTyped, ElIdle, Requests
<1>2. /\ request' \in [ElTasks -> Requests] /\ request'[t].pc = "idle"
      /\ \A u \in ElTasks : u # t => request'[u] = request[u]
      /\ picture' \in [ElTasks -> {"none", "whole"}] /\ \A u \in ElTasks : u # t => picture'[u] = picture[u]
    BY <1>1
<1>3. current # 0 => current \in StreamIds
    BY <1>1, EufyAssumption DEF StreamIds
<1>4. /\ streams' \in [StreamIds -> Streams]
      /\ \A k \in StreamIds :
            /\ streams'[k].made = streams[k].made /\ streams'[k].closed = streams[k].closed
            /\ streams'[k].started = streams[k].started /\ streams'[k].idle = streams[k].idle
            /\ streams'[k].queues \subseteq streams[k].queues
            /\ \A u \in ElTasks : u # t => /\ (u \in streams'[k].queues <=> u \in streams[k].queues)
                                           /\ (u \in streams'[k].waiting <=> u \in streams[k].waiting)
            /\ (k = current => t \notin streams'[k].queues)
    <2>1. CASE current = 0
        BY <1>1, <2>1, EufyAssumption DEF StreamIds
    <2>2. CASE current # 0
        <3> DEFINE d == [streams[current] EXCEPT !.queues = @ \ {t}, !.waiting = @ \ {t}]
        <3>1. streams[current] \in Streams /\ streams' = [streams EXCEPT ![current] = d]
            BY <1>1, <1>3, <2>2
        <3>2. /\ d \in Streams /\ d.made = streams[current].made /\ d.closed = streams[current].closed
              /\ d.started = streams[current].started /\ d.idle = streams[current].idle
              /\ d.queues = streams[current].queues \ {t} /\ d.waiting = streams[current].waiting \ {t}
            BY <3>1 DEF Streams
        <3> HIDE DEF d
        <3>3. QED
            BY <1>1, <1>3, <2>2, <3>1, <3>2
    <2>3. QED
        BY <2>1, <2>2
<1>5. ViewersWatch'
    <2> SUFFICES ASSUME current # 0, NEW u \in streams'[current].queues
                 PROVE  /\ request'[u].pc = "watch" /\ request'[u].stream = current
                        /\ u \in streams'[current].waiting \/ picture'[u] = "whole"
        BY DEF ViewersWatch
    <2>1. u \in streams[current].queues /\ u # t /\ u \in ElTasks
        BY <1>1, <1>3, <1>4 DEF Streams
    <2>2. QED
        BY <1>2, <1>3, <1>4, <2>1 DEF StreamsInv, ViewersWatch
<1>6. CurrentIsMinded'
    <2> SUFFICES ASSUME current # 0
                 PROVE  IF streams'[current].started
                        THEN streams'[current].queues # {} \/ streams'[current].idle
                        ELSE \E u \in ElTasks : /\ request'[u].stream = current
                                                 /\ request'[u].pc \in {"asked", "granted", "denied"}
        BY DEF CurrentIsMinded
    <2>1. streams'[current].queues # {}
        <3>1. PICK u \in streams[current].queues : u # t
            BY DEF LastToLeave
        <3>2. u \in ElTasks
            BY <1>1, <1>3 DEF Streams
        <3>3. QED
            BY <1>3, <1>4, <3>1, <3>2
    <2>2. CASE streams[current].started
        BY <1>3, <1>4, <2>1, <2>2
    <2>3. CASE ~streams[current].started
        <3>1. PICK u \in ElTasks : /\ request[u].stream = current
                                   /\ request[u].pc \in {"asked", "granted", "denied"}
            BY <2>3 DEF StreamsInv, CurrentIsMinded
        <3>2. QED
            BY <1>2, <1>3, <1>4, <2>3, <3>1
    <2>4. QED
        BY <2>2, <2>3
<1>7. \A k \in StreamIds : ~streams[k].made => streams'[k].queues = {} /\ ~streams'[k].started
    BY <1>4 DEF StreamsInv, StreamsAreMade
<1>8. QED
    BY <1>2, <1>4, <1>5, <1>6, <1>7, OneMoves

\* The streams alone change, and neither who is in their queues nor whether they are
\* closed or started.
LEMMA NobodyMoves ==
    ASSUME StreamsInv, UNCHANGED <<request, current, missed>>,
           streams' \in [StreamIds -> Streams], picture' \in [ElTasks -> {"none", "whole"}],
           \A k \in StreamIds : /\ streams'[k].made = streams[k].made
                                /\ streams'[k].started = streams[k].started
                                /\ streams'[k].closed = streams[k].closed
                                /\ streams'[k].queues = streams[k].queues
                                /\ k = current => streams'[k].idle = streams[k].idle \/ streams[k].queues # {},
           current # 0 => \A u \in streams[current].queues :
              u \in streams'[current].waiting \/ picture'[u] = "whole"
    PROVE  StreamsInv'
<1>1. EufyTyped' /\ StartsAtKeyframe'
    BY DEF StreamsInv, EufyTyped, StartsAtKeyframe
<1>2. current # 0 => current \in StreamIds
    BY EufyAssumption DEF StreamsInv, EufyTyped, StreamIds
<1>3. StreamsAreMade'
    BY <1>2 DEF StreamsInv, StreamsAreMade
<1>4. ViewersWatch'
    BY <1>2 DEF StreamsInv, ViewersWatch
<1>5. CurrentIsMinded'
    BY <1>2 DEF StreamsInv, CurrentIsMinded
<1>6. CallersKnow'
    BY DEF StreamsInv, CallersKnow
<1>7. ViewersAreFed'
    BY DEF StreamsInv, StreamsAreMade, ViewersAreFed
<1>8. QED
    BY <1>1, <1>3, <1>4, <1>5, <1>6, <1>7 DEF StreamsInv

\* _stop_if_idle finds another stream registered, or a viewer.
LEMMA IdleEnds ==
    ASSUME StreamsInv, NEW s \in StreamIds, ~(current = s /\ streams[s].queues = {}),
           streams' = [streams EXCEPT ![s].idle = FALSE],
           UNCHANGED <<request, picture, current, missed>>
    PROVE  StreamsInv'
<1> DEFINE d == [streams[s] EXCEPT !.idle = FALSE]
<1>1. streams \in [StreamIds -> Streams] /\ picture' \in [ElTasks -> {"none", "whole"}]
    BY PicturesAreWhole DEF StreamsInv, EufyTyped
<1>2. streams[s] \in Streams /\ streams' = [streams EXCEPT ![s] = d]
    BY <1>1
<1>3. /\ d \in Streams /\ d.made = streams[s].made /\ d.closed = streams[s].closed
      /\ d.started = streams[s].started /\ d.queues = streams[s].queues /\ d.waiting = streams[s].waiting
    BY <1>2 DEF Streams
<1> HIDE DEF d
<1>4. /\ streams' \in [StreamIds -> Streams] /\ streams'[s] = d
      /\ \A k \in StreamIds : k # s => streams'[k] = streams[k]
    BY <1>1, <1>2, <1>3
<1>5. current # 0 => current \in StreamIds
    BY EufyAssumption DEF StreamsInv, EufyTyped, StreamIds
<1>6. current # 0 => \A u \in streams[current].queues :
          u \in streams'[current].waiting \/ picture'[u] = "whole"
    BY <1>3, <1>4, <1>5 DEF StreamsInv, ViewersWatch
<1>7. QED
    BY <1>1, <1>3, <1>4, <1>6, NobodyMoves

\* A chunk of video reaches the viewers that have had a keyframe; a keyframe all.
LEMMA ChunkPublished ==
    ASSUME StreamsInv, NEW key \in BOOLEAN, Chunk(key), UNCHANGED <<request, current, missed>>
    PROVE  StreamsInv'
<1>1. /\ streams \in [StreamIds -> Streams] /\ current \in 0 .. ElStreams
      /\ picture \in [ElTasks -> {"none", "whole"}]
    BY PicturesAreWhole DEF StreamsInv, EufyTyped
<1>2. CASE current = 0
    BY <1>1, <1>2, NobodyMoves DEF Chunk
<1>3. CASE current # 0
    <2> DEFINE st == streams[current]
    <2>1. current \in StreamIds
        BY <1>1, <1>3, EufyAssumption DEF StreamIds
    <2>2. PICK drop \in {FALSE, ~key} :
              streams' = [streams EXCEPT ![current] = Published(st, key, drop)]
        BY <1>3 DEF Chunk
    <2>3. picture' = [t \in ElTasks |->
              IF t \in st.queues /\ (key \/ t \notin st.waiting) /\ picture[t] = "none"
              THEN IF key THEN "whole" ELSE "torn" ELSE picture[t]]
        BY <1>3 DEF Chunk
    <2>4. st \in Streams /\ drop \in BOOLEAN
        BY <1>1, <2>1
    <2>5. \A t \in st.queues : t \in ElTasks /\ (t \in st.waiting \/ picture[t] = "whole")
        BY <1>3, <2>4 DEF StreamsInv, ViewersWatch, Streams
    <2> DEFINE d == Published(st, key, drop)
    <2>6. /\ d \in Streams /\ d.made = st.made /\ d.started = st.started /\ d.closed = st.closed
          /\ d.queues = st.queues /\ d.idle = st.idle
          /\ d.waiting = IF key THEN {} ELSE st.waiting
        <3> HIDE DEF st
        <3>1. QED
            BY <2>4 DEF Published, Streams
    <2> HIDE DEF d
    <2>7. /\ streams' \in [StreamIds -> Streams] /\ streams'[current] = d
          /\ \A k \in StreamIds : k # current => streams'[k] = streams[k]
        BY <1>1, <2>1, <2>2, <2>6 DEF d
    <2>8. ASSUME NEW t \in ElTasks
          PROVE  /\ picture'[t] \in {"none", "whole"}
                 /\ picture[t] = "whole" => picture'[t] = "whole"
                 /\ key /\ t \in st.queues => picture'[t] = "whole"
        <3> HIDE DEF st
        <3>1. QED
            BY <1>1, <2>3, <2>5
    <2>9. picture' \in [ElTasks -> {"none", "whole"}]
        BY <2>3, <2>8
    <2>10. \A t \in st.queues : t \in streams'[current].waiting \/ picture'[t] = "whole"
        BY <2>5, <2>6, <2>7, <2>8
    <2>11. QED
        BY <2>6, <2>7, <2>9, <2>10, NobodyMoves
<1>4. QED
    BY <1>2, <1>3

\* A result is there: its task waits on, or is done with its stop.
LEMMA ResultHeard ==
    ASSUME StreamsInv, NEW t,
           \/ ResultFor(t, "asked", "granted") \/ ResultFor(t, "asked", "denied")
           \/ ResultFor(t, "stopping", "idle")
    PROVE  StreamsInv'
<1>1. UNCHANGED <<streams, current, picture, missed>> /\ picture' \in [ElTasks -> {"none", "whole"}]
    BY PicturesAreWhole DEF ResultFor
<1>2. CASE request' = request
    <2>1. /\ streams' \in [StreamIds -> Streams]
          /\ current # 0 => \A u \in streams[current].queues :
                u \in streams'[current].waiting \/ picture'[u] = "whole"
        BY <1>1 DEF StreamsInv, EufyTyped, ViewersWatch
    <2>2. QED
        BY <1>1, <1>2, <2>1, NobodyMoves
<1>3. CASE request' # request
    <2>1. \/ t \in ElTasks /\ request[t].pc = "asked" /\ request' = At(t, "granted")
          \/ t \in ElTasks /\ request[t].pc = "asked" /\ request' = At(t, "denied")
          \/ t \in ElTasks /\ request[t].pc = "stopping" /\ request' = [request EXCEPT ![t] = ElIdle]
        BY <1>3 DEF ResultFor
    <2>2. ElIdle \in Requests /\ ElIdle.pc = "idle"
        BY EufyAssumption DEF ElIdle, Requests
    <2>3. QED
        BY <1>1, <2>1, <2>2, CallerMoves, TaskMoves
<1>4. QED
    BY <1>2, <1>3

\* What comes back over the socket, in order.
LEMMA NewsDispatched ==
    ASSUME StreamsInv, Dispatch
    PROVE  StreamsInv'
<1> DEFINE n == Head(news)
<1>1. \/ ResultFor(n.for, "asked", "granted") \/ ResultFor(n.for, "asked", "denied")
      \/ ResultFor(n.for, "stopping", "idle")
      \/ /\ current' = 0 /\ missed' = missed \union Callers(current)
         /\ streams' = IF current = 0 THEN streams ELSE [streams EXCEPT ![current] = Closed(current)]
         /\ UNCHANGED <<request, picture>>
      \/ /\ Chunk(n.what = "key") /\ UNCHANGED <<request, current, missed>>
    BY DEF Dispatch
<1>2. CASE \/ ResultFor(n.for, "asked", "granted") \/ ResultFor(n.for, "asked", "denied")
           \/ ResultFor(n.for, "stopping", "idle")
    BY <1>2, ResultHeard
<1>3. CASE /\ current' = 0 /\ missed' = missed \union Callers(current)
           /\ streams' = IF current = 0 THEN streams ELSE [streams EXCEPT ![current] = Closed(current)]
           /\ UNCHANGED <<request, picture>>
    <2>1. /\ request' \in [ElTasks -> Requests] /\ picture' \in [ElTasks -> {"none", "whole"}]
          /\ \A t \in ElTasks : request'[t].pc \in {"asked", "granted", "watch"} => request'[t] = request[t]
        BY <1>3, PicturesAreWhole DEF StreamsInv, EufyTyped
    <2>2. QED
        BY <1>3, <2>1, CurrentForgotten
<1>4. CASE Chunk(n.what = "key") /\ UNCHANGED <<request, current, missed>>
    <2> DEFINE key == n.what = "key"
    <2>1. key \in BOOLEAN /\ Chunk(key)
        BY <1>4
    <2> HIDE DEF key
    <2>2. QED
        BY <1>4, <2>1, ChunkPublished
<1>5. QED
    BY <1>1, <1>2, <1>3, <1>4

\* The socket is lost.
LEMMA SocketIsLost ==
    ASSUME StreamsInv, SocketLost
    PROVE  StreamsInv'
<1>1. /\ streams \in [StreamIds -> Streams] /\ current \in 0 .. ElStreams
      /\ request \in [ElTasks -> Requests] /\ ElIdle \in Requests /\ ElIdle.pc = "idle"
    BY EufyAssumption DEF StreamsInv, EufyTyped, ElIdle, Requests
<1>2. /\ streams' = [s \in StreamIds |-> IF s = current THEN Closed(s) ELSE streams[s]]
      /\ current' = 0 /\ picture' = picture /\ missed' = missed \union Callers(current)
      /\ request' = [t \in ElTasks |-> IF request[t].pc \in {"asked", "stopping"} THEN ElIdle ELSE request[t]]
    BY DEF SocketLost
<1>3. streams' = IF current = 0 THEN streams ELSE [streams EXCEPT ![current] = Closed(current)]
    <2>1. CASE current = 0
        BY <1>1, <1>2, <2>1, EufyAssumption DEF StreamIds
    <2>2. CASE current # 0
        <3> DEFINE c == Closed(current)
        <3>1. streams' = [s \in StreamIds |-> IF s = current THEN c ELSE streams[s]]
            BY <1>2
        <3> HIDE DEF c
        <3>2. streams' = [streams EXCEPT ![current] = c]
            BY <1>1, <3>1
        <3>3. QED
            BY <2>2, <3>2 DEF c
    <2>3. QED
        BY <2>1, <2>2
<1>4. /\ request' \in [ElTasks -> Requests] /\ picture' \in [ElTasks -> {"none", "whole"}]
      /\ \A t \in ElTasks : request'[t].pc \in {"asked", "granted", "watch"} => request'[t] = request[t]
    BY <1>1, <1>2, PicturesAreWhole
<1>5. QED
    BY <1>2, <1>3, <1>4, CurrentForgotten

\* What a task that has its stream, or asks for one, does.
LEMMA StreamAskedOrEntered ==
    ASSUME StreamsInv, NEW t \in ElTasks, NEW does \in {"view", "live", "record"},
           StartLivestream(t, does)
    PROVE  StreamsInv'
<1>1. request[t] = ElIdle /\ missed' = missed \ {t} /\ request[t].pc = "idle"
    BY DEF StartLivestream, ElIdle
<1>2. CASE current # 0 /\ streams[current].started /\ Enter(t, does, current, streams[current]) /\ current' = current
    <2>1. current \in StreamIds /\ streams[current] \in Streams /\ streams[current].made
        BY <1>2, EufyAssumption DEF StreamsInv, EufyTyped, StreamsAreMade, StreamIds
    <2>2. streams[current].idle \/ streams[current].queues # {}
        BY <1>2 DEF StreamsInv, CurrentIsMinded
    <2>3. QED
        BY <1>1, <1>2, <2>1, <2>2, EnterKeeps
<1>3. CASE /\ IF current = 0 THEN Unmade # {} ELSE ~streams[current].started
           /\ current' = IF current = 0 THEN NewStream ELSE current
           /\ streams' = [streams EXCEPT ![current'].made = TRUE]
           /\ request' = [request EXCEPT ![t] = [does |-> does, stream |-> current', pc |-> "asked"]]
           /\ UNCHANGED picture
    BY <1>1, <1>3, StreamAsked
<1>4. QED
    BY <1>2, <1>3 DEF StartLivestream

LEMMA StreamGranted ==
    ASSUME StreamsInv, NEW t \in ElTasks, Granted(t)
    PROVE  StreamsInv'
<1> DEFINE s == request[t].stream
           st == Begun(streams[s])
           does == request[t].does
<1>1. request[t].pc = "granted" /\ current' = current /\ missed' = missed
    BY DEF Granted
<1>2. s \in StreamIds /\ streams[s].made /\ streams[s] \in Streams /\ request[t] \in Requests
    BY <1>1 DEF StreamsInv, EufyTyped, StreamsAreMade
<1>3. s = current \/ t \in missed
    BY <1>1 DEF StreamsInv, CallersKnow
<1>4. does \in {"none", "view", "live", "record"}
    BY <1>2 DEF Requests
<1>5. /\ st \in Streams /\ st.made /\ st.started /\ st.closed = streams[s].closed
      /\ st.queues = streams[s].queues /\ st.waiting = streams[s].waiting
      /\ st.idle \/ st.queues # {}
    BY <1>2 DEF Begun, Streams
<1>6. Enter(t, does, s, st)
    BY DEF Granted
<1> HIDE DEF s, st, does
<1>7. request[t].pc = "granted" /\ request[t].stream = s
    BY <1>1 DEF s
<1>8. QED
    BY <1>1, <1>2, <1>3, <1>4, <1>5, <1>6, <1>7, EnterKeeps

LEMMA RecorderLeaves ==
    ASSUME StreamsInv, NEW t \in ElTasks, Recorded(t)
    PROVE  StreamsInv'
<1>1. request[t].pc = "has" /\ picture' = picture /\ picture' \in [ElTasks -> {"none", "whole"}]
    BY PicturesAreWhole DEF Recorded
<1>2. ElIdle \in Requests /\ ElIdle.pc = "idle"
    BY EufyAssumption DEF ElIdle, Requests
<1>3. \/ request' = [request EXCEPT ![t] = ElIdle] /\ UNCHANGED <<streams, current, missed>>
      \/ StopLivestream(t) /\ request' = At(t, "stopping")
    BY DEF Recorded
<1>4. QED
    BY <1>1, <1>2, <1>3, TaskMoves, StreamStopped

\* Every step keeps who has which stream.
LEMMA StreamsStep ==
    ASSUME StreamsInv, EufyNext
    PROVE  StreamsInv'
<1>0. picture \in [ElTasks -> {"none", "whole"}]
    BY PicturesAreWhole
<1>1. ASSUME NEW t \in ElTasks, NEW does \in {"view", "live", "record"}, StartLivestream(t, does)
      PROVE  StreamsInv'
    BY <1>1, StreamAskedOrEntered
<1>2. ASSUME NEW t \in ElTasks, Granted(t) PROVE StreamsInv'
    BY <1>2, StreamGranted
<1>3. ASSUME NEW t \in ElTasks, Denied(t) PROVE StreamsInv'
    BY <1>3, StreamForgotten DEF Denied
<1>4. ASSUME NEW t \in ElTasks, TimesOut(t) PROVE StreamsInv'
    <2>1. CASE request[t].pc = "asked"
        BY <1>4, <2>1, StreamForgotten DEF TimesOut
    <2>2. CASE request[t].pc # "asked"
        <3>1. /\ request[t].pc = "stopping" /\ request' = [request EXCEPT ![t] = ElIdle]
              /\ UNCHANGED <<streams, current, picture, missed>>
            BY <1>4, <2>2 DEF TimesOut
        <3>2. ElIdle \in Requests /\ ElIdle.pc = "idle"
            BY EufyAssumption DEF ElIdle, Requests
        <3>3. QED
            BY <3>1, <3>2, TaskMoves
    <2>3. QED
        BY <2>1, <2>2
<1>5. ASSUME NEW t \in ElTasks, Unsubscribe(t) PROVE StreamsInv'
    <2>1. picture' \in [ElTasks -> {"none", "whole"}] /\ picture' = [picture EXCEPT ![t] = "none"]
        BY <1>0, <1>5 DEF Unsubscribe
    <2>2. CASE LastToLeave(t)
        BY <1>5, <2>1, <2>2, StreamStopped DEF Unsubscribe
    <2>3. CASE ~LastToLeave(t)
        BY <1>5, <2>3, ViewerLeaves DEF Unsubscribe
    <2>4. QED
        BY <2>2, <2>3
<1>6. ASSUME NEW t \in ElTasks, Recorded(t) PROVE StreamsInv'
    BY <1>6, RecorderLeaves
<1>7. ASSUME NEW t \in ElTasks, NEW s \in StreamIds, StopIfIdle(t, s) PROVE StreamsInv'
    <2>1. CASE current = s /\ streams[s].queues = {}
        BY <1>0, <1>7, <2>1, StreamStopped DEF StopIfIdle
    <2>2. CASE ~(current = s /\ streams[s].queues = {})
        BY <1>7, <2>2, IdleEnds DEF StopIfIdle
    <2>3. QED
        BY <2>1, <2>2
<1>8. ASSUME UNCHANGED <<streams, current, request, picture, missed>> PROVE StreamsInv'
    BY <1>8 DEF StreamsInv, EufyTyped, StreamsAreMade, ViewersWatch, CurrentIsMinded,
                StartsAtKeyframe, CallersKnow, ViewersAreFed
<1>9. BridgeObeys => StreamsInv'
    BY <1>8 DEF BridgeObeys
<1>10. ASSUME NEW what, DeviceSends(what) PROVE StreamsInv'
    BY <1>8, <1>10 DEF DeviceSends
<1>11. Dispatch => StreamsInv'
    BY NewsDispatched
<1>12. SocketLost => StreamsInv'
    BY SocketIsLost
<1>13. QED
    BY <1>1, <1>2, <1>3, <1>4, <1>5, <1>6, <1>7, <1>9, <1>10, <1>11, <1>12 DEF EufyNext

LEMMA SeqSuffix ==
    ASSUME NEW S, NEW q \in Seq(S), q # <<>>
    PROVE  /\ Tail(q) \in Seq(S) /\ Len(Tail(q)) = Len(q) - 1 /\ Len(q) \in Nat \ {0}
           /\ \A i \in 1 .. Len(q) - 1 : Tail(q)[i] = q[i + 1]
           /\ Head(q) = q[1] /\ Head(q) \in S
BY HeadTailProperties, EmptySeq

\* A command is sent behind the others.
LEMMA CommandSent ==
    ASSUME commands \in Seq(Commands), NEW c \in Commands, commands' = Append(commands, c)
    PROVE  commands' \in Seq(Commands) /\ commands' # <<>> /\ commands'[Len(commands')] = c
BY AppendProperties

\* The bridge carries out the first command.
LEMMA StopObeyed ==
    ASSUME StopIsLast, BridgeObeys
    PROVE  StopIsLast'
<1> DEFINE n == Len(commands)
           c == Head(commands)
<1>1. /\ commands \in Seq(Commands) /\ commands # <<>> /\ commands' = Tail(commands)
      /\ current' = current /\ adrift' = (adrift /\ Wakeful')
      /\ (c.what = "start" => awake' \in {TRUE, awake})
      /\ (c.what # "start" => awake' = FALSE)
    BY DEF BridgeObeys, StopIsLast
<1>2. /\ commands' \in Seq(Commands) /\ Len(commands') = n - 1 /\ n \in Nat \ {0}
      /\ \A i \in 1 .. n - 1 : commands'[i] = commands[i + 1]
      /\ c = commands[1] /\ c \in Commands
    BY <1>1, SeqSuffix
<1>3. SUFFICES ASSUME current = 0, Wakeful', ~adrift'
               PROVE  commands' # <<>> /\ commands'[Len(commands')].what = "stop"
    BY <1>1, <1>2 DEF StopIsLast
<1>4. ~adrift
    BY <1>1, <1>3
<1>5. Wakeful
    <2>1. awake' \/ \E i \in DOMAIN commands' : commands'[i].what = "start"
        BY <1>3 DEF Wakeful
    <2>2. DOMAIN commands = 1 .. n /\ DOMAIN commands' = 1 .. n - 1
        BY <1>1, <1>2
    <2>3. CASE awake'
        <3>1. c.what = "start"
            BY <1>1, <2>3
        <3>2. QED
            BY <1>2, <2>2, <3>1 DEF Wakeful
    <2>4. CASE \E i \in DOMAIN commands' : commands'[i].what = "start"
        <3>1. PICK i \in 1 .. n - 1 : commands'[i].what = "start"
            BY <2>2, <2>4
        <3>2. commands[i + 1].what = "start" /\ i + 1 \in 1 .. n
            BY <1>2, <3>1
        <3>3. QED
            BY <2>2, <3>2 DEF Wakeful
    <2>5. QED
        BY <2>1, <2>3, <2>4
<1>6. commands[n].what = "stop"
    BY <1>3, <1>4, <1>5 DEF StopIsLast
<1>7. CASE n = 1
    <2>1. c.what = "stop" /\ Len(commands') = 0
        BY <1>2, <1>6, <1>7
    <2>2. ~awake' /\ DOMAIN commands' = {}
        BY <1>1, <1>2, <2>1
    <2>3. QED
        BY <1>3, <2>2 DEF Wakeful
<1>8. CASE n # 1
    <2>1. n - 1 \in 1 .. n - 1 /\ (n - 1) + 1 = n
        BY <1>2, <1>8
    <2>2. commands'[n - 1] = commands[n]
        BY <1>2, <2>1
    <2>3. QED
        BY <1>2, <1>6, <1>8, <2>2, EmptySeq
<1>9. QED
    BY <1>7, <1>8

\* Every step keeps the stop last.
LEMMA StopStep ==
    ASSUME StopIsLast, current \in 0 .. ElStreams, EufyNext
    PROVE  StopIsLast'
<1>0. commands \in Seq(Commands)
    BY DEF StopIsLast
<1>1. ASSUME NEW t \in ElTasks, StopLivestream(t) PROVE StopIsLast'
    <2> DEFINE c == [what |-> "stop", by |-> t]
    <2>1. c \in Commands /\ commands' = Append(commands, c) /\ c.what = "stop"
        BY <1>1 DEF StopLivestream, Commands
    <2> HIDE DEF c
    <2>2. commands' \in Seq(Commands) /\ commands' # <<>> /\ commands'[Len(commands')] = c
        BY <1>0, <2>1, CommandSent
    <2>3. QED
        BY <2>1, <2>2 DEF StopIsLast
<1>2. ASSUME UNCHANGED <<commands, current, awake, adrift>> PROVE StopIsLast'
    BY <1>2 DEF StopIsLast, Wakeful
<1>3. ASSUME NEW t \in ElTasks, NEW does \in {"view", "live", "record"}, StartLivestream(t, does)
      PROVE  StopIsLast'
    <2>1. CASE UNCHANGED <<current, commands>>
        BY <1>2, <1>3, <2>1 DEF StartLivestream
    <2>2. CASE /\ IF current = 0 THEN Unmade # {} ELSE ~streams[current].started
               /\ commands' = Append(commands, [what |-> "start", by |-> t])
               /\ current' = IF current = 0 THEN NewStream ELSE current
        <3>1. current' # 0
            BY <2>2, EufyAssumption DEF NewStream, Unmade, StreamIds
        <3> DEFINE c == [what |-> "start", by |-> t]
        <3>2. c \in Commands /\ commands' = Append(commands, c)
            BY <2>2 DEF Commands
        <3> HIDE DEF c
        <3>3. commands' \in Seq(Commands)
            BY <1>0, <3>2, CommandSent
        <3>4. QED
            BY <3>1, <3>3 DEF StopIsLast
    <2>3. QED
        BY <1>3, <2>1, <2>2 DEF StartLivestream
<1>4. ASSUME NEW t \in ElTasks, Granted(t) PROVE StopIsLast'
    BY <1>2, <1>4 DEF Granted
<1>5. ASSUME NEW t \in ElTasks, Denied(t) PROVE StopIsLast'
    <2>1. adrift' = Wakeful /\ UNCHANGED <<commands, awake>>
        BY <1>5 DEF Denied, DropStream
    <2>2. QED
        BY <1>0, <2>1 DEF StopIsLast, Wakeful
<1>6. ASSUME NEW t \in ElTasks, TimesOut(t) PROVE StopIsLast'
    <2> DEFINE late(i) == TooLate(t, commands[i], "by")
    <2>1. /\ commands' = [i \in DOMAIN commands |-> late(i)] /\ awake' = awake
          /\ adrift' = Wakeful \/ UNCHANGED <<current, adrift>>
        BY <1>6 DEF TimesOut, DropStream
    <2>2. \A i \in 1 .. Len(commands) : late(i) \in Commands /\ late(i).what = commands[i].what
        <3> SUFFICES ASSUME NEW i \in 1 .. Len(commands)
                     PROVE  late(i) \in Commands /\ late(i).what = commands[i].what
            OBVIOUS
        <3>1. commands[i] \in Commands
            BY <1>0
        <3>2. QED
            BY <3>1 DEF TooLate, Commands
    <2> HIDE DEF late
    <2>3. Len(commands) \in Nat /\ DOMAIN commands = 1 .. Len(commands)
        BY <1>0
    <2>4. commands' \in Seq(Commands) /\ Len(commands') = Len(commands)
        BY <2>1, <2>2, <2>3
    <2>5. \A i \in 1 .. Len(commands) : commands'[i].what = commands[i].what
        BY <2>1, <2>2, <2>3
    <2>6. Wakeful' = Wakeful
        BY <2>1, <2>3, <2>4, <2>5 DEF Wakeful
    <2>7. commands # <<>> => /\ commands' # <<>>
                             /\ commands'[Len(commands')].what = commands[Len(commands)].what
        BY <2>3, <2>4, <2>5, <1>0, EmptySeq
    <2>8. QED
        BY <2>1, <2>4, <2>6, <2>7 DEF StopIsLast
<1>7. ASSUME NEW t \in ElTasks, Unsubscribe(t) PROVE StopIsLast'
    BY <1>1, <1>2, <1>7 DEF Unsubscribe
<1>8. ASSUME NEW t \in ElTasks, Recorded(t) PROVE StopIsLast'
    BY <1>1, <1>2, <1>8 DEF Recorded
<1>9. ASSUME NEW t \in ElTasks, NEW s \in StreamIds, StopIfIdle(t, s) PROVE StopIsLast'
    BY <1>1, <1>2, <1>9 DEF StopIfIdle
<1>10. ASSUME NEW what, DeviceSends(what) PROVE StopIsLast'
    <2>1. awake /\ adrift' = (adrift /\ Wakeful') /\ UNCHANGED <<commands, current>>
        BY <1>10 DEF DeviceSends
    <2>2. Wakeful
        BY <2>1 DEF Wakeful
    <2>3. QED
        BY <1>0, <2>1, <2>2 DEF StopIsLast
<1>11. Dispatch => StopIsLast'
    <2>1. Dispatch => /\ UNCHANGED <<commands, awake>>
                      /\ adrift' = Wakeful \/ UNCHANGED <<current, adrift>>
        BY DEF Dispatch, ResultFor, Chunk
    <2>2. QED
        BY <1>0, <2>1 DEF StopIsLast, Wakeful
<1>12. SocketLost => StopIsLast'
    BY EmptySeq DEF SocketLost, StopIsLast, Wakeful
<1>13. QED
    BY <1>3, <1>4, <1>5, <1>6, <1>7, <1>8, <1>9, <1>10, <1>11, <1>12, StopObeyed DEF EufyNext

LEMMA EufyStart == EufyInit => EufyInv
<1> SUFFICES ASSUME EufyInit
             PROVE  EufyInv
    OBVIOUS
<1>1. NoStream \in Streams /\ ElIdle \in Requests /\ ElIdle.pc = "idle" /\ ~NoStream.made
      /\ NoStream.queues = {} /\ ~NoStream.started
    BY EufyAssumption DEF NoStream, Streams, ElIdle, Requests
<1>2. StreamsInv
    BY <1>1, EufyAssumption DEF EufyInit, StreamsInv, EufyTyped, StreamsAreMade, ViewersWatch,
       CurrentIsMinded, StartsAtKeyframe, CallersKnow, ViewersAreFed
<1>3. StopIsLast
    BY EmptySeq DEF EufyInit, StopIsLast, Wakeful
<1>4. QED
    BY <1>2, <1>3 DEF EufyInv

LEMMA EufyServes == EufyInv => StreamsAreServed
<1> SUFFICES ASSUME EufyInv
             PROVE  StreamsAreServed
    OBVIOUS
<1>1. StartsAtKeyframe /\ ViewersAreFed
    BY DEF EufyInv, StreamsInv
<1>2. StreamIsMinded
    <2> SUFFICES ASSUME current # 0, ~streams[current].idle
                 PROVE  \E t \in ElTasks : /\ request[t].stream = current
                                          /\ request[t].pc \in {"asked", "granted", "denied", "watch"}
        BY DEF StreamIsMinded
    <2>1. streams[current].queues \subseteq ElTasks
        BY EufyAssumption DEF EufyInv, StreamsInv, EufyTyped, StreamIds, Streams
    <2>2. QED
        BY <2>1 DEF EufyInv, StreamsInv, ViewersWatch, CurrentIsMinded
<1>3. AwakeForSomebody
    <2> SUFFICES ASSUME awake, current = 0, ~adrift
                 PROVE  \E i \in DOMAIN commands : commands[i].what = "stop"
        BY DEF AwakeForSomebody
    <2>1. commands \in Seq(Commands) /\ commands # <<>> /\ commands[Len(commands)].what = "stop"
        BY DEF EufyInv, StopIsLast, Wakeful
    <2>2. Len(commands) \in DOMAIN commands
        BY <2>1, EmptySeq
    <2>3. QED
        BY <2>1, <2>2
<1>4. QED
    BY <1>1, <1>2, <1>3 DEF StreamsAreServed

\* What a viewer sees begins with a keyframe, and it is fed by the registered stream
\* or was told that its own ended; the registered stream has somebody who minds it; the
\* device streams for nobody only until the stop under way. The exceptions are the
\* ones StreamsAreServed names: a stream closed or forgotten before a call ran on or by
\* a failed start, and a device awake behind a start that failed. For any number of
\* tasks, streams, messages and mishaps.
THEOREM StreamsAreServedThroughout == EufySpec => []StreamsAreServed
<1>1. EufyInv /\ [EufyNext]_eufyVars => EufyInv'
    <2> SUFFICES ASSUME EufyInv, [EufyNext]_eufyVars
                 PROVE  EufyInv'
        OBVIOUS
    <2>1. CASE EufyNext
        <3>1. current \in 0 .. ElStreams
            BY DEF EufyInv, StreamsInv, EufyTyped
        <3>2. QED
            BY <2>1, <3>1, StreamsStep, StopStep DEF EufyInv
    <2>2. CASE UNCHANGED eufyVars
        BY <2>2 DEF eufyVars, EufyInv, StreamsInv, EufyTyped, StreamsAreMade, ViewersWatch,
           CurrentIsMinded, StartsAtKeyframe, CallersKnow, ViewersAreFed, StopIsLast, Wakeful, Callers
    <2>3. QED
        BY <2>1, <2>2
<1>2. QED
    BY <1>1, EufyStart, EufyServes, PTL DEF EufySpec

-------------------------------------------------------------------------------
(* Clips                                                                   *)

ClipStates == {"none", "pending", "ready", "skipped", "unavailable", "unsupported", "expired"}
Docs == [photo : {"none", "pending", "captured", "failed"}, clip : ClipStates,
         of : ClEvents \union {ClNone}]
Pipes == [pc : {"new", "route", "attach", "commit", "over"},
          clip : {"none", "pending", "unavailable", "unsupported"},
          job : {"none", "edge", "stream", "incident"}]
Reads == [event : ClEvents, doc : Docs]
Jobs == [kind : {"none", "edge", "stream", "incident"},
         pc : {"none", "await", "fetch", "admit", "insert", "report", "write"},
         events : SUBSET ClEvents, clip : ClipStates, read : SUBSET Reads]

ClipsTyped ==
    /\ doc \in [ClEvents -> Docs] /\ copy \in [ClEvents -> Docs] /\ pipe \in [ClEvents -> Pipes]
    /\ job \in [ClEvents -> Jobs] /\ capture \in [ClEvents -> {"none", "running", "video", "failed"}]
    /\ {shared, admission, sweep} \subseteq ClEvents \union {ClNone}
    /\ clipStored \in [ClEvents -> SUBSET ClEvents] /\ kept \subseteq ClEvents

\* An event has one worker in its life, after its pipeline; it stores one clip
\* and works on no capture that others could still join.
OneWorker ==
    \A e \in ClEvents :
        /\ pipe[e].pc # "over" => job[e].pc = "none" /\ clipStored[e] = {}
        /\ job[e].pc \in {"await", "fetch", "admit", "insert"} => clipStored[e] = {}
        /\ job[e].pc \notin {"none", "await"} => capture[e] = "none"
        /\ \A r \in job[e].read : r.event \in job[e].events

\* Whoever is about to insert holds the lock, and there is room.
Room(kind) == /\ StoredNow + KeptNow + 1 <= ClTotalCap
              /\ kind # "incident" => StoredNow + 1 <= ClEventCap
OneAdmitted == \A e \in ClEvents : job[e].pc = "insert" => admission = e /\ Room(job[e].kind)

\* A worker that reports a clip has stored it, for the events it has to tell.
HasStored(o, j) == IF j.kind = "incident" THEN o \in kept ELSE j.events \subseteq clipStored[o]
ReadyIsStored ==
    \A o \in ClEvents : job[o].pc \in {"report", "write"} /\ job[o].clip = "ready" => HasStored(o, job[o])

SweepsAtRest == sweep # ClNone => AtRest

ClipsInv == /\ ClipsTyped /\ OneWorker /\ OneAdmitted /\ ReadyIsStored /\ SweepsAtRest
            /\ ClipBudget /\ ReadyHasClip

\* While anything is under way for an event, the sweeper has picked nothing.
LEMMA NoSweep ==
    ASSUME ClipsInv, NEW e \in ClEvents,
           \/ pipe[e].pc # "over" \/ job[e].pc # "none" \/ capture[e] # "none" \/ backfill # {}
    PROVE  sweep = ClNone
BY DEF ClipsInv, SweepsAtRest, AtRest, NoJob, NoPipe

\* A step of the pipeline or of the worker of one event that stores no clip.
LEMMA ClipsElsewhere ==
    ASSUME ClipsInv, NEW o \in ClEvents, NEW j \in Jobs,
           doc' \in [ClEvents -> Docs], copy' \in [ClEvents -> Docs], pipe' \in [ClEvents -> Pipes],
           job' = [job EXCEPT ![o] = j],
           capture' \in [ClEvents -> {"none", "running", "video", "failed"}],
           {shared', admission'} \subseteq ClEvents \union {ClNone},
           UNCHANGED <<clipStored, kept, sweep>>, sweep = ClNone,
           \A e \in ClEvents : pipe'[e].pc # "over" => pipe[e].pc # "over",
           \A e \in ClEvents : capture[e] = "none" /\ pipe[e].pc # "new" => capture'[e] = "none",
           pipe'[o].pc # "over" => j.pc = "none",
           j.pc \in {"await", "fetch", "admit", "insert"} => clipStored[o] = {},
           j.pc \notin {"none", "await"} => capture'[o] = "none",
           \A r \in j.read : r.event \in j.events,
           j.pc = "insert" => admission' = o /\ Room(j.kind),
           \A e \in ClEvents : e # o /\ job[e].pc = "insert" => admission' = e,
           j.pc \in {"report", "write"} /\ j.clip = "ready" => HasStored(o, j),
           ReadyHasClip'
    PROVE  ClipsInv'
<1>1. /\ job \in [ClEvents -> Jobs] /\ pipe \in [ClEvents -> Pipes]
      /\ clipStored \in [ClEvents -> SUBSET ClEvents]
    BY DEF ClipsInv, ClipsTyped
<1>2. /\ job' \in [ClEvents -> Jobs] /\ job'[o] = j
      /\ \A e \in ClEvents : e # o => job'[e] = job[e]
    BY <1>1
<1>3. ClipsTyped'
    BY <1>2 DEF ClipsInv, ClipsTyped
<1>4. OneWorker'
    <2>1. \A e \in ClEvents : job[e].pc \notin {"none", "await"} => pipe[e].pc # "new"
        BY DEF ClipsInv, OneWorker
    <2>2. ASSUME NEW e \in ClEvents
          PROVE  /\ pipe'[e].pc # "over" => job'[e].pc = "none" /\ clipStored'[e] = {}
                 /\ job'[e].pc \in {"await", "fetch", "admit", "insert"} => clipStored'[e] = {}
                 /\ job'[e].pc \notin {"none", "await"} => capture'[e] = "none"
                 /\ \A r \in job'[e].read : r.event \in job'[e].events
        <3>1. /\ pipe[e].pc # "over" => job[e].pc = "none" /\ clipStored[e] = {}
              /\ job[e].pc \in {"await", "fetch", "admit", "insert"} => clipStored[e] = {}
              /\ job[e].pc \notin {"none", "await"} => capture[e] = "none"
              /\ \A r \in job[e].read : r.event \in job[e].events
            BY DEF ClipsInv, OneWorker
        <3>2. CASE e = o
            BY <1>2, <3>1, <3>2
        <3>3. CASE e # o
            BY <1>2, <2>1, <3>1, <3>3
        <3>4. QED
            BY <3>2, <3>3
    <2>3. QED
        BY <2>2 DEF OneWorker
<1>5. \A kind : Room(kind)' <=> Room(kind)
    BY DEF Room, StoredNow, KeptNow
<1>6. OneAdmitted'
    BY <1>2, <1>5 DEF ClipsInv, OneAdmitted
<1>7. \A e \in ClEvents, k \in Jobs : HasStored(e, k)' <=> HasStored(e, k)
    BY DEF HasStored
<1>8. ReadyIsStored'
    <2> SUFFICES ASSUME NEW e \in ClEvents, job'[e].pc \in {"report", "write"}, job'[e].clip = "ready"
                 PROVE  HasStored(e, job[e])'
        BY DEF ReadyIsStored
    <2>1. CASE e = o
        BY <1>2, <2>1 DEF HasStored
    <2>2. CASE e # o
        BY <1>2, <2>2 DEF ClipsInv, ReadyIsStored, HasStored
    <2>3. QED
        BY <2>1, <2>2
<1>9. SweepsAtRest' /\ ClipBudget'
    BY DEF ClipsInv, SweepsAtRest, ClipBudget, StoredNow, KeptNow
<1>10. QED
    BY <1>3, <1>4, <1>6, <1>8, <1>9 DEF ClipsInv

\* Documents whose clip becomes ready or stays so have it.
LEMMA DocsStayTrue ==
    ASSUME ClipsInv, UNCHANGED <<clipStored, kept>>,
           \A e \in ClEvents : doc'[e].clip = "ready" => doc[e].clip = "ready" /\ doc'[e].of = doc[e].of
    PROVE  ReadyHasClip'
BY DEF ClipsInv, ReadyHasClip

\* A step that leaves the workers alone too.
LEMMA ClipsQuiet ==
    ASSUME ClipsInv, NEW o \in ClEvents,
           doc' \in [ClEvents -> Docs], copy' \in [ClEvents -> Docs], pipe' \in [ClEvents -> Pipes],
           capture' \in [ClEvents -> {"none", "running", "video", "failed"}],
           shared' \in ClEvents \union {ClNone},
           UNCHANGED <<job, admission, clipStored, kept, sweep>>, sweep = ClNone,
           \A e \in ClEvents : pipe'[e].pc # "over" => pipe[e].pc # "over",
           \A e \in ClEvents : capture[e] = "none" /\ pipe[e].pc # "new" => capture'[e] = "none",
           ReadyHasClip'
    PROVE  ClipsInv'
<1> DEFINE j == job[o]
<1>1. j \in Jobs /\ job' = [job EXCEPT ![o] = j] /\ admission' \in ClEvents \union {ClNone}
    BY DEF ClipsInv, ClipsTyped
<1>2. /\ pipe[o].pc # "over" => j.pc = "none"
      /\ j.pc \in {"await", "fetch", "admit", "insert"} => clipStored[o] = {}
      /\ j.pc \notin {"none", "await"} => capture[o] = "none"
      /\ \A r \in j.read : r.event \in j.events
    BY DEF ClipsInv, OneWorker
<1>3. \A e \in ClEvents : job[e].pc = "insert" => admission = e /\ Room(job[e].kind)
    BY DEF ClipsInv, OneAdmitted
<1>4. j.pc \in {"report", "write"} /\ j.clip = "ready" => HasStored(o, j)
    BY DEF ClipsInv, ReadyIsStored
<1> HIDE DEF j
<1>5. /\ pipe'[o].pc # "over" => j.pc = "none"
      /\ j.pc \notin {"none", "await"} => capture'[o] = "none"
    <2>1. j.pc \notin {"none", "await"} => pipe[o].pc # "new"
        BY <1>2
    <2>2. QED
        BY <1>2, <2>1
<1>6. /\ j.pc = "insert" => admission' = o /\ Room(j.kind)
      /\ \A e \in ClEvents : e # o /\ job[e].pc = "insert" => admission' = e
    BY <1>3 DEF j
<1>7. QED
    BY <1>1, <1>2, <1>4, <1>5, <1>6, ClipsElsewhere

LEMMA PipelineKeeps ==
    ASSUME ClipsInv, NEW e \in ClEvents,
           \/ \E seeded \in BOOLEAN, photo \in {"pending", "captured"} : Detected(e, seeded, photo)
           \/ \E first \in BOOLEAN : Routed(e, first)
           \/ Edge(e)
    PROVE  ClipsInv'
<1>1. /\ doc \in [ClEvents -> Docs] /\ copy \in [ClEvents -> Docs] /\ pipe \in [ClEvents -> Pipes]
      /\ capture \in [ClEvents -> {"none", "running", "video", "failed"}]
      /\ shared \in ClEvents \union {ClNone}
    BY DEF ClipsInv, ClipsTyped
<1>2. UNCHANGED <<shared, job, admission, clipStored, kept, sweep>> /\ pipe[e].pc # "over"
    BY DEF Detected, Routed, Edge
<1>3. sweep = ClNone
    BY <1>2, NoSweep
<1>4. ASSUME NEW seeded \in BOOLEAN, NEW photo \in {"pending", "captured"}, Detected(e, seeded, photo)
      PROVE  ClipsInv'
    <2> DEFINE d == [NoDoc EXCEPT !.photo = photo]
    <2>1. /\ pipe[e].pc = "new" /\ pipe' = [pipe EXCEPT ![e].pc = "route"]
          /\ doc' = [doc EXCEPT ![e] = d] /\ copy' = [copy EXCEPT ![e] = d]
          /\ capture' = capture \/ capture' = [capture EXCEPT ![e] = "running"]
        BY <1>4 DEF Detected
    <2>2. d \in Docs /\ d.clip = "none"
        BY DEF NoDoc, Docs, ClipStates
    <2> HIDE DEF d
    <2>3. /\ doc' \in [ClEvents -> Docs] /\ copy' \in [ClEvents -> Docs]
          /\ capture' \in [ClEvents -> {"none", "running", "video", "failed"}]
        BY <1>1, <2>1, <2>2
    <2>4. pipe' \in [ClEvents -> Pipes] /\ \A k \in ClEvents : k # e => pipe'[k] = pipe[k]
        BY <1>1, <2>1 DEF Pipes
    <2>5. \A k \in ClEvents : capture[k] = "none" /\ pipe[k].pc # "new" => capture'[k] = "none"
        BY <1>1, <2>1
    <2>6. \A k \in ClEvents : doc'[k].clip = "ready" => doc[k].clip = "ready" /\ doc'[k].of = doc[k].of
        BY <1>1, <2>1, <2>2
    <2>7. ReadyHasClip'
        BY <1>2, <2>6, DocsStayTrue
    <2>8. \A k \in ClEvents : pipe'[k].pc # "over" => pipe[k].pc # "over"
        BY <2>1, <2>4
    <2>9. QED
        BY <1>1, <1>2, <1>3, <2>3, <2>4, <2>5, <2>7, <2>8, ClipsQuiet
<1>5. CASE (\E first \in BOOLEAN : Routed(e, first)) \/ Edge(e)
    <2>1. UNCHANGED <<doc, capture>>
        BY <1>5 DEF Routed, Edge
    <2>2. copy' = copy \/ copy' = [copy EXCEPT ![e] = doc[e]]
        BY <1>5 DEF Routed, Edge
    <2>3. copy' \in [ClEvents -> Docs]
        BY <1>1, <2>2
    <2>4. PICK p \in Pipes : pipe' = [pipe EXCEPT ![e] = p]
        <3>1. CASE \E first \in BOOLEAN : Routed(e, first)
            <4>1. \/ pipe' = [pipe EXCEPT ![e] = [pc |-> "commit", clip |-> "pending", job |-> "incident"]]
                  \/ pipe' = [pipe EXCEPT ![e].pc = "attach"]
                BY <3>1 DEF Routed
            <4>2. /\ [pc |-> "commit", clip |-> "pending", job |-> "incident"] \in Pipes
                  /\ [pipe[e] EXCEPT !.pc = "attach"] \in Pipes
                BY <1>1 DEF Pipes
            <4>3. QED
                BY <1>1, <4>1, <4>2
        <3>2. CASE Edge(e)
            <4>1. PICK clip \in {"unsupported", "unavailable", "pending"}, kind \in {"none", "edge"} :
                      pipe' = [pipe EXCEPT ![e] = [pc |-> "commit", clip |-> clip, job |-> kind]]
                BY <3>2 DEF Edge, Commits
            <4>2. [pc |-> "commit", clip |-> clip, job |-> kind] \in Pipes
                BY DEF Pipes
            <4>3. QED
                BY <4>1, <4>2
        <3>3. QED
            BY <1>5, <3>1, <3>2
    <2>5. pipe' \in [ClEvents -> Pipes] /\ \A k \in ClEvents : k # e => pipe'[k] = pipe[k]
        BY <1>1, <2>4
    <2>6. \A k \in ClEvents : pipe'[k].pc # "over" => pipe[k].pc # "over"
        BY <1>2, <2>5
    <2>7. ReadyHasClip'
        BY <1>2, <2>1, DocsStayTrue
    <2>8. QED
        BY <1>1, <1>2, <1>3, <2>1, <2>3, <2>5, <2>6, <2>7, ClipsQuiet
<1>6. QED
    BY <1>4, <1>5

\* The photo, and the end of a capture.
LEMMA PictureKeeps ==
    ASSUME ClipsInv, NEW e \in ClEvents, Backfill(e) \/ CaptureEnds(e)
    PROVE  ClipsInv'
<1>1. /\ doc \in [ClEvents -> Docs] /\ copy \in [ClEvents -> Docs] /\ pipe \in [ClEvents -> Pipes]
      /\ capture \in [ClEvents -> {"none", "running", "video", "failed"}]
      /\ shared \in ClEvents \union {ClNone}
    BY DEF ClipsInv, ClipsTyped
<1>2. UNCHANGED <<copy, pipe, shared, job, admission, clipStored, kept, sweep>>
    BY DEF Backfill, CaptureEnds
<1>3. CASE Backfill(e)
    <2>1. sweep = ClNone /\ UNCHANGED capture
        BY <1>3, NoSweep DEF Backfill
    <2>2. UNCHANGED doc \/ \E photo \in {"captured", "failed"} : doc' = [doc EXCEPT ![e].photo = photo]
        BY <1>3 DEF Backfill
    <2>3. /\ doc' \in [ClEvents -> Docs]
          /\ \A k \in ClEvents : doc'[k].clip = doc[k].clip /\ doc'[k].of = doc[k].of
        BY <1>1, <2>2 DEF Docs
    <2>4. ReadyHasClip'
        BY <1>2, <2>3, DocsStayTrue
    <2>5. QED
        BY <1>1, <1>2, <2>1, <2>3, <2>4, ClipsQuiet
<1>4. CASE CaptureEnds(e)
    <2>1. sweep = ClNone /\ UNCHANGED doc
        BY <1>4, NoSweep DEF CaptureEnds
    <2>2. capture[e] = "running" /\ \E end \in {"video", "failed"} : capture' = [capture EXCEPT ![e] = end]
        BY <1>4 DEF CaptureEnds
    <2>3. /\ capture' \in [ClEvents -> {"none", "running", "video", "failed"}]
          /\ \A k \in ClEvents : capture[k] = "none" => capture'[k] = "none"
        BY <1>1, <2>2
    <2>4. ReadyHasClip'
        BY <1>2, <2>1, DocsStayTrue
    <2>5. QED
        BY <1>1, <1>2, <2>1, <2>3, <2>4, ClipsQuiet
<1>5. QED
    BY <1>3, <1>4

\* Where a worker's job stands.
LEMMA JobStands ==
    ASSUME ClipsInv, NEW o \in ClEvents
    PROVE  /\ job[o] \in Jobs
           /\ pipe[o].pc # "over" => job[o].pc = "none" /\ clipStored[o] = {}
           /\ job[o].pc \in {"await", "fetch", "admit", "insert"} => clipStored[o] = {}
           /\ job[o].pc \notin {"none", "await"} => capture[o] = "none"
           /\ \A r \in job[o].read : r.event \in job[o].events
           /\ job[o].pc = "insert" => admission = o /\ Room(job[o].kind)
           /\ job[o].pc \in {"report", "write"} /\ job[o].clip = "ready" => HasStored(o, job[o])
<1>1. job[o] \in Jobs
    BY DEF ClipsInv, ClipsTyped
<1>2. /\ pipe[o].pc # "over" => job[o].pc = "none" /\ clipStored[o] = {}
      /\ job[o].pc \in {"await", "fetch", "admit", "insert"} => clipStored[o] = {}
      /\ job[o].pc \notin {"none", "await"} => capture[o] = "none"
      /\ \A r \in job[o].read : r.event \in job[o].events
    BY DEF ClipsInv, OneWorker
<1>3. job[o].pc = "insert" => admission = o /\ Room(job[o].kind)
    BY DEF ClipsInv, OneAdmitted
<1>4. job[o].pc \in {"report", "write"} /\ job[o].clip = "ready" => HasStored(o, job[o])
    BY DEF ClipsInv, ReadyIsStored
<1>5. QED
    BY <1>1, <1>2, <1>3, <1>4

\* A step of a worker that leaves documents, pipelines and stores alone.
LEMMA WorkerMoves ==
    ASSUME ClipsInv, NEW o \in ClEvents, NEW j \in Jobs, job[o].pc # "none",
           UNCHANGED <<doc, copy, pipe, clipStored, kept, sweep>>,
           job' = [job EXCEPT ![o] = j],
           capture' = capture \/ capture' = [capture EXCEPT ![o] = "none"],
           {shared', admission'} \subseteq ClEvents \union {ClNone},
           j.pc \in {"await", "fetch", "admit", "insert"} => clipStored[o] = {},
           j.pc \notin {"none", "await"} => capture'[o] = "none",
           \A r \in j.read : r.event \in j.events,
           j.pc = "insert" => admission' = o /\ Room(j.kind),
           \A e \in ClEvents : e # o /\ job[e].pc = "insert" => admission' = e,
           j.pc \in {"report", "write"} /\ j.clip = "ready" => HasStored(o, j)
    PROVE  ClipsInv'
<1>1. /\ doc \in [ClEvents -> Docs] /\ copy \in [ClEvents -> Docs] /\ pipe \in [ClEvents -> Pipes]
      /\ capture \in [ClEvents -> {"none", "running", "video", "failed"}]
    BY DEF ClipsInv, ClipsTyped
<1>2. sweep = ClNone /\ pipe[o].pc = "over"
    BY NoSweep, JobStands
<1>3. ReadyHasClip'
    BY DocsStayTrue
<1>4. /\ capture' \in [ClEvents -> {"none", "running", "video", "failed"}]
      /\ \A e \in ClEvents : capture[e] = "none" => capture'[e] = "none"
    BY <1>1
<1>5. pipe'[o].pc # "over" => j.pc = "none"
    BY <1>2
<1>6. /\ doc' \in [ClEvents -> Docs] /\ copy' \in [ClEvents -> Docs] /\ pipe' \in [ClEvents -> Pipes]
      /\ \A e \in ClEvents : pipe'[e].pc # "over" => pipe[e].pc # "over"
    BY <1>1
<1>7. QED
    BY <1>2, <1>3, <1>4, <1>5, <1>6, ClipsElsewhere

LEMMA WorkerKeeps ==
    ASSUME ClipsInv, NEW o \in ClEvents,
           Collected(o) \/ Fetched(o) \/ JobEnds(o) \/ \E e \in ClEvents : ReportRead(o, e)
    PROVE  ClipsInv'
<1>1. /\ job[o] \in Jobs
      /\ job[o].pc \in {"await", "fetch", "admit", "insert"} => clipStored[o] = {}
      /\ job[o].pc \notin {"none", "await"} => capture[o] = "none"
      /\ \A r \in job[o].read : r.event \in job[o].events
      /\ job[o].pc \in {"report", "write"} /\ job[o].clip = "ready" => HasStored(o, job[o])
    BY JobStands
<1>2. /\ job \in [ClEvents -> Jobs] /\ doc \in [ClEvents -> Docs]
      /\ capture \in [ClEvents -> {"none", "running", "video", "failed"}]
      /\ {shared, admission} \subseteq ClEvents \union {ClNone}
    BY DEF ClipsInv, ClipsTyped
<1>3. \A e \in ClEvents : e # o /\ job[e].pc = "insert" => admission = e
    BY DEF ClipsInv, OneAdmitted
<1>4. UNCHANGED <<doc, copy, pipe, clipStored, kept, sweep>>
    BY DEF Collected, Fetched, JobEnds, ReportRead
<1>5. CASE Collected(o)
    <2> DEFINE video == capture[o] = "video"
               j == [job[o] EXCEPT !.pc = IF video THEN "admit" ELSE "report",
                                   !.clip = IF video THEN @ ELSE "unavailable"]
    <2>1. /\ job[o].pc = "await" /\ job' = [job EXCEPT ![o] = j] /\ UNCHANGED admission
          /\ capture' = [capture EXCEPT ![o] = "none"]
          /\ shared' = (IF shared = o THEN ClNone ELSE shared)
        BY <1>2, <1>5 DEF Collected
    <2>2. /\ j \in Jobs /\ j.pc = (IF video THEN "admit" ELSE "report") /\ j.read = job[o].read
          /\ j.events = job[o].events /\ j.clip = IF video THEN job[o].clip ELSE "unavailable"
        BY <1>1 DEF Jobs, ClipStates
    <2> HIDE DEF j, video
    <2>3. capture'[o] = "none" /\ {shared', admission'} \subseteq ClEvents \union {ClNone}
        BY <1>2, <2>1
    <2>4. /\ j.pc \in {"admit", "report"} /\ j.pc = "report" => j.clip = "unavailable"
        BY <2>2
    <2>5. QED
        BY <1>1, <1>3, <1>4, <2>1, <2>2, <2>3, <2>4, WorkerMoves
<1>6. CASE Fetched(o)
    <2>1. PICK p \in {"admit", "report"}, clip \in ClipStates \ {"ready"} :
             /\ p = "admit" => job' = [job EXCEPT ![o].pc = "admit"]
             /\ p = "report" => job' = [job EXCEPT ![o].pc = "report", ![o].clip = clip]
        BY <1>6 DEF Fetched, ClipStates
    <2> DEFINE j == IF p = "admit" THEN [job[o] EXCEPT !.pc = "admit"]
                    ELSE [job[o] EXCEPT !.pc = "report", !.clip = clip]
    <2>2. job[o].pc = "fetch" /\ job' = [job EXCEPT ![o] = j] /\ UNCHANGED <<admission, capture, shared>>
        BY <1>2, <1>6, <2>1 DEF Fetched
    <2>3. /\ j \in Jobs /\ j.pc = p /\ j.read = job[o].read /\ j.events = job[o].events
          /\ p = "report" => j.clip # "ready"
        BY <1>1, <2>1 DEF Jobs
    <2> HIDE DEF j
    <2>4. QED
        BY <1>1, <1>2, <1>3, <1>4, <2>2, <2>3, WorkerMoves
<1>7. CASE JobEnds(o)
    <2>1. /\ job[o].pc = "report" /\ job' = [job EXCEPT ![o] = NoJob] /\ UNCHANGED <<capture, shared>>
          /\ admission' = (IF admission = o THEN ClNone ELSE admission)
        BY <1>7 DEF JobEnds
    <2>2. NoJob \in Jobs /\ NoJob.pc = "none" /\ NoJob.read = {}
        BY DEF NoJob, Jobs, ClipStates
    <2>3. /\ {shared', admission'} \subseteq ClEvents \union {ClNone}
          /\ \A e \in ClEvents : e # o /\ job[e].pc = "insert" => admission' = e
        BY <1>2, <1>3, <2>1
    <2>4. QED
        BY <1>4, <2>1, <2>2, <2>3, WorkerMoves
<1>8. ASSUME NEW e \in ClEvents, ReportRead(o, e)
      PROVE  ClipsInv'
    <2> DEFINE r == [event |-> e, doc |-> doc[e]]
               j == [job[o] EXCEPT !.pc = "write", !.read = {r}]
    <2>1. /\ job[o].pc = "report" /\ e \in job[o].events /\ UNCHANGED <<admission, capture, shared>>
          /\ job' = [job EXCEPT ![o] = j]
        BY <1>2, <1>8 DEF ReportRead
    <2>2. r \in Reads /\ r.event = e
        BY <1>2 DEF Reads
    <2> HIDE DEF r
    <2>3. /\ j \in Jobs /\ j.pc = "write" /\ j.read = {r} /\ j.events = job[o].events
          /\ j.clip = job[o].clip /\ j.kind = job[o].kind
        BY <1>1, <2>2 DEF Jobs
    <2> HIDE DEF j
    <2>4. HasStored(o, job[o]) => HasStored(o, j)
        BY <2>3 DEF HasStored
    <2>5. QED
        BY <1>1, <1>2, <1>3, <1>4, <2>1, <2>2, <2>3, <2>4, WorkerMoves
<1>9. QED
    BY <1>5, <1>6, <1>7, <1>8

\* A step of the pipeline of event e that sets up the worker of event o.
LEMMA WorkerSetUp ==
    ASSUME ClipsInv, NEW e \in ClEvents, NEW o \in ClEvents, NEW p \in Pipes, NEW j \in Jobs,
           pipe[e].pc # "over", pipe' = [pipe EXCEPT ![e] = p],
           job' = [job EXCEPT ![o] = j], job[o].pc \in {"none", "await"},
           doc' \in [ClEvents -> Docs], ReadyHasClip',
           capture' = capture \/ capture' = [capture EXCEPT ![e] = "none"],
           shared' \in ClEvents \union {ClNone},
           UNCHANGED <<copy, admission, clipStored, kept, sweep>>,
           j.pc = job[o].pc \/ (o = e /\ p.pc = "over" /\ j.pc \in {"await", "fetch"}),
           j.pc = "fetch" => capture'[o] = "none",
           \A r \in j.read : r.event \in j.events
    PROVE  ClipsInv'
<1>1. /\ copy \in [ClEvents -> Docs] /\ pipe \in [ClEvents -> Pipes]
      /\ capture \in [ClEvents -> {"none", "running", "video", "failed"}]
      /\ admission \in ClEvents \union {ClNone}
    BY DEF ClipsInv, ClipsTyped
<1>2. sweep = ClNone
    BY NoSweep
<1>3. /\ pipe' \in [ClEvents -> Pipes] /\ pipe'[e] = p
      /\ \A k \in ClEvents : pipe'[k].pc # "over" => pipe[k].pc # "over"
    BY <1>1
<1>4. /\ capture' \in [ClEvents -> {"none", "running", "video", "failed"}]
      /\ \A k \in ClEvents : capture[k] = "none" /\ pipe[k].pc # "new" => capture'[k] = "none"
    BY <1>1
<1>5. j.pc \in {"none", "await", "fetch"}
    OBVIOUS
<1>6. j.pc \in {"await", "fetch"} => clipStored[o] = {}
    BY JobStands
<1>7. pipe'[o].pc # "over" => j.pc = "none"
    BY <1>3, JobStands
<1>8. \A k \in ClEvents : k # o /\ job[k].pc = "insert" => admission' = k
    BY DEF ClipsInv, OneAdmitted
<1>9. {shared', admission'} \subseteq ClEvents \union {ClNone} /\ copy' \in [ClEvents -> Docs]
    BY <1>1
<1>10. QED
    BY <1>2, <1>3, <1>4, <1>5, <1>6, <1>7, <1>8, <1>9, ClipsElsewhere

LEMMA AttachKeeps ==
    ASSUME ClipsInv, NEW e \in ClEvents, Join(e) \/ Own(e)
    PROVE  ClipsInv'
<1>1. /\ doc \in [ClEvents -> Docs] /\ pipe \in [ClEvents -> Pipes] /\ job \in [ClEvents -> Jobs]
      /\ capture \in [ClEvents -> {"none", "running", "video", "failed"}]
      /\ shared \in ClEvents \union {ClNone}
    BY DEF ClipsInv, ClipsTyped
<1>2. UNCHANGED <<doc, copy, capture, admission, clipStored, kept, sweep>> /\ pipe[e].pc = "attach"
    BY DEF Join, Own
<1>3. ReadyHasClip' /\ doc' \in [ClEvents -> Docs]
    BY <1>1, <1>2, DocsStayTrue
<1>4. CASE Join(e)
    <2> DEFINE p == [pc |-> "commit", clip |-> "pending", job |-> "none"]
               j == [job[shared] EXCEPT !.events = @ \union {e}]
    <2>1. /\ shared \in ClEvents /\ capture[shared] = "running" /\ UNCHANGED shared
          /\ pipe' = [pipe EXCEPT ![e] = p] /\ job' = [job EXCEPT ![shared] = j]
        BY <1>1, <1>4 DEF Join, Commits, Running
    <2>2. job[shared].pc \in {"none", "await"} /\ \A r \in job[shared].read : r.event \in job[shared].events
        BY <2>1, JobStands
    <2>3. p \in Pipes
        BY DEF Pipes
    <2>4. /\ j \in Jobs /\ j.pc = job[shared].pc /\ j.read = job[shared].read
          /\ j.events = job[shared].events \union {e}
        BY <1>1, <2>1 DEF Jobs
    <2> HIDE DEF p, j
    <2>5. (\A r \in j.read : r.event \in j.events) /\ j.pc # "fetch"
        BY <2>2, <2>4
    <2>6. QED
        BY <1>2, <1>3, <2>1, <2>2, <2>3, <2>4, <2>5, WorkerSetUp
<1>5. CASE Own(e)
    <2> DEFINE p == [pc |-> "commit", clip |-> "pending", job |-> "stream"]
               j == [NoJob EXCEPT !.events = {e}]
    <2>1. shared' = e /\ pipe' = [pipe EXCEPT ![e] = p] /\ job' = [job EXCEPT ![e] = j]
        BY <1>5 DEF Own, Commits
    <2>2. job[e].pc = "none"
        BY <1>2, JobStands
    <2>3. p \in Pipes
        BY DEF Pipes
    <2>4. j \in Jobs /\ j.pc = "none" /\ j.read = {}
        BY DEF NoJob, Jobs, ClipStates
    <2> HIDE DEF p, j
    <2>5. QED
        BY <1>2, <1>3, <2>1, <2>2, <2>3, <2>4, WorkerSetUp
<1>6. QED
    BY <1>4, <1>5

LEMMA CommitKeeps ==
    ASSUME ClipsInv, NEW e \in ClEvents, CommitPipe(e) \/ CommitFails(e)
    PROVE  ClipsInv'
<1>1. /\ doc \in [ClEvents -> Docs] /\ copy \in [ClEvents -> Docs] /\ pipe \in [ClEvents -> Pipes]
      /\ job \in [ClEvents -> Jobs]
      /\ capture \in [ClEvents -> {"none", "running", "video", "failed"}]
      /\ shared \in ClEvents \union {ClNone}
    BY DEF ClipsInv, ClipsTyped
<1>2. /\ pipe[e].pc = "commit" /\ pipe' = [pipe EXCEPT ![e] = NoPipe]
      /\ UNCHANGED <<copy, admission, clipStored, kept, sweep>>
    BY DEF CommitPipe, CommitFails
<1>3. NoPipe \in Pipes /\ NoPipe.pc = "over"
    BY DEF NoPipe, Pipes
<1>4. job[e].pc = "none" /\ (\A r \in job[e].read : r.event \in job[e].events)
    BY <1>2, JobStands
<1>5. CASE CommitPipe(e)
    <2> DEFINE d == [copy[e] EXCEPT !.clip = pipe[e].clip]
               started == [job[e] EXCEPT !.kind = pipe[e].job, !.events = @ \union {e},
                                         !.pc = IF pipe[e].job = "edge" THEN "fetch" ELSE "await"]
               j == IF pipe[e].job = "none" THEN job[e] ELSE started
    <2>1. /\ doc' = [doc EXCEPT ![e] = d] /\ UNCHANGED shared
          /\ capture' = [capture EXCEPT ![e] = IF pipe[e].job \in {"none", "edge"} THEN "none" ELSE @]
        BY <1>5 DEF CommitPipe
    <2>2. job' = [job EXCEPT ![e] = j]
        BY <1>1, <1>5 DEF CommitPipe, Spawned
    <2>3. d \in Docs /\ d.clip # "ready"
        <3> DEFINE old == copy[e]
                   clip == pipe[e].clip
        <3>1. old \in Docs /\ clip \in ClipStates /\ clip # "ready"
            BY <1>1 DEF Pipes, ClipStates
        <3>2. d = [old EXCEPT !.clip = clip]
            OBVIOUS
        <3> HIDE DEF old, clip, d
        <3>3. QED
            BY <3>1, <3>2 DEF Docs
    <2> HIDE DEF d
    <2>4. doc' \in [ClEvents -> Docs] /\ ReadyHasClip'
        BY <1>1, <1>2, <2>1, <2>3, DocsStayTrue
    <2>5. /\ started \in Jobs /\ started.pc = (IF pipe[e].job = "edge" THEN "fetch" ELSE "await")
          /\ started.read = job[e].read /\ started.events = job[e].events \union {e}
        <3> DEFINE old == job[e]
                   kind == pipe[e].job
                   pc == IF pipe[e].job = "edge" THEN "fetch" ELSE "await"
        <3>1. old \in Jobs /\ kind \in {"none", "edge", "stream", "incident"} /\ pc \in {"await", "fetch"}
            BY <1>1 DEF Pipes
        <3>2. started = [old EXCEPT !.kind = kind, !.events = @ \union {e}, !.pc = pc]
            OBVIOUS
        <3> HIDE DEF old, kind, pc, started
        <3>3. started \in Jobs /\ started.pc = pc /\ started.read = old.read
              /\ started.events = old.events \union {e}
            BY <3>1, <3>2 DEF Jobs
        <3>4. QED
            BY <3>3 DEF pc, old
    <2> HIDE DEF started
    <2>6. /\ j \in Jobs /\ j.read = job[e].read /\ job[e].events \subseteq j.events
          /\ j.pc = job[e].pc \/ j.pc \in {"await", "fetch"}
          /\ j.pc = "fetch" => pipe[e].job = "edge"
        BY <1>1, <1>4, <2>5
    <2> HIDE DEF j
    <2>7. /\ capture' = capture \/ capture' = [capture EXCEPT ![e] = "none"]
          /\ j.pc = "fetch" => capture'[e] = "none"
        BY <1>1, <2>1, <2>6
    <2>8. \A r \in j.read : r.event \in j.events
        BY <1>4, <2>6
    <2>9. QED
        BY <1>1, <1>2, <1>3, <1>4, <2>1, <2>2, <2>4, <2>6, <2>7, <2>8, WorkerSetUp
<1>6. CASE CommitFails(e)
    <2> DEFINE j == IF pipe[e].job = "stream" THEN NoJob ELSE job[e]
    <2>1. /\ UNCHANGED doc /\ capture' = [capture EXCEPT ![e] = "none"]
          /\ shared' = (IF shared = e THEN ClNone ELSE shared)
        BY <1>6 DEF CommitFails
    <2>2. job' = [job EXCEPT ![e] = j]
        BY <1>1, <1>6 DEF CommitFails
    <2>3. NoJob \in Jobs /\ NoJob.pc = "none" /\ NoJob.read = {}
        BY DEF NoJob, Jobs, ClipStates
    <2>4. j \in Jobs /\ j.pc = job[e].pc /\ \A r \in j.read : r.event \in j.events
        BY <1>1, <1>4, <2>3
    <2> HIDE DEF j
    <2>5. doc' \in [ClEvents -> Docs] /\ ReadyHasClip' /\ shared' \in ClEvents \union {ClNone}
        BY <1>1, <1>2, <2>1, DocsStayTrue
    <2>6. QED
        BY <1>2, <1>3, <1>4, <2>1, <2>2, <2>4, <2>5, WorkerSetUp
<1>7. QED
    BY <1>5, <1>6

LEMMA AdmitKeeps ==
    ASSUME ClipsInv, NEW o \in ClEvents, Admit(o)
    PROVE  ClipsInv'
<1>0. PICK fits \in BOOLEAN :
         /\ fits => Fits(o)
         /\ job' = [job EXCEPT ![o].pc = IF fits THEN "insert" ELSE "report",
                               ![o].clip = IF fits THEN "ready" ELSE "skipped"]
    BY DEF Admit
<1> DEFINE j == [job[o] EXCEPT !.pc = IF fits THEN "insert" ELSE "report",
                               !.clip = IF fits THEN "ready" ELSE "skipped"]
<1>1. /\ job[o].pc = "admit" /\ admission = ClNone /\ admission' = o
      /\ UNCHANGED <<doc, copy, pipe, capture, shared, clipStored, kept, sweep>>
    BY DEF Admit, LockIsFree
<1>2. /\ job[o] \in Jobs /\ clipStored[o] = {} /\ capture[o] = "none"
      /\ \A r \in job[o].read : r.event \in job[o].events
    BY <1>1, JobStands
<1>3. job \in [ClEvents -> Jobs] /\ shared \in ClEvents \union {ClNone}
    BY DEF ClipsInv, ClipsTyped
<1>4. job' = [job EXCEPT ![o] = j]
    BY <1>0, <1>3
<1>5. fits => Room(job[o].kind)
    BY <1>0 DEF Fits, Room
<1>6. /\ j \in Jobs /\ j.pc = (IF fits THEN "insert" ELSE "report") /\ j.kind = job[o].kind
      /\ j.clip = (IF fits THEN "ready" ELSE "skipped")
      /\ j.read = job[o].read /\ j.events = job[o].events
    BY <1>2 DEF Jobs, ClipStates
<1> HIDE DEF j
<1>7. \A e \in ClEvents : job[e].pc # "insert"
    BY <1>1, ClipsAssumption DEF ClipsInv, OneAdmitted
<1>8. /\ j.pc = "insert" => admission' = o /\ Room(j.kind)
      /\ j.pc \in {"report", "write"} => j.clip = "skipped"
      /\ \A r \in j.read : r.event \in j.events
    BY <1>1, <1>2, <1>5, <1>6
<1>9. {shared', admission'} \subseteq ClEvents \union {ClNone}
    BY <1>1, <1>3
<1>10. QED
    BY <1>1, <1>2, <1>4, <1>6, <1>7, <1>8, <1>9, WorkerMoves

LEMMA InsertFailKeeps ==
    ASSUME ClipsInv, NEW o \in ClEvents, InsertFails(o)
    PROVE  ClipsInv'
<1> DEFINE j == [job[o] EXCEPT !.pc = "report", !.clip = "unavailable"]
<1>1. /\ job[o].pc = "insert" /\ admission' = IF admission = o THEN ClNone ELSE admission
      /\ UNCHANGED <<doc, copy, pipe, capture, shared, clipStored, kept, sweep>>
    BY DEF InsertFails
<1>2. /\ job[o] \in Jobs /\ capture[o] = "none" /\ admission = o
      /\ \A r \in job[o].read : r.event \in job[o].events
    BY <1>1, JobStands
<1>3. job \in [ClEvents -> Jobs] /\ shared \in ClEvents \union {ClNone}
    BY DEF ClipsInv, ClipsTyped
<1>4. job' = [job EXCEPT ![o] = j]
    BY <1>3 DEF InsertFails
<1>5. /\ j \in Jobs /\ j.pc = "report" /\ j.clip = "unavailable"
      /\ j.read = job[o].read /\ j.events = job[o].events
    BY <1>2 DEF Jobs, ClipStates
<1> HIDE DEF j
<1>6. \A e \in ClEvents : e # o => job[e].pc # "insert"
    BY <1>2 DEF ClipsInv, OneAdmitted
<1>7. {shared', admission'} \subseteq ClEvents \union {ClNone}
    BY <1>1, <1>2, <1>3
<1>8. \A r \in j.read : r.event \in j.events
    BY <1>2, <1>5
<1>9. QED
    BY <1>1, <1>2, <1>4, <1>5, <1>6, <1>7, <1>8, WorkerMoves

LEMMA ReportKeeps ==
    ASSUME ClipsInv, NEW o \in ClEvents, ReportWrite(o)
    PROVE  ClipsInv'
<1>1. PICK r \in job[o].read :
         /\ doc' = [doc EXCEPT ![r.event] = IF r.doc.clip \in {"none", "pending"}
                                            THEN Told(r.doc, o) ELSE @]
         /\ job' = [job EXCEPT ![o].pc = "report", ![o].read = {}, ![o].events = @ \ {r.event}]
    BY DEF ReportWrite
<1>2. /\ job[o].pc = "write"
      /\ UNCHANGED <<copy, pipe, capture, shared, admission, clipStored, kept, sweep>>
    BY DEF ReportWrite
<1>3. /\ job[o] \in Jobs /\ capture[o] = "none" /\ pipe[o].pc = "over"
      /\ r.event \in job[o].events
      /\ job[o].clip = "ready" => HasStored(o, job[o])
    BY <1>2, JobStands
<1>4. /\ job \in [ClEvents -> Jobs] /\ doc \in [ClEvents -> Docs] /\ copy \in [ClEvents -> Docs]
      /\ pipe \in [ClEvents -> Pipes]
      /\ capture \in [ClEvents -> {"none", "running", "video", "failed"}]
      /\ {shared, admission} \subseteq ClEvents \union {ClNone}
    BY DEF ClipsInv, ClipsTyped
<1>5. r \in Reads
    BY <1>3 DEF Jobs
<1>6. r.event \in ClEvents /\ r.doc \in Docs
    BY <1>5 DEF Reads
<1> DEFINE told == Told(r.doc, o)
           j == [job[o] EXCEPT !.pc = "report", !.read = {}, !.events = @ \ {r.event}]
<1>7. /\ told \in Docs /\ told.clip = job[o].clip
      /\ told.clip = "ready" => told.of = o
    <2> DEFINE d == r.doc
               clip == job[o].clip
    <2>1. d \in Docs /\ clip \in ClipStates
        BY <1>3, <1>6 DEF Jobs
    <2>2. told = [d EXCEPT !.clip = clip, !.of = IF clip = "ready" THEN o ELSE @]
        BY DEF Told
    <2> HIDE DEF d, told
    <2>3. QED
        BY <2>1, <2>2 DEF Docs
<1>8. job' = [job EXCEPT ![o] = j]
    BY <1>1, <1>4
<1>9. /\ j \in Jobs /\ j.pc = "report" /\ j.read = {} /\ j.events \subseteq job[o].events
      /\ j.clip = job[o].clip /\ j.kind = job[o].kind
    BY <1>3 DEF Jobs
<1> HIDE DEF told, j
<1>10. \/ doc' = doc
       \/ doc' = [doc EXCEPT ![r.event] = told]
    BY <1>1, <1>4 DEF told
<1>11. doc' \in [ClEvents -> Docs]
    BY <1>4, <1>6, <1>7, <1>10
<1>12. ReadyHasClip'
    <2>1. CASE doc' = doc
        BY <1>2, <2>1, DocsStayTrue
    <2>2. CASE doc' = [doc EXCEPT ![r.event] = told]
        <3>1. told.clip = "ready" => told.of \in kept \/ (told.of # ClNone /\ r.event \in clipStored[told.of])
            BY <1>3, <1>7, ClipsAssumption DEF HasStored
        <3>2. \A e \in ClEvents : doc'[e] = doc[e] \/ (e = r.event /\ doc'[e] = told)
            BY <1>4, <2>2
        <3>3. QED
            BY <1>2, <3>1, <3>2 DEF ClipsInv, ReadyHasClip
    <2>3. QED
        BY <1>10, <2>1, <2>2
<1>13. HasStored(o, job[o]) => HasStored(o, j)
    BY <1>9 DEF HasStored
<1>14. \A e \in ClEvents : e # o /\ job[e].pc = "insert" => admission' = e
    BY <1>2 DEF ClipsInv, OneAdmitted
<1>15. sweep = ClNone
    BY <1>2, NoSweep
<1>16. /\ copy' \in [ClEvents -> Docs] /\ pipe' \in [ClEvents -> Pipes]
       /\ capture' \in [ClEvents -> {"none", "running", "video", "failed"}]
       /\ {shared', admission'} \subseteq ClEvents \union {ClNone} /\ capture'[o] = "none"
       /\ \A e \in ClEvents : capture[e] = "none" /\ pipe[e].pc # "new" => capture'[e] = "none"
       /\ \A e \in ClEvents : pipe'[e].pc # "over" => pipe[e].pc # "over"
       /\ pipe'[o].pc = "over"
    BY <1>2, <1>3, <1>4
<1>17. QED
    BY <1>2, <1>3, <1>8, <1>9, <1>11, <1>12, <1>13, <1>14, <1>15, <1>16, ClipsElsewhere

\* Adding a clip adds at most one to what is stored.
LEMMA OneMore ==
    ASSUME NEW S, IsFiniteSet(S), NEW x
    PROVE  /\ IsFiniteSet(S \union {x}) /\ Cardinality(S) \in Nat
           /\ Cardinality(S \union {x}) \in Nat /\ Cardinality(S \union {x}) <= Cardinality(S) + 1
<1>1. IsFiniteSet(S \union {x}) /\ Cardinality(S) \in Nat
      /\ Cardinality(S \union {x}) \in {Cardinality(S), Cardinality(S) + 1}
    BY FS_AddElement, FS_CardinalityType
<1>2. QED
    BY <1>1

LEMMA InsertKeeps ==
    ASSUME ClipsInv, NEW o \in ClEvents, Insert(o)
    PROVE  ClipsInv'
<1> DEFINE j == [job[o] EXCEPT !.pc = "report"]
           ofIncident == job[o].kind = "incident"
           S == {e \in ClEvents : clipStored[e] # {}}
           T == {e \in ClEvents : clipStored'[e] # {}}
<1>1. /\ job[o].pc = "insert" /\ job' = [job EXCEPT ![o].pc = "report"]
      /\ admission' = (IF admission = o THEN ClNone ELSE admission)
      /\ clipStored' = (IF ofIncident THEN clipStored ELSE [clipStored EXCEPT ![o] = job[o].events])
      /\ kept' = (IF ofIncident THEN kept \union {o} ELSE kept)
      /\ UNCHANGED <<doc, copy, pipe, capture, shared, sweep>>
    BY DEF Insert
<1>2. /\ job[o] \in Jobs /\ clipStored[o] = {} /\ capture[o] = "none" /\ pipe[o].pc = "over"
      /\ admission = o /\ Room(job[o].kind)
      /\ \A r \in job[o].read : r.event \in job[o].events
    BY <1>1, JobStands
<1>3. /\ job \in [ClEvents -> Jobs] /\ clipStored \in [ClEvents -> SUBSET ClEvents] /\ kept \subseteq ClEvents
      /\ doc \in [ClEvents -> Docs]
    BY DEF ClipsInv, ClipsTyped
<1>4. /\ j \in Jobs /\ j.pc = "report" /\ j.read = job[o].read /\ j.events = job[o].events
      /\ j.kind = job[o].kind
    BY <1>2 DEF Jobs
<1>5. job' = [job EXCEPT ![o] = j]
    BY <1>1, <1>3
<1> HIDE DEF j
<1>6. /\ job' \in [ClEvents -> Jobs] /\ job'[o] = j /\ \A e \in ClEvents : e # o => job'[e] = job[e]
    BY <1>3, <1>4, <1>5
<1>7. job[o].events \subseteq ClEvents
    BY <1>2 DEF Jobs
<1>8. /\ clipStored' \in [ClEvents -> SUBSET ClEvents] /\ kept \subseteq kept' /\ kept' \subseteq ClEvents
      /\ \A e \in ClEvents : e # o => clipStored'[e] = clipStored[e]
      /\ ofIncident => o \in kept' /\ clipStored' = clipStored /\ kept' = kept \union {o}
      /\ ~ofIncident => clipStored'[o] = job[o].events /\ kept' = kept
    BY <1>1, <1>3, <1>7
<1>9. ClipsTyped'
    BY <1>1, <1>6, <1>8 DEF ClipsInv, ClipsTyped
<1>10. OneWorker'
    <2> SUFFICES ASSUME NEW e \in ClEvents
                 PROVE  /\ pipe[e].pc # "over" => job'[e].pc = "none" /\ clipStored'[e] = {}
                        /\ job'[e].pc \in {"await", "fetch", "admit", "insert"} => clipStored'[e] = {}
                        /\ job'[e].pc \notin {"none", "await"} => capture[e] = "none"
                        /\ \A r \in job'[e].read : r.event \in job'[e].events
        BY <1>1 DEF OneWorker
    <2>1. CASE e = o
        BY <1>2, <1>4, <1>6, <2>1
    <2>2. CASE e # o
        BY <1>6, <1>8, <2>2 DEF ClipsInv, OneWorker
    <2>3. QED
        BY <2>1, <2>2
<1>11. OneAdmitted'
    <2>1. \A e \in ClEvents : job[e].pc = "insert" => e = o
        BY <1>2 DEF ClipsInv, OneAdmitted
    <2>2. \A e \in ClEvents : job'[e].pc # "insert"
        BY <1>4, <1>6, <2>1
    <2>3. QED
        BY <2>2 DEF OneAdmitted
<1>12. ReadyIsStored'
    <2> SUFFICES ASSUME NEW e \in ClEvents, job'[e].pc \in {"report", "write"}, job'[e].clip = "ready"
                 PROVE  HasStored(e, job[e])'
        BY DEF ReadyIsStored
    <2>1. CASE e = o
        BY <1>4, <1>6, <1>8, <2>1 DEF HasStored
    <2>2. CASE e # o
        <3>1. HasStored(e, job[e])
            BY <1>6, <2>2 DEF ClipsInv, ReadyIsStored
        <3>2. QED
            BY <1>6, <1>8, <2>2, <3>1 DEF HasStored
    <2>3. QED
        BY <2>1, <2>2
<1>13. SweepsAtRest'
    BY <1>1, NoSweep DEF SweepsAtRest
<1>14. ClipBudget'
    <2>1. IsFiniteSet(S) /\ IsFiniteSet(kept) /\ IsFiniteSet(T)
        BY <1>3, FS_Subset, ClipsAssumption
    <2>2. T \subseteq S \union {o} /\ (ofIncident => T = S)
        BY <1>8
    <2>3. StoredNow = Cardinality(S) /\ KeptNow = Cardinality(kept)
          /\ StoredNow' = Cardinality(T) /\ KeptNow' = Cardinality(kept')
        BY DEF StoredNow, KeptNow
    <2>4. StoredNow <= ClEventCap /\ StoredNow + KeptNow <= ClTotalCap
        BY DEF ClipsInv, ClipBudget
    <2>5. StoredNow + KeptNow + 1 <= ClTotalCap /\ (~ofIncident => StoredNow + 1 <= ClEventCap)
        BY <1>2 DEF Room
    <2> HIDE DEF S, T, ofIncident
    <2>6. /\ IsFiniteSet(S \union {o}) /\ Cardinality(S) \in Nat
          /\ Cardinality(S \union {o}) \in Nat /\ Cardinality(S \union {o}) <= Cardinality(S) + 1
          /\ Cardinality(kept) \in Nat
          /\ Cardinality(kept \union {o}) \in Nat /\ Cardinality(kept \union {o}) <= Cardinality(kept) + 1
        BY <2>1, OneMore
    <2>7. Cardinality(T) \in Nat /\ Cardinality(T) <= Cardinality(S \union {o})
        BY <2>1, <2>2, <2>6, FS_Subset, FS_CardinalityType
    <2>8. ClEventCap \in Nat /\ ClTotalCap \in Nat
        BY ClipsAssumption
    <2>9. CASE ofIncident
        BY <1>8, <2>2, <2>3, <2>4, <2>5, <2>6, <2>8, <2>9 DEF ClipBudget
    <2>10. CASE ~ofIncident
        BY <1>8, <2>3, <2>4, <2>5, <2>6, <2>7, <2>8, <2>10 DEF ClipBudget
    <2>11. QED
        BY <2>9, <2>10
<1>15. ReadyHasClip'
    <2>1. \A e \in ClEvents : clipStored[e] \subseteq clipStored'[e]
        BY <1>2, <1>8
    <2>2. \A e \in ClEvents : doc[e].of \in ClEvents \union {ClNone}
        BY <1>3 DEF Docs
    <2>3. QED
        BY <1>1, <1>8, <2>1, <2>2 DEF ClipsInv, ReadyHasClip
<1>16. QED
    BY <1>9, <1>10, <1>11, <1>12, <1>13, <1>14, <1>15 DEF ClipsInv

\* Days later: a hold, and the sweeper's choice.
LEMMA ChoiceKeeps ==
    ASSUME ClipsInv, NEW e \in ClEvents, Hold(e) \/ SweepPicks(e)
    PROVE  ClipsInv'
<1>1. /\ AtRest /\ sweep' \in {sweep, e}
      /\ UNCHANGED <<doc, copy, pipe, hasPhoto, backfill, capture, shared, job, admission, clipStored, kept>>
    BY DEF Hold, SweepPicks
<1>2. AtRest'
    BY <1>1 DEF AtRest
<1>3. ClipsTyped'
    BY <1>1 DEF ClipsInv, ClipsTyped
<1>4. ClipBudget' /\ ReadyHasClip' /\ OneWorker'
    BY <1>1 DEF ClipsInv, ClipBudget, StoredNow, KeptNow, ReadyHasClip, OneWorker
<1>5. \A k \in ClEvents : job'[k].pc = "none"
    BY <1>1 DEF AtRest, NoJob
<1>6. OneAdmitted' /\ ReadyIsStored' /\ SweepsAtRest'
    BY <1>2, <1>5 DEF OneAdmitted, ReadyIsStored, SweepsAtRest
<1>7. QED
    BY <1>3, <1>4, <1>6 DEF ClipsInv

LEMMA SweepKeeps ==
    ASSUME ClipsInv, SweepDeletes
    PROVE  ClipsInv'
<1>1. /\ sweep # ClNone /\ sweep' = ClNone /\ clipStored' = [clipStored EXCEPT ![sweep] = {}]
      /\ doc' = [e \in ClEvents |-> IF e \in clipStored[sweep] /\ doc[e].of = sweep
                                   THEN [doc[e] EXCEPT !.clip = "expired"] ELSE doc[e]]
      /\ UNCHANGED <<copy, pipe, hasPhoto, backfill, capture, shared, job, admission, kept>>
    BY DEF SweepDeletes, DocsExpired
<1>2. /\ doc \in [ClEvents -> Docs] /\ clipStored \in [ClEvents -> SUBSET ClEvents] /\ sweep \in ClEvents
    BY <1>1 DEF ClipsInv, ClipsTyped
<1>3. AtRest /\ \A e \in ClEvents : job[e] = NoJob /\ pipe[e] = NoPipe /\ capture[e] = "none"
    BY <1>1 DEF ClipsInv, SweepsAtRest, AtRest
<1>4. \A e \in ClEvents : /\ doc'[e] \in Docs
                          /\ doc'[e].of = doc[e].of
                          /\ doc'[e].clip = "ready" => doc[e].clip = "ready"
                          /\ doc'[e].clip = "ready" => e \notin clipStored[sweep] \/ doc[e].of # sweep
    <2> SUFFICES ASSUME NEW e \in ClEvents
                 PROVE  /\ doc'[e] \in Docs
                        /\ doc'[e].of = doc[e].of
                        /\ doc'[e].clip = "ready" => doc[e].clip = "ready"
                        /\ doc'[e].clip = "ready" => e \notin clipStored[sweep] \/ doc[e].of # sweep
        OBVIOUS
    <2> DEFINE d == [doc[e] EXCEPT !.clip = "expired"]
    <2>1. doc[e] \in Docs /\ d \in Docs /\ d.of = doc[e].of /\ d.clip # "ready"
        BY <1>2 DEF Docs, ClipStates
    <2>2. doc'[e] = IF e \in clipStored[sweep] /\ doc[e].of = sweep THEN d ELSE doc[e]
        BY <1>1
    <2> HIDE DEF d
    <2>3. CASE e \in clipStored[sweep] /\ doc[e].of = sweep
        BY <2>1, <2>2, <2>3
    <2>4. CASE e \notin clipStored[sweep] \/ doc[e].of # sweep
        BY <2>1, <2>2, <2>4
    <2>5. QED
        BY <2>3, <2>4
<1>5. /\ clipStored' \in [ClEvents -> SUBSET ClEvents] /\ clipStored'[sweep] = {}
      /\ \A e \in ClEvents : e # sweep => clipStored'[e] = clipStored[e]
    BY <1>1, <1>2
<1>6. ClipsTyped'
    <2>1. doc' \in [ClEvents -> Docs]
        <3>1. doc' = [e \in ClEvents |-> doc'[e]]
            BY <1>1
        <3>2. QED
            BY <1>4, <3>1
    <2>2. {shared', admission', sweep'} \subseteq ClEvents \union {ClNone}
        BY <1>1 DEF ClipsInv, ClipsTyped
    <2>3. QED
        BY <1>1, <1>5, <2>1, <2>2 DEF ClipsInv, ClipsTyped
<1>7. \A e \in ClEvents : job'[e] = NoJob /\ pipe'[e] = NoPipe /\ capture'[e] = "none"
    BY <1>1, <1>3
<1>8. OneWorker' /\ OneAdmitted' /\ ReadyIsStored' /\ SweepsAtRest'
    BY <1>1, <1>7 DEF OneWorker, OneAdmitted, ReadyIsStored, SweepsAtRest, NoJob, NoPipe
<1>9. ClipBudget'
    <2> DEFINE S == {e \in ClEvents : clipStored[e] # {}}
               T == {e \in ClEvents : clipStored'[e] # {}}
    <2>1. T \subseteq S /\ IsFiniteSet(S) /\ IsFiniteSet(kept)
        BY <1>5, FS_Subset, ClipsAssumption DEF ClipsInv, ClipsTyped
    <2>2. Cardinality(T) \in Nat /\ Cardinality(S) \in Nat /\ Cardinality(T) <= Cardinality(S)
          /\ Cardinality(kept) \in Nat
        BY <2>1, FS_Subset, FS_CardinalityType
    <2>3. StoredNow = Cardinality(S) /\ StoredNow' = Cardinality(T) /\ KeptNow' = Cardinality(kept)
          /\ KeptNow = Cardinality(kept)
        BY <1>1 DEF StoredNow, KeptNow
    <2>4. StoredNow <= ClEventCap /\ StoredNow + KeptNow <= ClTotalCap
        BY DEF ClipsInv, ClipBudget
    <2>5. ClEventCap \in Nat /\ ClTotalCap \in Nat
        BY ClipsAssumption
    <2> HIDE DEF S, T
    <2>6. QED
        BY <2>2, <2>3, <2>4, <2>5 DEF ClipBudget
<1>10. ReadyHasClip'
    <2> SUFFICES ASSUME NEW e \in ClEvents, doc'[e].clip = "ready"
                 PROVE  doc'[e].of \in kept \/ (doc'[e].of # ClNone /\ e \in clipStored'[doc'[e].of])
        BY <1>1 DEF ReadyHasClip
    <2>1. /\ doc[e].clip = "ready"
          /\ doc'[e].of = doc[e].of
          /\ e \notin clipStored[sweep] \/ doc[e].of # sweep
        BY <1>4
    <2>2. doc[e].of \in kept \/ (doc[e].of # ClNone /\ e \in clipStored[doc[e].of])
        BY <2>1 DEF ClipsInv, ReadyHasClip
    <2>3. doc[e].of \in ClEvents \union {ClNone}
        BY <1>2 DEF Docs
    <2>4. kept' = kept
        BY <1>1
    <2>5. QED
        BY <1>5, <2>1, <2>2, <2>3, <2>4
<1>11. QED
    BY <1>6, <1>8, <1>9, <1>10 DEF ClipsInv

LEMMA RestartKeeps ==
    ASSUME ClipsInv, ClRestart
    PROVE  ClipsInv'
<1>1. /\ pipe' = [e \in ClEvents |-> IF pipe[e].pc = "new" THEN pipe[e] ELSE NoPipe]
      /\ capture' = [e \in ClEvents |-> "none"] /\ job' = [e \in ClEvents |-> NoJob]
      /\ shared' = ClNone /\ admission' = ClNone /\ sweep' = ClNone
      /\ UNCHANGED <<doc, copy, clipStored, kept>>
    BY DEF ClRestart
<1>2. /\ NoJob \in Jobs /\ NoJob.pc = "none" /\ NoJob.read = {} /\ NoPipe \in Pipes /\ NoPipe.pc = "over"
    BY DEF NoJob, Jobs, NoPipe, Pipes, ClipStates
<1>3. ClipsTyped'
    <2>1. pipe' \in [ClEvents -> Pipes] /\ job' \in [ClEvents -> Jobs]
        BY <1>1, <1>2 DEF ClipsInv, ClipsTyped
    <2>2. QED
        BY <1>1, <2>1 DEF ClipsInv, ClipsTyped
<1>4. OneWorker'
    <2> SUFFICES ASSUME NEW e \in ClEvents
                 PROVE  /\ pipe'[e].pc # "over" => job'[e].pc = "none" /\ clipStored'[e] = {}
                        /\ job'[e].pc \in {"await", "fetch", "admit", "insert"} => clipStored'[e] = {}
                        /\ job'[e].pc \notin {"none", "await"} => capture'[e] = "none"
                        /\ \A r \in job'[e].read : r.event \in job'[e].events
        BY DEF OneWorker
    <2>1. job'[e] = NoJob /\ (pipe'[e].pc # "over" => pipe[e].pc # "over")
        BY <1>1, <1>2
    <2>2. pipe[e].pc # "over" => clipStored[e] = {}
        BY JobStands
    <2>3. QED
        BY <1>1, <1>2, <2>1, <2>2
<1>5. OneAdmitted' /\ ReadyIsStored' /\ SweepsAtRest'
    BY <1>1, <1>2 DEF OneAdmitted, ReadyIsStored, SweepsAtRest
<1>6. ClipBudget' /\ ReadyHasClip'
    BY <1>1 DEF ClipsInv, ClipBudget, StoredNow, KeptNow, ReadyHasClip
<1>7. QED
    BY <1>3, <1>4, <1>5, <1>6 DEF ClipsInv

LEMMA ClipsStep ==
    ASSUME ClipsInv, [ClipsNext]_clipVars
    PROVE  ClipsInv'
<1>1. CASE UNCHANGED clipVars
    <2>1. ClipsTyped'
        BY <1>1 DEF clipVars, ClipsInv, ClipsTyped
    <2>2. OneWorker'
        BY <1>1 DEF clipVars, ClipsInv, OneWorker
    <2>3. OneAdmitted'
        BY <1>1 DEF clipVars, ClipsInv, OneAdmitted, Room, StoredNow, KeptNow
    <2>4. ReadyIsStored' /\ SweepsAtRest'
        BY <1>1 DEF clipVars, ClipsInv, ReadyIsStored, HasStored, SweepsAtRest, AtRest
    <2>5. ClipBudget' /\ ReadyHasClip'
        BY <1>1 DEF clipVars, ClipsInv, ClipBudget, StoredNow, KeptNow, ReadyHasClip
    <2>6. QED
        BY <2>1, <2>2, <2>3, <2>4, <2>5 DEF ClipsInv
<1>2. CASE ClipsNext
    BY <1>2, PipelineKeeps, PictureKeeps, WorkerKeeps, AttachKeeps, CommitKeeps, AdmitKeeps, ReportKeeps,
       InsertKeeps, InsertFailKeeps, ChoiceKeeps, SweepKeeps, RestartKeeps DEF ClipsNext
<1>3. QED
    BY <1>1, <1>2

\* The clips fit, with several workers admitting at once, and an event that says
\* its clip is ready has one that knows it (store, update_events and expire).
THEOREM ClipsAddUpThroughout == ClipsSpec => []ClipsAddUp
<1>1. ClipsInit => ClipsInv
    <2> SUFFICES ASSUME ClipsInit
                 PROVE  ClipsInv
        OBVIOUS
    <2>1. /\ NoJob \in Jobs /\ NoJob.pc = "none" /\ NoJob.read = {}
          /\ NoDoc \in Docs /\ NoDoc.clip = "none"
        BY DEF NoJob, Jobs, NoDoc, Docs, ClipStates
    <2>2. [NoPipe EXCEPT !.pc = "new"] \in Pipes
        BY DEF NoPipe, Pipes
    <2>3. ClipsTyped
        BY <2>1, <2>2 DEF ClipsInit, ClipsTyped
    <2>4. OneWorker /\ OneAdmitted /\ ReadyIsStored /\ SweepsAtRest /\ ReadyHasClip
        BY <2>1 DEF ClipsInit, OneWorker, OneAdmitted, ReadyIsStored, SweepsAtRest, ReadyHasClip
    <2>5. StoredNow = 0 /\ KeptNow = 0
        <3>1. {o \in ClEvents : clipStored[o] # {}} = {} /\ kept = {}
            BY DEF ClipsInit
        <3>2. QED
            BY <3>1, FS_EmptySet DEF StoredNow, KeptNow
    <2>6. ClipBudget
        BY <2>5, ClipsAssumption DEF ClipBudget
    <2>7. QED
        BY <2>3, <2>4, <2>6 DEF ClipsInv
<1>2. ClipsInv /\ [ClipsNext]_clipVars => ClipsInv'
    BY ClipsStep
<1>3. ClipsInv => ClipsAddUp
    BY DEF ClipsInv, ClipsAddUp
<1>4. QED
    BY <1>1, <1>2, <1>3, PTL DEF ClipsSpec

-------------------------------------------------------------------------------
(* Segments                                                                *)

Entries == [life : Nat, seq : Nat, init : {"one", "other"}, at : Nat]

Readers == [gen : Nat, pc : {"over", "poll", "fetch"}, latest : Entries \union {NoSegment},
            stale : BOOLEAN, buffer : Seq(Entries), wanted : Seq(Entries)]
Tasks   == [pc : {"none", "seeded", "collect", "video", "failed"}, gen : Nat, segments : Seq(Entries)]

SegmentsTyped ==
    /\ published \in Nat /\ sgMishaps \in Nat
    /\ muxer \in [life : Nat, next : Nat, init : {"one", "other"}, list : Seq(Entries)]
    /\ sgReader \in Readers /\ clipTask \in Tasks
    /\ sgReader.pc = "fetch" <=> sgReader.wanted # <<>>
    /\ clipTask.pc \in {"seeded", "collect"} => clipTask.segments # <<>>

\* The list is the muxer's latest, in its present life.
ListIsOfNow ==
    \A i \in 1..Len(muxer.list) :
        /\ muxer.list[i].life = muxer.life /\ muxer.list[i].init = muxer.init
        /\ muxer.list[i].seq = muxer.next - Len(muxer.list) + i - 1

\* What the reader has and is about to add, and what a clip is made of, has no gap.
HeldGapless == Gapless(sgReader.buffer \o sgReader.wanted) /\ Gapless(clipTask.segments)

Known == Range(muxer.list) \union Range(sgReader.buffer) \union Range(sgReader.wanted)
         \union Range(clipTask.segments)

\* Within a life of the muxer the numbers are those of publication, from another zero.
NumberedInTurn(S, life, next, count) ==
    /\ \A s, t \in S : s.life = t.life => s.at - t.at = s.seq - t.seq
    /\ \A s \in S : s.life <= life /\ (s.life = life => count - s.at = next - s.seq)

SegmentsInv ==
    /\ SegmentsTyped /\ ListIsOfNow /\ HeldGapless
    /\ NumberedInTurn(Known, muxer.life, muxer.next, published)

\* The numbers of a gapless sequence go up by one.
LEMMA GaplessCounts ==
    ASSUME NEW s \in Seq(Entries), Gapless(s)
    PROVE  \A i \in 1..Len(s) : s[i].seq = s[1].seq + i - 1
<1> SUFFICES ASSUME Len(s) > 0 PROVE \A i \in 1..Len(s) : s[i].seq = s[1].seq + i - 1
    OBVIOUS
<1> DEFINE T == {i \in 0..(Len(s) - 1) : s[i + 1].seq = s[1].seq + i}
<1>1. Len(s) \in Nat /\ \A i \in 1..Len(s) : s[i] \in Entries
    OBVIOUS
<1>2. 0 \in T
    BY <1>1 DEF Entries
<1>3. ASSUME NEW i \in 1..(Len(s) - 1), i - 1 \in T PROVE i \in T
    <2>1. i \in 1..(Len(s) - 1) /\ i \in 0..(Len(s) - 1) /\ i - 1 + 1 = i
        BY <1>1
    <2>2. s[i + 1].seq = s[i].seq + 1
        BY <2>1 DEF Gapless, Follows
    <2>3. s[i].seq = s[1].seq + (i - 1)
        BY <1>3, <2>1
    <2>4. s[1].seq \in Nat
        BY <1>1 DEF Entries
    <2>5. s[i + 1].seq = s[1].seq + i
        BY <2>2, <2>3, <2>4
    <2>6. QED
        BY <2>1, <2>5
<1>4. \A i \in 0..(Len(s) - 1) : i \in T
    <2> HIDE DEF T
    <2>1. Len(s) - 1 \in Nat
        BY <1>1
    <2>2. QED
        BY <1>2, <1>3, <2>1, NumbersUpTo
<1>5. QED
    BY <1>1, <1>4

\* What is above a number is the end of a list whose numbers grow.
LEMMA AboveIsTheEnd ==
    ASSUME NEW s \in Seq(Entries), NEW n \in Int,
           \A i, j \in 1..Len(s) : i < j => s[i].seq < s[j].seq
    PROVE  \E k \in 1..(Len(s) + 1) : /\ Above(s, n) = SubSeq(s, k, Len(s))
                                      /\ \A i \in 1..Len(s) : i >= k <=> s[i].seq > n
<1> DEFINE T == {i \in 1..Len(s) : s[i].seq > n} \union {Len(s) + 1}
           IsFirst(k) == \A i \in 1..Len(s) : i >= k <=> s[i].seq > n
<1>1. Len(s) \in Nat /\ \A i \in 1..Len(s) : s[i].seq \in Nat
    <2>1. Len(s) \in Nat /\ \A i \in 1..Len(s) : s[i] \in Entries
        OBVIOUS
    <2>2. QED
        BY <2>1 DEF Entries
<1>2. PICK k \in T : \A i \in T : k <= i
    <2>1. T \in SUBSET Nat /\ T # {}
        BY <1>1
    <2> HIDE DEF T
    <2>2. QED
        BY <2>1, LeastNumber
<1>3. k \in 1..(Len(s) + 1)
    BY <1>1
<1>4. IsFirst(k)
    <2> SUFFICES ASSUME NEW i \in 1..Len(s) PROVE i >= k <=> s[i].seq > n
        OBVIOUS
    <2>1. CASE i < k
        BY <1>1, <1>2, <1>3, <2>1
    <2>2. CASE i = k
        BY <1>1, <2>2
    <2>3. CASE i > k
        <3>1. k \in 1..Len(s) /\ s[k].seq > n
            BY <1>1, <1>3, <2>3
        <3>2. QED
            BY <1>1, <2>3, <3>1
    <2>4. QED
        BY <1>3, <2>1, <2>2, <2>3
<1>5. Above(s, n) = SubSeq(s, CHOOSE x \in 1..(Len(s) + 1) : IsFirst(x), Len(s))
    BY DEF Above
<1> HIDE DEF IsFirst
<1>6. PICK x \in 1..(Len(s) + 1) : Above(s, n) = SubSeq(s, x, Len(s)) /\ IsFirst(x)
    BY <1>3, <1>4, <1>5
<1>7. QED
    BY <1>6 DEF IsFirst

LEMMA EndIsOfTheList ==
    ASSUME NEW s \in Seq(Entries), NEW k \in 1..(Len(s) + 1)
    PROVE  /\ SubSeq(s, k, Len(s)) \in Seq(Entries) /\ Len(SubSeq(s, k, Len(s))) = Len(s) - k + 1
           /\ \A i \in 1..(Len(s) - k + 1) : SubSeq(s, k, Len(s))[i] = s[k + i - 1]
           /\ Range(SubSeq(s, k, Len(s))) \subseteq Range(s)
<1>1. Len(s) \in Nat /\ DOMAIN s = 1..Len(s)
    OBVIOUS
<1>2. SubSeq(s, k, Len(s)) = [i \in 1..(Len(s) - k + 1) |-> s[k + i - 1]]
    BY <1>1
<1>3. \A i \in 1..(Len(s) - k + 1) : k + i - 1 \in 1..Len(s)
    BY <1>1
<1>4. QED
    BY <1>1, <1>2, <1>3 DEF Range

\* The end of what has no gap has none, and the same of both parts of a concatenation.
LEMMA EndIsGapless ==
    ASSUME NEW s \in Seq(Entries), Gapless(s), NEW k \in 1..(Len(s) + 1)
    PROVE  Gapless(SubSeq(s, k, Len(s)))
<1> DEFINE e == SubSeq(s, k, Len(s))
<1>1. Len(s) \in Nat /\ Len(e) = Len(s) - k + 1 /\ \A i \in 1..(Len(s) - k + 1) : e[i] = s[k + i - 1]
    BY EndIsOfTheList
<1> HIDE DEF e
<1>2. ASSUME NEW i \in 1..(Len(e) - 1) PROVE Follows(e[i], e[i + 1])
    <2>1. k + i - 1 \in 1..(Len(s) - 1) /\ (k + i - 1) + 1 = k + (i + 1) - 1
        BY <1>1
    <2>2. e[i] = s[k + i - 1] /\ e[i + 1] = s[(k + i - 1) + 1]
        BY <1>1, <2>1
    <2>3. QED
        BY <2>1, <2>2 DEF Gapless
<1>3. QED
    BY <1>2 DEF Gapless, e

LEMMA PartsAreGapless ==
    ASSUME NEW s \in Seq(Entries), NEW t \in Seq(Entries)
    PROVE  /\ Gapless(s \o t) => Gapless(s) /\ Gapless(t)
           /\ Range(s \o t) = Range(s) \union Range(t)
           /\ s \o t \in Seq(Entries) /\ Len(s \o t) = Len(s) + Len(t)
<1> DEFINE u == s \o t
<1>1. /\ Len(s) \in Nat /\ Len(t) \in Nat /\ Len(u) = Len(s) + Len(t) /\ u \in Seq(Entries)
      /\ \A i \in 1..Len(s) : u[i] = s[i]
      /\ \A i \in 1..Len(t) : u[Len(s) + i] = t[i]
      /\ DOMAIN s = 1..Len(s) /\ DOMAIN t = 1..Len(t) /\ DOMAIN u = 1..Len(u)
    OBVIOUS
<1> HIDE DEF u
<1>2. ASSUME Gapless(u) PROVE Gapless(s) /\ Gapless(t)
    <2>1. \A i \in 1..(Len(s) - 1) : Follows(s[i], s[i + 1])
        <3> SUFFICES ASSUME NEW i \in 1..(Len(s) - 1) PROVE Follows(s[i], s[i + 1])
            OBVIOUS
        <3>1. i \in 1..(Len(u) - 1) /\ i \in 1..Len(s) /\ i + 1 \in 1..Len(s)
            BY <1>1
        <3>2. QED
            BY <1>1, <1>2, <3>1 DEF Gapless
    <2>2. \A i \in 1..(Len(t) - 1) : Follows(t[i], t[i + 1])
        <3> SUFFICES ASSUME NEW i \in 1..(Len(t) - 1) PROVE Follows(t[i], t[i + 1])
            OBVIOUS
        <3>1. /\ Len(s) + i \in 1..(Len(u) - 1) /\ i \in 1..Len(t) /\ i + 1 \in 1..Len(t)
              /\ (Len(s) + i) + 1 = Len(s) + (i + 1)
            BY <1>1
        <3>2. u[Len(s) + i] = t[i] /\ u[(Len(s) + i) + 1] = t[i + 1]
            BY <1>1, <3>1
        <3>3. QED
            BY <1>2, <3>1, <3>2 DEF Gapless
    <2>3. QED
        BY <2>1, <2>2 DEF Gapless
<1>3. Range(u) = Range(s) \union Range(t)
    <2>1. ASSUME NEW i \in 1..Len(u) PROVE u[i] \in Range(s) \union Range(t)
        <3>1. CASE i <= Len(s)
            <4>1. i \in 1..Len(s) /\ u[i] = s[i]
                BY <1>1, <3>1
            <4>2. QED
                BY <1>1, <4>1 DEF Range
        <3>2. CASE i > Len(s)
            <4>1. i - Len(s) \in 1..Len(t) /\ i = Len(s) + (i - Len(s))
                BY <1>1, <3>2
            <4>2. u[i] = t[i - Len(s)]
                BY <1>1, <4>1
            <4>3. QED
                BY <1>1, <4>1, <4>2 DEF Range
        <3>3. QED
            BY <1>1, <3>1, <3>2
    <2>2. ASSUME NEW i \in 1..Len(s) PROVE s[i] \in Range(u)
        <3>1. i \in 1..Len(u) /\ u[i] = s[i]
            BY <1>1
        <3>2. QED
            BY <1>1, <3>1 DEF Range
    <2>3. ASSUME NEW i \in 1..Len(t) PROVE t[i] \in Range(u)
        <3>1. Len(s) + i \in 1..Len(u) /\ u[Len(s) + i] = t[i]
            BY <1>1
        <3>2. QED
            BY <1>1, <3>1 DEF Range
    <2>4. Range(s) \subseteq Range(u)
        BY <1>1, <2>2 DEF Range
    <2>5. Range(t) \subseteq Range(u)
        BY <1>1, <2>3 DEF Range
    <2>6. Range(u) \subseteq Range(s) \union Range(t)
        BY <1>1, <2>1 DEF Range
    <2>7. QED
        BY <2>4, <2>5, <2>6
<1>4. QED
    BY <1>1, <1>2, <1>3 DEF u

\* The newest of a sequence are its end.
LEMMA NewestIsTheEnd ==
    ASSUME NEW s \in Seq(Entries), NEW n \in Nat \ {0}
    PROVE  /\ Newest(n, s) \in Seq(Entries) /\ Range(Newest(n, s)) \subseteq Range(s)
           /\ Gapless(s) => Gapless(Newest(n, s))
           /\ s # <<>> => Newest(n, s) # <<>>
           /\ Len(Newest(n, s)) <= Len(s) /\ Len(Newest(n, s)) <= n
           /\ \A i \in 1..Len(Newest(n, s)) : Newest(n, s)[i] = s[Len(s) - Len(Newest(n, s)) + i]
<1>1. Len(s) \in Nat
    OBVIOUS
<1>2. CASE Len(s) <= n
    <2>1. Newest(n, s) = s
        BY <1>2 DEF Newest
    <2>2. QED
        BY <1>1, <1>2, <2>1
<1>3. CASE ~(Len(s) <= n)
    <2> DEFINE k == Len(s) - n + 1
    <2>1. Newest(n, s) = SubSeq(s, k, Len(s)) /\ k \in 1..(Len(s) + 1) /\ Len(s) - k + 1 = n
        BY <1>1, <1>3 DEF Newest
    <2> HIDE DEF k
    <2>2. /\ Newest(n, s) \in Seq(Entries) /\ Len(Newest(n, s)) = n
          /\ \A i \in 1..n : Newest(n, s)[i] = s[k + i - 1]
          /\ Range(Newest(n, s)) \subseteq Range(s)
        BY <2>1, EndIsOfTheList
    <2>3. Gapless(s) => Gapless(Newest(n, s))
        BY <2>1, EndIsGapless
    <2>4. Newest(n, s) # <<>> /\ n <= Len(s)
        BY <1>1, <1>3, <2>2
    <2>5. \A i \in 1..n : Len(s) - n + i = k + i - 1
        BY <1>1 DEF k
    <2>6. \A i \in 1..Len(Newest(n, s)) : Newest(n, s)[i] = s[Len(s) - Len(Newest(n, s)) + i]
        BY <2>2, <2>5
    <2>7. Len(Newest(n, s)) <= n /\ Len(Newest(n, s)) <= Len(s)
        BY <1>1, <2>2, <2>4
    <2>8. QED
        BY <2>2, <2>3, <2>4, <2>6, <2>7
<1>4. QED
    BY <1>2, <1>3

\* What a poll sees is of the muxer's present life, and its numbers grow.
LEMMA PlaylistIsOfNow ==
    ASSUME SegmentsInv
    PROVE  /\ Playlist \in Seq(Entries) /\ Range(Playlist) \subseteq Range(muxer.list)
           /\ \A i, j \in 1..Len(Playlist) : i < j => Playlist[i].seq < Playlist[j].seq
           /\ \A i \in 1..Len(Playlist) : Playlist[i].init = muxer.init
<1> DEFINE l == muxer.list
<1>1. l \in Seq(Entries) /\ Len(l) \in Nat /\ muxer.next \in Nat /\ SgPad - 1 \in Int
    BY SegmentsAssumption DEF SegmentsInv, SegmentsTyped
<1>2. \A i \in 1..Len(l) : l[i].init = muxer.init /\ l[i].seq = muxer.next - Len(l) + i - 1
    BY DEF SegmentsInv, ListIsOfNow
<1> HIDE DEF l
<1>3. \A i, j \in 1..Len(l) : i < j => l[i].seq < l[j].seq
    <2> SUFFICES ASSUME NEW i \in 1..Len(l), NEW j \in 1..Len(l), i < j
                 PROVE  l[i].seq < l[j].seq
        OBVIOUS
    <2>1. l[i].seq = muxer.next - Len(l) + i - 1 /\ l[j].seq = muxer.next - Len(l) + j - 1
        BY <1>2
    <2> DEFINE zero == muxer.next - Len(l)
    <2>2. zero \in Int /\ i \in Int /\ j \in Int
        BY <1>1
    <2>3. zero + i - 1 < zero + j - 1
        BY <2>2
    <2>4. QED
        BY <2>1, <2>3
<1>4. PICK k \in 1..(Len(l) + 1) : Above(l, SgPad - 1) = SubSeq(l, k, Len(l))
    BY <1>1, <1>3, AboveIsTheEnd
<1>5. Playlist = SubSeq(l, k, Len(l))
    BY <1>4 DEF Playlist, l
<1>6. /\ Playlist \in Seq(Entries) /\ Len(Playlist) = Len(l) - k + 1
      /\ \A i \in 1..(Len(l) - k + 1) : Playlist[i] = l[k + i - 1]
      /\ Range(Playlist) \subseteq Range(l)
    BY <1>1, <1>5, EndIsOfTheList
<1>7. \A i \in 1..Len(Playlist) : k + i - 1 \in 1..Len(l)
    BY <1>1, <1>6
<1>8. \A i, j \in 1..Len(Playlist) : i < j => k + i - 1 < k + j - 1
    BY <1>6
<1>9. QED
    BY <1>2, <1>3, <1>6, <1>7, <1>8 DEF l

\* What a reader that keeps up fetches goes on from its buffer without a gap.
LEMMA MissingFollows ==
    ASSUME SegmentsInv, sgReader.buffer # <<>>, CatchesUp(Last(sgReader.buffer))
    PROVE  LET missing == Missing(Last(sgReader.buffer)) IN
           /\ missing \in Seq(Entries) /\ missing # <<>>
           /\ Range(missing) \subseteq Range(muxer.list)
           /\ Gapless(sgReader.buffer \o missing)
<1> DEFINE b == sgReader.buffer
           last == Last(b)
           m == Missing(last)
           both == b \o m
<1>1. /\ b \in Seq(Entries) /\ Len(b) \in Nat /\ Len(b) > 0 /\ last = b[Len(b)] /\ last \in Entries
      /\ Gapless(b)
    <2>1. b \in Seq(Entries) /\ sgReader.wanted \in Seq(Entries) /\ Gapless(b \o sgReader.wanted)
        BY DEF SegmentsInv, SegmentsTyped, HeldGapless, Readers
    <2>2. Gapless(b)
        BY <2>1, PartsAreGapless
    <2>3. QED
        BY <2>1, <2>2 DEF Last
<1>2. last.init = muxer.init /\ m # <<>> /\ Consecutive(<<last>> \o m)
    BY DEF CatchesUp
<1> DEFINE l == Playlist
<1>3. /\ l \in Seq(Entries) /\ Len(l) \in Nat /\ Range(l) \subseteq Range(muxer.list)
      /\ \A i, j \in 1..Len(l) : i < j => l[i].seq < l[j].seq
      /\ \A i \in 1..Len(l) : l[i].init = muxer.init
    BY PlaylistIsOfNow
<1>4. m = Above(l, last.seq) /\ last.seq \in Int
    BY <1>1 DEF Missing, Entries
<1> HIDE DEF b, last, m, l
<1>5. PICK k \in 1..(Len(l) + 1) : m = SubSeq(l, k, Len(l))
    BY <1>3, <1>4, AboveIsTheEnd
<1>6. /\ m \in Seq(Entries) /\ Len(m) = Len(l) - k + 1 /\ Range(m) \subseteq Range(l)
      /\ \A i \in 1..Len(m) : m[i] = l[k + i - 1]
    BY <1>3, <1>5, EndIsOfTheList
<1>7. \A i \in 1..Len(m) : m[i].init = muxer.init
    <2>1. \A i \in 1..Len(m) : k + i - 1 \in 1..Len(l)
        BY <1>3, <1>6
    <2>2. QED
        BY <1>3, <1>6, <2>1
<1>8. m[1].seq = last.seq + 1 /\ \A i \in 1..(Len(m) - 1) : m[i + 1].seq = m[i].seq + 1
    <2> DEFINE c == <<last>> \o m
    <2>1. /\ Len(c) = Len(m) + 1 /\ Len(m) \in Nat /\ Len(m) > 0 /\ c[1] = last
          /\ \A i \in 1..Len(m) : c[i + 1] = m[i]
        <3>1. Len(m) \in Nat /\ Len(m) > 0 /\ m \in Seq(Entries) /\ <<last>> \in Seq(Entries)
            BY <1>1, <1>2, <1>6
        <3>2. Len(<<last>>) = 1 /\ <<last>>[1] = last
            OBVIOUS
        <3>3. Len(c) = 1 + Len(m) /\ c[1] = last
            BY <3>1, <3>2
        <3>4. ASSUME NEW i \in 1..Len(m) PROVE c[i + 1] = m[i]
            <4>1. i + 1 \in 2..(1 + Len(m)) /\ i + 1 - 1 = i
                BY <3>1
            <4>2. QED
                BY <3>1, <3>2, <4>1
        <3>5. QED
            BY <3>1, <3>3, <3>4
    <2>2. \A i \in 1..Len(m) : c[i + 1].seq = c[i].seq + 1
        BY <1>2, <2>1 DEF Consecutive
    <2> HIDE DEF c
    <2>3. \A i \in 1..(Len(m) - 1) : i \in 1..Len(m) /\ i + 1 \in 1..Len(m)
        BY <2>1
    <2>4. QED
        BY <2>1, <2>2, <2>3
<1>9. ASSUME NEW i \in 1..(Len(b) + Len(m) - 1) PROVE Follows((b \o m)[i], (b \o m)[i + 1])
    <2>1. Len(m) \in Nat /\ Len(m) > 0
        BY <1>2, <1>6
    <2>2. CASE i < Len(b)
        <3>1. (b \o m)[i] = b[i] /\ (b \o m)[i + 1] = b[i + 1] /\ i \in 1..(Len(b) - 1)
            BY <1>1, <1>6, <2>1, <2>2
        <3>2. QED
            BY <1>1, <3>1 DEF Gapless
    <2>3. CASE i = Len(b)
        <3>1. (b \o m)[i] = last /\ (b \o m)[i + 1] = m[1]
            BY <1>1, <1>6, <2>1, <2>3
        <3>2. QED
            BY <1>2, <1>7, <1>8, <2>1, <3>1 DEF Follows
    <2>4. CASE i > Len(b)
        <3> DEFINE j == i - Len(b)
        <3>1. j \in 1..(Len(m) - 1) /\ j \in 1..Len(m) /\ j + 1 \in 1..Len(m)
            BY <1>1, <2>1, <2>4
        <3>2. (b \o m)[i] = m[j] /\ (b \o m)[i + 1] = m[j + 1]
            <4>1. i + 1 - Len(b) = j + 1
                BY <1>1
            <4>2. QED
                BY <1>1, <1>6, <2>1, <2>4, <3>1, <4>1
        <3> HIDE DEF j
        <3>3. QED
            BY <1>7, <1>8, <3>1, <3>2 DEF Follows
    <2>5. QED
        BY <1>1, <2>1, <2>2, <2>3, <2>4
<1>10. Gapless(b \o m)
    <2>1. Len(b \o m) = Len(b) + Len(m)
        BY <1>1, <1>6, PartsAreGapless
    <2>2. QED
        BY <1>9, <2>1 DEF Gapless
<1>11. QED
    BY <1>2, <1>3, <1>6, <1>10 DEF b, last, m

\* A step of the reader, and one of the capture, with what is known already.
LEMMA ReaderKeeps ==
    ASSUME SegmentsInv, NEW r \in Readers, sgReader' = r, sgMishaps' \in Nat,
           UNCHANGED <<muxer, published, clipTask>>,
           r.pc = "fetch" <=> r.wanted # <<>>, Gapless(r.buffer \o r.wanted),
           Range(r.buffer) \subseteq Known, Range(r.wanted) \subseteq Known
    PROVE  SegmentsInv'
<1>1. SegmentsTyped'
    BY DEF SegmentsInv, SegmentsTyped
<1>2. ListIsOfNow'
    BY DEF SegmentsInv, ListIsOfNow
<1>3. HeldGapless'
    BY DEF SegmentsInv, HeldGapless
<1>4. Known' \subseteq Known
    BY DEF Known
<1>5. NumberedInTurn(Known, muxer.life, muxer.next, published)'
    BY <1>4 DEF SegmentsInv, NumberedInTurn
<1>6. QED
    BY <1>1, <1>2, <1>3, <1>5 DEF SegmentsInv

LEMMA CaptureKeeps ==
    ASSUME SegmentsInv, NEW c \in Tasks, clipTask' = c,
           UNCHANGED <<muxer, published, sgReader, sgMishaps>>,
           c.pc \in {"seeded", "collect"} => c.segments # <<>>, Gapless(c.segments),
           Range(c.segments) \subseteq Known
    PROVE  SegmentsInv'
<1>1. SegmentsTyped'
    BY DEF SegmentsInv, SegmentsTyped
<1>2. ListIsOfNow'
    BY DEF SegmentsInv, ListIsOfNow
<1>3. HeldGapless'
    BY DEF SegmentsInv, HeldGapless
<1>4. Known' \subseteq Known
    BY DEF Known
<1>5. NumberedInTurn(Known, muxer.life, muxer.next, published)'
    BY <1>4 DEF SegmentsInv, NumberedInTurn
<1>6. QED
    BY <1>1, <1>2, <1>3, <1>5 DEF SegmentsInv

\* What the reader offers is typed, known, and without a gap.
LEMMA OfferedIsKnown ==
    ASSUME SegmentsInv
    PROVE  Offered \in Seq(Entries) /\ Gapless(Offered) /\ Range(Offered) \subseteq Known
<1>1. /\ sgReader.buffer \in Seq(Entries) /\ sgReader.wanted \in Seq(Entries)
      /\ Gapless(sgReader.buffer \o sgReader.wanted)
    BY DEF SegmentsInv, SegmentsTyped, Readers, HeldGapless
<1>2. Gapless(sgReader.buffer)
    BY <1>1, PartsAreGapless
<1>3. <<>> \in Seq(Entries) /\ Gapless(<<>>) /\ Range(<<>>) = {}
    BY DEF Gapless, Range
<1>4. QED
    BY <1>1, <1>2, <1>3 DEF Offered, Known

\* Publishing numbers the next segment, as it is counted.
LEMMA PublishKeeps ==
    ASSUME SegmentsInv, Publish
    PROVE  SegmentsInv'
<1> DEFINE l == muxer.list
           new == [life |-> muxer.life, seq |-> muxer.next, init |-> muxer.init, at |-> published]
           more == Append(l, new)
           newest == Newest(SgListed, more)
<1>1. /\ l \in Seq(Entries) /\ Len(l) \in Nat /\ new \in Entries /\ SgListed \in Nat \ {0}
      /\ muxer.life \in Nat /\ muxer.next \in Nat /\ muxer.init \in {"one", "other"} /\ published \in Nat
    BY SegmentsAssumption DEF SegmentsInv, SegmentsTyped, Entries
<1>2. /\ more \in Seq(Entries) /\ Len(more) = Len(l) + 1 /\ more[Len(l) + 1] = new
      /\ \A i \in 1..Len(l) : more[i] = l[i]
    BY <1>1
<1>3. /\ muxer' = [life |-> muxer.life, next |-> muxer.next + 1, init |-> muxer.init, list |-> newest]
      /\ published' = published + 1 /\ UNCHANGED <<sgReader, clipTask, sgMishaps>>
    <2>1. muxer' = [muxer EXCEPT !.next = @ + 1, !.list = newest]
        BY DEF Publish
    <2> HIDE DEF newest
    <2>2. QED
        BY <2>1 DEF Publish, SegmentsInv, SegmentsTyped
<1> HIDE DEF l, new, more, newest
<1>4. /\ newest \in Seq(Entries) /\ Range(newest) \subseteq Range(more)
      /\ Len(newest) \in Nat /\ Len(newest) <= Len(l) + 1
      /\ \A i \in 1..Len(newest) : newest[i] = more[Len(l) + 1 - Len(newest) + i]
    <2>1. /\ newest \in Seq(Entries) /\ Range(newest) \subseteq Range(more)
          /\ Len(newest) <= Len(more)
          /\ \A i \in 1..Len(newest) : newest[i] = more[Len(more) - Len(newest) + i]
        BY <1>1, <1>2, NewestIsTheEnd DEF newest
    <2>2. Len(newest) \in Nat
        BY <2>1
    <2>3. QED
        BY <1>2, <2>1, <2>2
<1>5. SegmentsTyped'
    <2>1. muxer' \in [life : Nat, next : Nat, init : {"one", "other"}, list : Seq(Entries)]
        BY <1>1, <1>3, <1>4
    <2>2. QED
        BY <1>1, <1>3, <2>1 DEF SegmentsInv, SegmentsTyped
<1>6. \A i \in 1..Len(more) : /\ more[i].life = muxer.life /\ more[i].init = muxer.init
                              /\ more[i].seq = (muxer.next + 1) - (Len(l) + 1) + i - 1
    <2>1. \A i \in 1..Len(l) : /\ l[i].life = muxer.life /\ l[i].init = muxer.init
                               /\ l[i].seq = muxer.next - Len(l) + i - 1
        BY DEF SegmentsInv, ListIsOfNow, l
    <2>2. new.life = muxer.life /\ new.init = muxer.init /\ new.seq = muxer.next
        BY DEF new
    <2> SUFFICES ASSUME NEW i \in 1..Len(more)
                 PROVE  /\ more[i].life = muxer.life /\ more[i].init = muxer.init
                        /\ more[i].seq = (muxer.next + 1) - (Len(l) + 1) + i - 1
        OBVIOUS
    <2>3. CASE i \in 1..Len(l)
        <3>1. /\ more[i].life = muxer.life /\ more[i].init = muxer.init
              /\ more[i].seq = muxer.next - Len(l) + i - 1
            BY <1>2, <2>1, <2>3
        <3>2. i \in Nat /\ Len(l) \in Nat /\ muxer.next \in Nat
            BY <1>1, <2>3
        <3>3. muxer.next - Len(l) + i - 1 = (muxer.next + 1) - (Len(l) + 1) + i - 1
            BY <3>2
        <3>4. QED
            BY <3>1, <3>3
    <2>4. CASE i = Len(l) + 1
        BY <1>1, <1>2, <2>2, <2>4
    <2>5. QED
        BY <1>1, <1>2, <2>3, <2>4
<1>7. ListIsOfNow'
    <2> SUFFICES ASSUME NEW i \in 1..Len(newest)
                 PROVE  /\ newest[i].life = muxer.life /\ newest[i].init = muxer.init
                        /\ newest[i].seq = (muxer.next + 1) - Len(newest) + i - 1
        BY <1>3 DEF ListIsOfNow
    <2> DEFINE j == Len(l) + 1 - Len(newest) + i
    <2>1. j \in 1..Len(more) /\ newest[i] = more[j]
        BY <1>1, <1>2, <1>4
    <2>2. (muxer.next + 1) - (Len(l) + 1) + j - 1 = (muxer.next + 1) - Len(newest) + i - 1
        <3>1. PICK a \in Nat, b \in Nat, c \in Nat :
                    a = muxer.next /\ b = Len(l) /\ c = Len(newest)
            BY <1>1, <1>4
        <3>2. (a + 1) - (b + 1) + (b + 1 - c + i) - 1 = (a + 1) - c + i - 1
            OBVIOUS
        <3>3. QED
            BY <3>1, <3>2
    <2> HIDE DEF j
    <2>3. QED
        BY <1>6, <2>1, <2>2
<1>8. HeldGapless'
    BY <1>3 DEF SegmentsInv, HeldGapless
<1>9. Known' \subseteq Known \union {new}
    <2>1. Range(more) \subseteq Range(l) \union {new}
        <3>1. DOMAIN more = 1..(Len(l) + 1) /\ DOMAIN l = 1..Len(l)
            BY <1>1, <1>2
        <3>2. ASSUME NEW i \in 1..(Len(l) + 1) PROVE more[i] \in Range(l) \union {new}
            <4>1. i \in 1..Len(l) \/ i = Len(l) + 1
                BY <1>1
            <4>2. QED
                BY <1>2, <3>1, <4>1 DEF Range
        <3>3. QED
            BY <3>1, <3>2 DEF Range
    <2>2. QED
        BY <1>3, <1>4, <2>1 DEF Known, l
<1>10. NumberedInTurn(Known, muxer.life, muxer.next, published)
    BY DEF SegmentsInv
<1>11. \A s \in Known : s \in Entries
    <2>1. /\ l \in Seq(Entries) /\ sgReader.buffer \in Seq(Entries) /\ sgReader.wanted \in Seq(Entries)
          /\ clipTask.segments \in Seq(Entries)
        BY <1>1 DEF SegmentsInv, SegmentsTyped, Readers, Tasks
    <2>2. \A q \in Seq(Entries) : Range(q) \subseteq Entries
        BY DEF Range
    <2>3. QED
        BY <2>1, <2>2 DEF Known, l
<1>12. \A s \in Known \union {new} : /\ s \in Entries /\ s.life <= muxer.life
                                     /\ s.life = muxer.life => published - s.at = muxer.next - s.seq
    BY <1>1, <1>10, <1>11 DEF NumberedInTurn, new
<1>13. \A s, t \in Known \union {new} : s.life = t.life => s.at - t.at = s.seq - t.seq
    <2> SUFFICES ASSUME NEW s \in Known \union {new}, NEW t \in Known \union {new}, s.life = t.life
                 PROVE  s.at - t.at = s.seq - t.seq
        OBVIOUS
    <2>1. /\ s.at \in Nat /\ t.at \in Nat /\ s.seq \in Nat /\ t.seq \in Nat /\ s.life \in Nat
          /\ new.at = published /\ new.seq = muxer.next /\ new.life = muxer.life
        BY <1>12 DEF Entries, new
    <2>2. CASE s \in Known /\ t \in Known
        BY <1>10, <2>2 DEF NumberedInTurn
    <2> HIDE DEF new
    <2>6. \A a, b, c, d \in Nat : a - b = c - d => b - a = d - c
        OBVIOUS
    <2>3. CASE s = new
        <3>1. published - t.at = muxer.next - t.seq
            BY <1>12, <2>1, <2>3
        <3>2. QED
            BY <2>1, <2>3, <3>1
    <2>4. CASE t = new
        <3>1. published - s.at = muxer.next - s.seq
            BY <1>12, <2>1, <2>4
        <3>2. s.at - published = s.seq - muxer.next
            BY <1>1, <2>1, <3>1, <2>6
        <3>3. QED
            BY <2>1, <2>4, <3>2
    <2>5. QED
        BY <2>2, <2>3, <2>4
<1>14. \A s \in Known \union {new} :
            s.life = muxer.life => (published + 1) - s.at = (muxer.next + 1) - s.seq
    <2> SUFFICES ASSUME NEW s \in Known \union {new}, s.life = muxer.life
                 PROVE  (published + 1) - s.at = (muxer.next + 1) - s.seq
        OBVIOUS
    <2>1. s.at \in Nat /\ s.seq \in Nat /\ published - s.at = muxer.next - s.seq
        BY <1>12 DEF Entries
    <2>2. PICK a \in Nat, b \in Nat, c \in Nat, d \in Nat :
                a = published /\ b = s.at /\ c = muxer.next /\ d = s.seq
        BY <1>1, <2>1
    <2>3. a - b = c - d
        BY <2>1, <2>2
    <2>4. (a + 1) - b = (c + 1) - d
        BY <2>3
    <2>5. QED
        BY <2>2, <2>4
<1>15. NumberedInTurn(Known, muxer.life, muxer.next, published)'
    BY <1>3, <1>9, <1>12, <1>13, <1>14 DEF NumberedInTurn
<1>16. QED
    BY <1>5, <1>7, <1>8, <1>15 DEF SegmentsInv

\* A muxer that starts again numbers from zero, in a life that nothing is of.
LEMMA RemuxKeeps ==
    ASSUME SegmentsInv, MuxerRestarts
    PROVE  SegmentsInv'
<1>1. PICK init \in {"one", "other"} :
            muxer' = [life |-> muxer.life + 1, next |-> 0, init |-> init, list |-> <<>>]
    BY DEF MuxerRestarts
<1>2. sgMishaps' = sgMishaps + 1 /\ UNCHANGED <<published, sgReader, clipTask>>
    BY DEF MuxerRestarts, SgMishap
<1>3. SegmentsTyped' /\ ListIsOfNow' /\ HeldGapless'
    BY <1>1, <1>2 DEF SegmentsInv, SegmentsTyped, ListIsOfNow, HeldGapless
<1>4. Known' \subseteq Known
    BY <1>1, <1>2 DEF Known, Range
<1>5. muxer.life \in Nat /\ \A s \in Known : s.life \in Nat /\ s.life <= muxer.life
    <2>1. /\ muxer.life \in Nat /\ muxer.list \in Seq(Entries) /\ sgReader.buffer \in Seq(Entries)
          /\ sgReader.wanted \in Seq(Entries) /\ clipTask.segments \in Seq(Entries)
        BY DEF SegmentsInv, SegmentsTyped, Readers, Tasks
    <2>2. \A q \in Seq(Entries) : Range(q) \subseteq Entries
        BY DEF Range
    <2>3. Known \subseteq Entries
        BY <2>1, <2>2 DEF Known
    <2>4. QED
        BY <2>1, <2>3 DEF SegmentsInv, NumberedInTurn, Entries
<1>6. \A s \in Known : s.life <= muxer.life + 1 /\ s.life # muxer.life + 1
    BY <1>5
<1>7. NumberedInTurn(Known, muxer.life, muxer.next, published)'
    BY <1>1, <1>2, <1>4, <1>6 DEF SegmentsInv, NumberedInTurn
<1>8. QED
    BY <1>3, <1>7 DEF SegmentsInv

\* A poll that keeps up fetches what is missing; one that does not starts anew.
LEMMA PollKeeps ==
    ASSUME SegmentsInv, Poll
    PROVE  SegmentsInv'
<1> DEFINE b == sgReader.buffer
           goesOn == b # <<>> /\ CatchesUp(Last(b))
           r == [sgReader EXCEPT !.pc = "fetch", !.buffer = IF goesOn THEN @ ELSE <<>>,
                                 !.wanted = IF goesOn THEN Missing(Last(b)) ELSE <<Last(Playlist)>>]
<1>1. sgReader' = r /\ Playlist # <<>> /\ UNCHANGED <<muxer, published, clipTask, sgMishaps>>
    BY DEF Poll
<1>2. /\ sgReader \in Readers /\ b \in Seq(Entries) /\ Range(b) \subseteq Known
      /\ Range(muxer.list) \subseteq Known /\ sgMishaps \in Nat
    BY DEF SegmentsInv, SegmentsTyped, Readers, Known
<1>3. CASE goesOn
    <2> DEFINE m == Missing(Last(b))
    <2>1. m \in Seq(Entries) /\ m # <<>> /\ Range(m) \subseteq Known /\ Gapless(b \o m)
        BY <1>2, <1>3, MissingFollows
    <2>2. r = [sgReader EXCEPT !.pc = "fetch", !.wanted = m]
        BY <1>2, <1>3 DEF Readers
    <2> HIDE DEF r, m
    <2>3. r \in Readers /\ r.pc = "fetch" /\ r.wanted = m /\ r.buffer = b
        BY <1>2, <2>1, <2>2 DEF Readers
    <2>4. QED
        BY <1>1, <1>2, <2>1, <2>3, ReaderKeeps
<1>4. CASE ~goesOn
    <2> DEFINE newest == Last(Playlist)
    <2>1. newest \in Range(muxer.list) /\ newest \in Entries
        <3>1. Playlist \in Seq(Entries) /\ Range(Playlist) \subseteq Range(muxer.list)
            BY PlaylistIsOfNow
        <3>2. Len(Playlist) \in DOMAIN Playlist /\ newest = Playlist[Len(Playlist)]
            BY <1>1, <3>1 DEF Last
        <3>3. QED
            BY <3>1, <3>2 DEF Range
    <2>2. r = [sgReader EXCEPT !.pc = "fetch", !.buffer = <<>>, !.wanted = <<newest>>]
        BY <1>2, <1>4 DEF Readers
    <2> HIDE DEF r, newest
    <2>3. r \in Readers /\ r.pc = "fetch" /\ r.wanted = <<newest>> /\ r.buffer = <<>>
        <3>1. <<newest>> \in Seq(Entries) /\ <<>> \in Seq(Entries)
            BY <2>1
        <3>2. QED
            BY <1>2, <2>2, <3>1 DEF Readers
    <2>4. Gapless(<<>> \o <<newest>>) /\ Range(<<>>) = {} /\ Range(<<newest>>) = {newest}
        BY DEF Gapless, Range
    <2>5. <<newest>> # <<>>
        OBVIOUS
    <2>6. QED
        BY <1>1, <1>2, <2>1, <2>3, <2>4, <2>5, ReaderKeeps
<1>5. QED
    BY <1>3, <1>4

\* What was fetched is appended, and the buffer keeps its end.
LEMMA FetchedKeeps ==
    ASSUME SegmentsInv, SgFetched
    PROVE  SegmentsInv'
<1> DEFINE b == sgReader.buffer
           w == sgReader.wanted
<1>1. /\ sgReader \in Readers /\ b \in Seq(Entries) /\ w \in Seq(Entries) /\ Len(w) \in Nat /\ w # <<>>
      /\ Range(b) \subseteq Known /\ Range(w) \subseteq Known /\ Gapless(b \o w) /\ sgMishaps \in Nat
    BY DEF SgFetched, SegmentsInv, SegmentsTyped, Readers, Known, HeldGapless
<1>2. /\ Last(w) \in Entries /\ b \o w \in Seq(Entries) /\ Gapless(w)
      /\ Range(b \o w) \subseteq Known
    <2>1. Last(w) \in Entries
        BY <1>1 DEF Last
    <2>2. QED
        BY <1>1, <2>1, PartsAreGapless
<1>3. PICK bad \in 0..Len(w) :
        LET all  == b \o w
            good == IF bad = 0 THEN all ELSE SubSeq(w, bad + 1, Len(w))
        IN  \E n \in 1..SgBuffer :
               sgReader' = [sgReader EXCEPT !.pc = "poll", !.buffer = Newest(n, good), !.wanted = <<>>,
                                        !.latest = Last(w), !.stale = FALSE]
    BY DEF SgFetched
<1> DEFINE good == IF bad = 0 THEN b \o w ELSE SubSeq(w, bad + 1, Len(w))
<1>4. good \in Seq(Entries) /\ Gapless(good) /\ Range(good) \subseteq Known
    <2>1. bad + 1 \in 1..(Len(w) + 1)
        BY <1>1
    <2>2. /\ SubSeq(w, bad + 1, Len(w)) \in Seq(Entries) /\ Gapless(SubSeq(w, bad + 1, Len(w)))
          /\ Range(SubSeq(w, bad + 1, Len(w))) \subseteq Range(w)
        BY <1>1, <1>2, <2>1, EndIsOfTheList, EndIsGapless
    <2>3. QED
        BY <1>1, <1>2, <2>2
<1>5. PICK n \in 1..SgBuffer :
            sgReader' = [sgReader EXCEPT !.pc = "poll", !.buffer = Newest(n, good), !.wanted = <<>>,
                                     !.latest = Last(w), !.stale = FALSE]
    BY <1>3
<1> HIDE DEF good
<1> DEFINE k == Newest(n, good)
           r == [sgReader EXCEPT !.pc = "poll", !.buffer = k, !.wanted = <<>>,
                                 !.latest = Last(w), !.stale = FALSE]
<1>6. k \in Seq(Entries) /\ Gapless(k) /\ Range(k) \subseteq Known
    <2>1. n \in Nat \ {0}
        BY SegmentsAssumption
    <2>2. QED
        BY <1>4, <2>1, NewestIsTheEnd
<1>7. k \o <<>> = k /\ <<>> \in Seq(Entries) /\ Range(<<>>) \subseteq Known
    BY <1>6 DEF Range
<1> HIDE DEF k
<1>8. r \in Readers /\ r.pc = "poll" /\ r.buffer = k /\ r.wanted = <<>>
    BY <1>1, <1>2, <1>6, <1>7 DEF Readers
<1>9. sgReader' = r /\ UNCHANGED <<muxer, published, clipTask, sgMishaps>>
    BY <1>5 DEF SgFetched, k
<1> HIDE DEF r
<1>10. QED
    BY <1>1, <1>6, <1>7, <1>8, <1>9, ReaderKeeps

\* The other steps of the reader drop what it has, or leave it.
LEMMA ReaderStep ==
    ASSUME SegmentsInv, PollFails \/ GrowsStale \/ ReaderStops \/ Ensure \/ Release
    PROVE  SegmentsInv'
<1>1. /\ sgReader \in Readers /\ sgReader.buffer \in Seq(Entries) /\ sgReader.wanted \in Seq(Entries)
      /\ Gapless(sgReader.buffer \o sgReader.wanted) /\ sgMishaps \in Nat
      /\ Range(sgReader.buffer) \subseteq Known /\ Range(sgReader.wanted) \subseteq Known
      /\ sgReader.pc = "fetch" <=> sgReader.wanted # <<>>
    BY DEF SegmentsInv, SegmentsTyped, Readers, Known, HeldGapless
<1>2. <<>> \in Seq(Entries) /\ Gapless(<<>> \o <<>>) /\ Range(<<>>) \subseteq Known
    BY DEF Gapless, Range
<1>3. ASSUME NEW r \in Readers, sgReader' = r, r.buffer = <<>>, r.wanted = <<>>, r.pc # "fetch",
             sgMishaps' \in Nat, UNCHANGED <<muxer, published, clipTask>>
      PROVE  SegmentsInv'
    BY <1>2, <1>3, ReaderKeeps
<1>4. ASSUME NEW r \in Readers, sgReader' = r, r.buffer = sgReader.buffer, r.wanted = sgReader.wanted,
             r.pc = "fetch" <=> sgReader.pc = "fetch",
             UNCHANGED <<muxer, published, clipTask, sgMishaps>>
      PROVE  SegmentsInv'
    BY <1>1, <1>4, ReaderKeeps
<1>5. CASE PollFails
    <2> DEFINE r == [sgReader EXCEPT !.pc = "poll", !.buffer = <<>>, !.wanted = <<>>]
    <2>1. r \in Readers /\ r.buffer = <<>> /\ r.wanted = <<>> /\ r.pc = "poll"
        BY <1>1, <1>2 DEF Readers
    <2>2. sgReader' = r /\ sgMishaps' \in Nat /\ UNCHANGED <<muxer, published, clipTask>>
        BY <1>1, <1>5 DEF PollFails
    <2> HIDE DEF r
    <2>3. QED
        BY <1>3, <2>1, <2>2
<1>6. CASE GrowsStale
    <2> DEFINE r == [sgReader EXCEPT !.stale = TRUE]
    <2>1. r \in Readers /\ r.buffer = sgReader.buffer /\ r.wanted = sgReader.wanted /\ r.pc = sgReader.pc
        BY <1>1 DEF Readers
    <2>2. sgReader' = r /\ UNCHANGED <<muxer, published, clipTask, sgMishaps>>
        BY <1>6 DEF GrowsStale
    <2> HIDE DEF r
    <2>3. QED
        BY <1>4, <2>1, <2>2
<1>7. CASE ReaderStops
    <2> DEFINE r == [sgReader EXCEPT !.pc = "over"]
    <2>1. /\ r \in Readers /\ r.buffer = sgReader.buffer /\ r.wanted = sgReader.wanted
          /\ r.pc = "over"
        BY <1>1 DEF Readers
    <2>2. sgReader.pc = "poll" /\ sgReader' = r /\ UNCHANGED <<muxer, published, clipTask, sgMishaps>>
        BY <1>7 DEF ReaderStops
    <2> HIDE DEF r
    <2>3. QED
        BY <1>4, <2>1, <2>2
<1>8. CASE Ensure
    <2> DEFINE r == [NoReader EXCEPT !.gen = sgMishaps + 1, !.pc = "poll"]
    <2>1. r \in Readers /\ r.buffer = <<>> /\ r.wanted = <<>> /\ r.pc = "poll"
        <3>1. NoReader \in Readers /\ NoReader.buffer = <<>> /\ NoReader.wanted = <<>>
            BY <1>2 DEF Readers, NoReader
        <3>2. sgMishaps + 1 \in Nat
            BY <1>1
        <3>3. QED
            BY <3>1, <3>2 DEF Readers
    <2>2. sgReader' = r /\ sgMishaps' \in Nat /\ UNCHANGED <<muxer, published, clipTask>>
        BY <1>1, <1>8 DEF Ensure, SgMishap
    <2> HIDE DEF r
    <2>3. QED
        BY <1>3, <2>1, <2>2
<1>9. CASE Release
    <2>1. NoReader \in Readers /\ NoReader.buffer = <<>> /\ NoReader.wanted = <<>> /\ NoReader.pc = "over"
        BY <1>2 DEF Readers, NoReader
    <2>2. sgReader' = NoReader /\ sgMishaps' \in Nat /\ UNCHANGED <<muxer, published, clipTask>>
        BY <1>1, <1>9 DEF Release, SgMishap
    <2>3. QED
        BY <1>3, <2>1, <2>2
<1>10. QED
    BY <1>5, <1>6, <1>7, <1>8, <1>9

\* A clip begins with the end of the buffer and takes on only what follows.
LEMMA CaptureStep ==
    ASSUME SegmentsInv, Seed \/ Capture \/ Collect
    PROVE  SegmentsInv'
<1> DEFINE g == clipTask.segments
<1>1. /\ clipTask \in Tasks /\ sgReader.gen \in Nat /\ g \in Seq(Entries) /\ Gapless(g)
      /\ Range(g) \subseteq Known /\ (clipTask.pc \in {"seeded", "collect"} => g # <<>>)
    BY DEF SegmentsInv, SegmentsTyped, Tasks, Readers, Known, HeldGapless
<1>2. Offered \in Seq(Entries) /\ Gapless(Offered) /\ Range(Offered) \subseteq Known
    BY OfferedIsKnown
<1>3. CASE Seed
    <2>1. PICK n \in 1..Len(Offered) :
                clipTask' = [NoClip EXCEPT !.pc = "seeded", !.segments = Newest(n, Offered)]
        BY <1>3 DEF Seed
    <2> DEFINE k == Newest(n, Offered)
               c == [NoClip EXCEPT !.pc = "seeded", !.segments = k]
    <2>2. n \in Nat \ {0} /\ Offered # <<>>
        BY <1>2
    <2>3. k \in Seq(Entries) /\ Gapless(k) /\ Range(k) \subseteq Known /\ k # <<>>
        BY <1>2, <2>2, NewestIsTheEnd
    <2>4. clipTask' = c
        BY <2>1
    <2> HIDE DEF k
    <2>5. c \in Tasks /\ c.pc = "seeded" /\ c.segments = k
        BY <2>3 DEF Tasks, NoClip
    <2> HIDE DEF c
    <2>6. UNCHANGED <<muxer, published, sgReader, sgMishaps>>
        BY <1>3 DEF Seed
    <2>7. QED
        BY <2>3, <2>4, <2>5, <2>6, CaptureKeeps
<1>4. CASE Capture
    <2>1. PICK c \in Tasks : clipTask' = c /\ c.segments = g /\ c.pc \in {"collect", "failed"}
        <3>1. /\ [clipTask EXCEPT !.pc = "failed"] \in Tasks
              /\ [clipTask EXCEPT !.pc = "failed"].segments = g
              /\ [clipTask EXCEPT !.pc = "failed"].pc = "failed"
            BY <1>1 DEF Tasks
        <3>2. /\ [clipTask EXCEPT !.pc = "collect", !.gen = sgReader.gen] \in Tasks
              /\ [clipTask EXCEPT !.pc = "collect", !.gen = sgReader.gen].segments = g
              /\ [clipTask EXCEPT !.pc = "collect", !.gen = sgReader.gen].pc = "collect"
            BY <1>1 DEF Tasks
        <3>3. \/ clipTask' = [clipTask EXCEPT !.pc = "failed"]
              \/ clipTask' = [clipTask EXCEPT !.pc = "collect", !.gen = sgReader.gen]
            BY <1>4 DEF Capture
        <3>4. QED
            BY <3>1, <3>2, <3>3
    <2>2. clipTask.pc = "seeded" /\ UNCHANGED <<muxer, published, sgReader, sgMishaps>>
        BY <1>4 DEF Capture
    <2> HIDE DEF g
    <2>3. QED
        BY <1>1, <2>1, <2>2, CaptureKeeps
<1>5. CASE Collect
    <2> DEFINE above == Above(Offered, Last(g).seq)
               longer == g \o above
    <2>1. above \in Seq(Entries) /\ Range(above) \subseteq Known
        <3>1. \A i, j \in 1..Len(Offered) : i < j => Offered[i].seq < Offered[j].seq
            <4> SUFFICES ASSUME NEW i \in 1..Len(Offered), NEW j \in 1..Len(Offered), i < j
                         PROVE  Offered[i].seq < Offered[j].seq
                OBVIOUS
            <4>1. /\ Offered[i].seq = Offered[1].seq + i - 1 /\ Offered[j].seq = Offered[1].seq + j - 1
                BY <1>2, GaplessCounts
            <4>2. PICK z \in Nat : z = Offered[1].seq
                <5>1. 1 \in 1..Len(Offered)
                    BY <1>2
                <5>2. Offered[1] \in Entries
                    BY <1>2, <5>1
                <5>3. QED
                    BY <5>2 DEF Entries
            <4>3. z + i - 1 < z + j - 1
                OBVIOUS
            <4>4. QED
                BY <4>1, <4>2, <4>3
        <3>2. Last(g).seq \in Int
            <4>1. g # <<>> /\ Last(g) \in Entries
                BY <1>1, <1>5 DEF Collect, Last
            <4>2. QED
                BY <4>1 DEF Entries
        <3>3. PICK k \in 1..(Len(Offered) + 1) : above = SubSeq(Offered, k, Len(Offered))
            BY <1>2, <3>1, <3>2, AboveIsTheEnd
        <3> HIDE DEF above
        <3>4. QED
            BY <1>2, <3>3, EndIsOfTheList
    <2>2. longer \in Seq(Entries) /\ Range(longer) \subseteq Known /\ (g # <<>> => longer # <<>>)
        <3> HIDE DEF above, g
        <3>1. longer \in Seq(Entries) /\ Len(longer) = Len(g) + Len(above) /\ Range(longer) \subseteq Known
            BY <1>1, <2>1, PartsAreGapless
        <3>2. Len(g) \in Nat /\ Len(above) \in Nat /\ (g # <<>> => Len(g) > 0)
            BY <1>1, <2>1
        <3>3. g # <<>> => Len(longer) > 0
            BY <3>1, <3>2
        <3> HIDE DEF longer
        <3>4. QED
            BY <3>1, <3>3
    <2>3. /\ clipTask.pc = "collect" /\ UNCHANGED <<muxer, published, sgReader, sgMishaps>>
          /\ \/ \E end \in {"collect", "video", "failed"} :
                  clipTask' = [clipTask EXCEPT !.pc = end, !.segments = longer] /\ Gapless(longer)
             \/ clipTask' = [clipTask EXCEPT !.pc = "failed"]
        BY <1>5 DEF Collect
    <2> HIDE DEF longer, above, g
    <2>4. CASE clipTask' = [clipTask EXCEPT !.pc = "failed"]
        <3> DEFINE c == [clipTask EXCEPT !.pc = "failed"]
        <3>1. c \in Tasks /\ c.segments = g /\ c.pc = "failed"
            BY <1>1 DEF Tasks, g
        <3>2. clipTask' = c
            BY <2>4
        <3> HIDE DEF c
        <3>3. QED
            BY <1>1, <2>3, <3>1, <3>2, CaptureKeeps
    <2>5. ASSUME NEW end \in {"collect", "video", "failed"}, Gapless(longer),
                 clipTask' = [clipTask EXCEPT !.pc = end, !.segments = longer]
          PROVE  SegmentsInv'
        <3> DEFINE c == [clipTask EXCEPT !.pc = end, !.segments = longer]
        <3>1. c \in Tasks /\ c.segments = longer /\ c.pc = end
            BY <1>1, <2>2 DEF Tasks
        <3>2. clipTask' = c
            BY <2>5
        <3> HIDE DEF c
        <3>3. longer # <<>>
            BY <1>1, <2>2, <2>3
        <3>4. QED
            BY <2>2, <2>3, <2>5, <3>1, <3>2, <3>3, CaptureKeeps
    <2>6. QED
        BY <2>3, <2>4, <2>5
<1>6. QED
    BY <1>3, <1>4, <1>5

LEMMA SegmentsStep ==
    ASSUME SegmentsInv, [SegmentsNext]_segmentVars
    PROVE  SegmentsInv'
<1>1. CASE SegmentsNext
    BY <1>1, PublishKeeps, RemuxKeeps, PollKeeps, FetchedKeeps, ReaderStep, CaptureStep
    DEF SegmentsNext
<1>2. CASE UNCHANGED segmentVars
    BY <1>2
    DEF segmentVars, SegmentsInv, SegmentsTyped, ListIsOfNow, HeldGapless, Known, NumberedInTurn
<1>3. QED
    BY <1>1, <1>2

\* A clip never jumps over published footage: what it holds has no gap in its numbers
\* (_collect), and within a life of the muxer numbers are published one by one. For any
\* length of the list, the buffer and the clip, and any number of restarts.
THEOREM NoSpliceThroughout == SegmentsSpec => []NoSplice
<1>1. SegmentsInit => SegmentsInv
    <2> SUFFICES ASSUME SegmentsInit PROVE SegmentsInv
        OBVIOUS
    <2>1. <<>> \in Seq(Entries) /\ Gapless(<<>>) /\ Gapless(<<>> \o <<>>) /\ Range(<<>>) = {}
        BY DEF Gapless, Range
    <2>2. SgMishaps + 1 \in Nat
        BY SegmentsAssumption
    <2>3. /\ sgReader \in Readers /\ sgReader.pc = "poll" /\ sgReader.buffer = <<>>
          /\ sgReader.wanted = <<>>
        BY <2>1, <2>2 DEF SegmentsInit, NoReader, Readers
    <2>4. clipTask \in Tasks /\ clipTask.pc = "none" /\ clipTask.segments = <<>>
        BY <2>1 DEF SegmentsInit, NoClip, Tasks
    <2>5. /\ muxer \in [life : Nat, next : Nat, init : {"one", "other"}, list : Seq(Entries)]
          /\ muxer.list = <<>> /\ published = 0 /\ sgMishaps = 0
        BY <2>1 DEF SegmentsInit
    <2>6. Known = {} /\ HeldGapless /\ ListIsOfNow
        BY <2>1, <2>3, <2>4, <2>5 DEF Known, HeldGapless, ListIsOfNow
    <2>7. QED
        BY <2>3, <2>4, <2>5, <2>6 DEF SegmentsInv, SegmentsTyped, NumberedInTurn
<1>2. SegmentsInv /\ [SegmentsNext]_segmentVars => SegmentsInv'
    BY SegmentsStep
<1>3. SegmentsInv => NoSplice
    <2> SUFFICES ASSUME SegmentsInv, NEW i \in 1..(Len(clipTask.segments) - 1)
                 PROVE  LET s == clipTask.segments[i]
                            t == clipTask.segments[i + 1]
                        IN  s.init = t.init /\ (s.life = t.life => t.at = s.at + 1)
        BY DEF NoSplice
    <2> DEFINE g == clipTask.segments
               s == g[i]
               t == g[i + 1]
    <2>1. g \in Seq(Entries) /\ Len(g) \in Nat /\ i \in 1..Len(g) /\ i + 1 \in 1..Len(g)
        BY DEF SegmentsInv, SegmentsTyped, Tasks
    <2>2. s \in Entries /\ t \in Entries /\ s \in Known /\ t \in Known
        BY <2>1 DEF Known, Range
    <2>3. t.seq = s.seq + 1 /\ t.init = s.init
        BY DEF SegmentsInv, HeldGapless, Gapless, Follows
    <2>4. s.life = t.life => t.at - s.at = t.seq - s.seq
        BY <2>2 DEF SegmentsInv, NumberedInTurn
    <2> HIDE DEF s, t
    <2>5. PICK a \in Nat, b \in Nat, c \in Nat, d \in Nat : a = s.at /\ b = t.at /\ c = s.seq /\ d = t.seq
        BY <2>2 DEF Entries
    <2>6. d = c + 1 /\ (s.life = t.life => b - a = d - c)
        BY <2>3, <2>4, <2>5
    <2>7. s.life = t.life => b = a + 1
        BY <2>6
    <2>8. s.init = t.init /\ (s.life = t.life => t.at = s.at + 1)
        BY <2>3, <2>5, <2>7
    <2>9. QED
        BY <2>8 DEF s, t
<1>4. QED
    BY <1>1, <1>2, <1>3, PTL DEF SegmentsSpec

================================================================================
