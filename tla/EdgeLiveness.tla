------------------------------ MODULE EdgeLiveness ------------------------------
(***************************************************************************)
(* Which channels of the recorder count as online.  The edge connector     *)
(* (apps/edge/app.py) asks the recorder for pictures, caches what it       *)
(* learns and needs several failures to call a channel offline; the API    *)
(* (providers/dahua/edge_provider.py) keeps a channel online for a grace   *)
(* period after any sign of life and asks one hidden channel per refresh   *)
(* for media.  The recorder is external: it refuses a session whenever it  *)
(* is busy, so a refusal says little about the camera.                     *)
(*                                                                         *)
(* Each request to the API builds a provider of its own: what it learns is *)
(* in its own listing, and only the evidence is shared.  It awaits the     *)
(* connector's report, then the picture that verifies a channel; other     *)
(* requests run meanwhile.  Then it either hands out the listing, which is *)
(* cached and later written to the rows the dashboard reads, or asks for   *)
(* media (get_health does neither).                                        *)
(*                                                                         *)
(* Time is in ticks; an age stops counting where it stops mattering.  The  *)
(* connector answers a request in one step (its locks take the probes one  *)
(* at a time).  From which of its two streams a picture is taken, and that *)
(* the rows of a channel may be of another provider, are left out.         *)
(***************************************************************************)
EXTENDS Integers, FiniteSets

CONSTANTS
    Channels,       \* configured channels
    Attached,       \* those with a working camera
    ProbeTtl, ProbeFailureTtl,     \* how long the reachability probe is cached
    LivenessTtl, FailureRetry,     \* how long a channel's result is
    FailureThreshold,              \* failures before an online channel goes offline
    OfflineGrace,                  \* EDGE_OFFLINE_GRACE_SECONDS
    VerifyInterval,                \* VERIFY_INTERVAL_SECONDS
    CameraCache,                   \* camera_discovery_cache_seconds
    EdTasks, EdNobody              \* requests to the API; no channel

ASSUME EdgeAssumption ==
    /\ IsFiniteSet(Channels) /\ Attached \subseteq Channels
    /\ {ProbeTtl, ProbeFailureTtl, LivenessTtl, FailureRetry, FailureThreshold,
        OfflineGrace, VerifyInterval, CameraCache} \subseteq Nat \ {0}
    /\ EdNobody \notin Channels

VARIABLES
    probe,      \* _probe_cache: the answer and its age
    liveness,   \* ChannelLivenessTracker._cache: online, ticks left, failures in a row
    evidence,   \* _ONLINE_EVIDENCE: age of the last sign of life
    attempts,   \* _VERIFY_ATTEMPTS: age of the last verification
    askedSince, \* the order of those attempts: who was verified after each channel was
    fetch,      \* what each request to the API is at, and its own listing
    discovered, \* _discovery_cache: the last listing handed out, and its age
    shown,      \* the rows of the cameras: the listing last written to them
    answered,   \* history: age of the last answer of a camera that reached the API
    passed      \* history: refreshes in a row that asked another channel first

edgeVars == <<probe, liveness, evidence, attempts, askedSince, fetch, discovered, shown,
              answered, passed>>

EdOlder(age, cap) == IF age < cap THEN age + 1 ELSE age
\* Sets of working cameras the recorder may have a session to spare for.
Outcomes == SUBSET Attached

\* A listing: the channels said to be online and, a history, the others that answered
\* the API after it was drawn up.
NoneListed == [online |-> {}, since |-> {}]
NoRequest   == [pc |-> "idle", about |-> {}, verifies |-> EdNobody, listing |-> NoneListed]

EdgeInit ==
    /\ probe = [ok |-> FALSE, age |-> ProbeTtl]
    /\ liveness = [c \in Channels |-> [online |-> FALSE, left |-> 0, failures |-> 0]]
    /\ evidence = [c \in Channels |-> OfflineGrace] /\ answered = evidence
    /\ attempts = [c \in Channels |-> VerifyInterval]
    /\ askedSince = [c \in Channels |-> {}] /\ passed = [c \in Channels |-> 0]
    /\ fetch = [t \in EdTasks |-> NoRequest]
    /\ discovered = [listing |-> NoneListed, age |-> CameraCache] /\ shown = NoneListed

EdgeTick ==
    /\ probe' = [probe EXCEPT !.age = EdOlder(@, ProbeTtl)]
    /\ liveness' = [c \in Channels |-> [liveness[c] EXCEPT !.left = IF @ > 0 THEN @ - 1 ELSE 0]]
    /\ evidence' = [c \in Channels |-> EdOlder(evidence[c], OfflineGrace)]
    /\ answered' = [c \in Channels |-> EdOlder(answered[c], OfflineGrace)]
    /\ attempts' = [c \in Channels |-> EdOlder(attempts[c], VerifyInterval)]
    /\ discovered' = [discovered EXCEPT !.age = EdOlder(@, CameraCache)]
    /\ UNCHANGED <<askedSince, fetch, shown, passed>>

\* --- the edge connector -----------------------------------------------------------------

\* probe: a failure is trusted for less time than a success.
TtlFor(reachable) == IF reachable THEN ProbeTtl ELSE ProbeFailureTtl
Probed(spare) == IF probe.age < TtlFor(probe.ok) THEN probe ELSE [ok |-> spare, age |-> 0]

\* ChannelLivenessTracker.is_online: one channel, asked when its result expired.
Tolerates(was, failures) == was.online /\ failures < FailureThreshold
IsOnline(c, was, spared) ==
    IF was.left > 0 THEN was
    ELSE IF c \in spared THEN [online |-> TRUE, left |-> LivenessTtl, failures |-> 0]
    ELSE LET failures == IF was.failures < FailureThreshold THEN was.failures + 1 ELSE was.failures
             tolerating == Tolerates(was, failures)
         IN  [online |-> tolerating, failures |-> failures,
              left |-> IF tolerating THEN FailureRetry ELSE LivenessTtl]
CachedOnline(was) == was.left > 0 /\ was.online

\* GET /channels: the channels are probed one after another, each with a fate of
\* its own, unless the recorder as a whole looks out of reach.
Listed(reachable, spared) ==
    [c \in Channels |-> IF reachable THEN IsOnline(c, liveness[c], spared) ELSE liveness[c]]
Reported(reachable, list) ==
    {c \in Channels : IF reachable THEN list[c].online ELSE CachedOnline(list[c])}

\* GET /channels, asked by task t: its report is on its way, or comes too late.
AskConnector(t, spare, spared) ==
    /\ fetch[t].pc = "idle"
    /\ probe' = Probed(spare) /\ liveness' = Listed(probe'.ok, spared)
    /\ \/ fetch' = [fetch EXCEPT ![t] =
              [NoRequest EXCEPT !.pc = "report", !.about = Reported(probe'.ok, liveness')]]
       \/ UNCHANGED fetch
    /\ UNCHANGED <<evidence, attempts, askedSince, discovered, shown, answered, passed>>

\* --- the API ------------------------------------------------------------------------------

InGrace(age) == age < OfflineGrace

\* The candidates to verify: hidden channels, each at most once per interval; the one
\* that was asked longest ago is next.
Candidates(online) == {c \in Channels \ online : attempts[c] >= VerifyInterval}
NextToVerify(candidates) == {c \in candidates : \A d \in candidates : c \notin askedSince[d]}

Renewed(ages, confirmed) == [c \in Channels |-> IF c \in confirmed THEN 0 ELSE ages[c]]

\* _mark_online: media arrived, which counts as a confirmation.
OwnListing(ages, c) == ages  \* mutant: only the listing of the request learns of it
MarkOnline(ages, c) == [ages EXCEPT ![c] = 0]

\* History: these channels answered, which is news to all listings drawn up before.
Stale(listing, channels) == [listing EXCEPT !.since = @ \union (channels \ listing.online)]
HasListing(request) == request.pc \in {"verify", "listed", "sync"}
Heard(channels) ==
    /\ answered' = Renewed(answered, channels)
    /\ discovered' = [discovered EXCEPT !.listing = Stale(@, channels)]
    /\ shown' = Stale(shown, channels)
HeardBy(t, channels, mine) ==
    /\ Heard(channels)
    /\ fetch' = [u \in EdTasks |->
          IF u = t THEN mine
          ELSE IF HasListing(fetch[u]) THEN [fetch[u] EXCEPT !.listing = Stale(@, channels)]
          ELSE fetch[u]]

EdAsked(c) ==
    /\ attempts' = [attempts EXCEPT ![c] = 0]
    /\ askedSince' = [d \in Channels |-> IF d = c THEN {} ELSE askedSince[d] \union {c}]

\* _refresh_channels: the report arrived, which may be late.  The listing is drawn up
\* and one hidden channel is chosen to be verified, without an await.
Refresh(t) ==
    LET confirmed == fetch[t].about
        online    == {c \in Channels : InGrace(Renewed(evidence, confirmed)[c])}
        due       == Candidates(online)
        Drawn(pc, c) == [pc |-> pc, about |-> {}, verifies |-> c,
                         listing |-> [online |-> online, since |-> {}]]
    IN
    /\ fetch[t].pc = "report"
    /\ evidence' = Renewed(evidence, confirmed)
    /\ \/ /\ due = {} /\ HeardBy(t, confirmed, Drawn("listed", EdNobody))
          /\ passed' = [c \in Channels |-> 0]
          /\ UNCHANGED <<attempts, askedSince>>
       \/ \E c \in NextToVerify(due) :
          /\ EdAsked(c) /\ HeardBy(t, confirmed, Drawn("verify", c))
          /\ passed' = [d \in Channels |->
                IF d \notin due \/ d = c THEN 0 ELSE EdOlder(passed[d], Cardinality(Channels))]
    /\ UNCHANGED <<probe, liveness>>

\* _verify_one_offline_channel: a picture of it came, or none did, which is ignored.
Verify(t) ==
    LET c == fetch[t].verifies
        verified == [fetch[t] EXCEPT !.pc = "listed", !.verifies = EdNobody]
    IN
    /\ fetch[t].pc = "verify"
    /\ \/ /\ c \in Attached /\ evidence' = MarkOnline(evidence, c)
          /\ HeardBy(t, {c}, [verified EXCEPT !.listing.online = @ \union {c}])
       \/ /\ fetch' = [fetch EXCEPT ![t] = verified]
          /\ UNCHANGED <<evidence, answered, discovered, shown>>
    /\ UNCHANGED <<probe, liveness, attempts, askedSince, passed>>

\* discover_all_cameras: the listing is handed out and cached; or the cached one is.
Discover(t) ==
    /\ \/ /\ fetch[t].pc = "listed"
          /\ fetch' = [fetch EXCEPT ![t].pc = "sync"]
          /\ discovered' = [listing |-> fetch[t].listing, age |-> 0]
       \/ /\ fetch[t].pc = "idle" /\ discovered.age < CameraCache
          /\ fetch' = [fetch EXCEPT ![t].pc = "sync", ![t].listing = discovered.listing]
          /\ UNCHANGED discovered
    /\ UNCHANGED <<probe, liveness, evidence, attempts, askedSince, shown, answered, passed>>

\* sync_cameras: the listing is written to the rows, even over a later one.
SyncCameras(t) ==
    /\ fetch[t].pc = "sync"
    /\ shown' = fetch[t].listing /\ fetch' = [fetch EXCEPT ![t] = NoRequest]
    /\ UNCHANGED <<probe, liveness, evidence, attempts, askedSince, discovered, answered, passed>>

\* get_snapshot, get_live_stream: a channel is asked whatever the listing says.  When
\* no media come, and in get_health, the listing is dropped and that is all.
GetMedia(t) ==
    /\ fetch[t].pc = "listed"
    /\ \/ \E c \in Attached : evidence' = MarkOnline(evidence, c) /\ HeardBy(t, {c}, NoRequest)
       \/ /\ fetch' = [fetch EXCEPT ![t] = NoRequest]
          /\ UNCHANGED <<evidence, answered, discovered, shown>>
    /\ UNCHANGED <<probe, liveness, attempts, askedSince, passed>>

EdgeNext ==
    \/ EdgeTick
    \/ \E t \in EdTasks :
          \/ \E spare \in BOOLEAN, spared \in Outcomes : AskConnector(t, spare, spared)
          \/ Refresh(t) \/ Verify(t) \/ Discover(t) \/ SyncCameras(t) \/ GetMedia(t)

EdgeSpec == EdgeInit /\ [][EdgeNext]_edgeVars

\* --- properties -----------------------------------------------------------------------------

Listings == {shown, discovered.listing}
            \union {fetch[t].listing : t \in {u \in EdTasks : HasListing(fetch[u])}}

\* Every variable has its type, and only a camera that exists is believed to.
EdgeTypeOK ==
    /\ probe.ok \in BOOLEAN /\ probe.age \in 0..ProbeTtl
    /\ \A c \in Channels :
          /\ liveness[c].failures \in 0..FailureThreshold
          /\ liveness[c].online => c \in Attached /\ liveness[c].failures < FailureThreshold
          /\ evidence[c] \in 0..OfflineGrace /\ attempts[c] \in 0..VerifyInterval
    /\ \A listing \in Listings : listing.online \subseteq Attached
    /\ \A c \in Channels : askedSince[c] \subseteq Channels \ {c}
    /\ \A t \in EdTasks : fetch[t].pc = "verify" <=> fetch[t].verifies \in Channels

\* A channel that gave a picture, a stream or a good report to any request within the
\* grace period is hidden by a listing, be it shown, cached or still in the hands of a
\* request, only if that was drawn up before: late reports, and refreshes and media of
\* other requests in between, make no listing forget it.
ShownWhileProven ==
    \A listing \in Listings : \A c \in Channels :
        InGrace(answered[c]) => c \in listing.online \union listing.since

\* Round and round: no hidden channel whose turn it is waits while another is asked
\* twice (_verify_one_offline_channel: "a working camera would stay hidden forever").
EveryoneIsAsked == \A c \in Channels : passed[c] < Cardinality(Channels)

\* A working camera is neither hidden too early nor for good.
WorkingCamerasShow == ShownWhileProven /\ EveryoneIsAsked
================================================================================
