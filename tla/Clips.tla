--------------------------------- MODULE Clips ---------------------------------
(***************************************************************************)
(* The pictures of an event on one camera: the short video of an incident  *)
(* (app/services/incident_clips.py) or of an event (event_clips.py), and   *)
(* the photo that is still looked for (event_photos.py).                   *)
(*                                                                         *)
(* What became of both is kept in one JSON document of the event's row.    *)
(* It is written whole, by the pipeline from the copy it has had since     *)
(* enrichment, and by workers from the copy they read a moment before.     *)
(* Every clip has size 1; the clip of owner o is the one captured for o.   *)
(***************************************************************************)
EXTENDS Integers, FiniteSets

CONSTANTS
    ClEvents,
    ClNone,
    ClMaxCaptures,     \* _MAX_CAPTURES_PER_CAMERA
    ClMaxWaiters,      \* _MAX_EDGE_WAITERS
    ClEventCap,        \* event_clip_storage_limit_bytes, in clips
    ClTotalCap,        \* incident_clip_storage_limit_bytes, in clips
    ClMishaps          \* bound: restarts and failed commits

ASSUME ClipsAssumption ==
    /\ ClNone \notin ClEvents /\ IsFiniteSet(ClEvents)
    /\ {ClMaxCaptures, ClMaxWaiters, ClEventCap, ClTotalCap, ClMishaps} \subseteq Nat

VARIABLES
    doc,        \* the event's document: the photo's state, the clip's, and whose clip
    copy,       \* what the event's pipeline believes the document to be
    pipe,       \* where the event's pipeline is, and what it is about to commit
    hasPhoto,   \* EventPhoto rows
    backfill,   \* events whose photo is still looked for
    capture,    \* the capture task started for the event
    shared,     \* _shared: the event whose capture others may join
    job,        \* the worker that finishes the capture or the fetch of an event
    admission,  \* who holds the admission lock
    clipStored,     \* event_clips: the events that each stored clip serves
    kept,       \* incident_clips: the stored incident clips
    held,       \* retention_hold
    sweep,      \* the clip the sweeper is about to delete
    clMishaps

clipVars == <<doc, copy, pipe, hasPhoto, backfill, capture, shared, job, admission, clipStored,
              kept, held, sweep, clMishaps>>

NoDoc  == [photo |-> "none", clip |-> "none", of |-> ClNone]
NoPipe == [pc |-> "over", clip |-> "none", job |-> "none"]
NoJob  == [kind |-> "none", pc |-> "none", events |-> {}, clip |-> "none", read |-> {}]
Waiters == Cardinality({e \in ClEvents : job[e].kind = "edge" \/ pipe[e].job = "edge"})
Running == {e \in ClEvents : capture[e] = "running"}

\* --- the pipeline (create_and_broadcast_event) ------------------------------

\* persist_event, incident_clips.capture, enrichment and event_photos.schedule.
Detected(e, seeded, photo) ==
    /\ pipe[e].pc = "new"
    /\ doc' = [doc EXCEPT ![e] = [NoDoc EXCEPT !.photo = photo]]
    /\ copy' = [copy EXCEPT ![e] = [NoDoc EXCEPT !.photo = photo]]
    /\ hasPhoto' = IF photo = "captured" THEN hasPhoto \union {e} ELSE hasPhoto
    /\ backfill' = IF photo = "pending" THEN backfill \union {e} ELSE backfill
    /\ capture' = IF seeded /\ Cardinality(Running) < ClMaxCaptures
                  THEN [capture EXCEPT ![e] = "running"] ELSE capture
    /\ pipe' = [pipe EXCEPT ![e].pc = "route"]
    /\ UNCHANGED <<shared, job, admission, clipStored, kept, held, sweep, clMishaps>>

\* route_event and incident_clips.start: only the first event of an incident,
\* with a capture, hands it over; it then reads its document again to link it.
Routed(e, first) ==
    /\ pipe[e].pc = "route"
    /\ IF first /\ capture[e] # "none"
       THEN /\ pipe' = [pipe EXCEPT ![e] = [pc |-> "commit", clip |-> "pending", job |-> "incident"]]
            /\ copy' = [copy EXCEPT ![e] = doc[e]]
       ELSE pipe' = [pipe EXCEPT ![e].pc = "attach"] /\ UNCHANGED copy
    /\ UNCHANGED <<doc, hasPhoto, backfill, capture, shared, job, admission, clipStored, kept, held,
                   sweep, clMishaps>>

Commits(e, clip, kind) ==
    pipe' = [pipe EXCEPT ![e] = [pc |-> "commit", clip |-> clip, job |-> kind]]

\* attach: join the running capture of another event, unless it is too long ago.
Join(e) ==
    /\ pipe[e].pc = "attach" /\ shared \in Running
    /\ job' = [job EXCEPT ![shared].events = @ \union {e}]
    /\ Commits(e, "pending", "none")
    /\ UNCHANGED <<doc, copy, hasPhoto, backfill, capture, shared, admission, clipStored, kept, held,
                   sweep, clMishaps>>

\* attach: the event's own capture, which others may join from now on.
Own(e) ==
    /\ pipe[e].pc = "attach" /\ capture[e] # "none"
    /\ shared' = e
    /\ job' = [job EXCEPT ![e] = [NoJob EXCEPT !.events = {e}]]
    /\ Commits(e, "pending", "stream")
    /\ UNCHANGED <<doc, copy, hasPhoto, backfill, capture, admission, clipStored, kept, held, sweep,
                   clMishaps>>

\* attach: a recording of the camera's bridge, when it has one.
Edge(e) ==
    /\ pipe[e].pc = "attach" /\ capture[e] = "none"
    /\ \/ \E clip \in {"unsupported", "unavailable"} : Commits(e, clip, "none")
       \/ Waiters < ClMaxWaiters /\ Commits(e, "pending", "edge")
    /\ UNCHANGED <<doc, copy, hasPhoto, backfill, capture, shared, job, admission, clipStored, kept,
                   held, sweep, clMishaps>>

\* The commit writes the pipeline's copy and starts the worker; a capture that
\* nobody took is discarded.
Spawned(e) ==
    IF pipe[e].job = "none" THEN job
    ELSE [job EXCEPT ![e].kind = pipe[e].job, ![e].events = @ \union {e},
                     ![e].pc = IF pipe[e].job = "edge" THEN "fetch" ELSE "await"]

CommitPipe(e) ==
    /\ pipe[e].pc = "commit"
    /\ doc' = [doc EXCEPT ![e] = [copy[e] EXCEPT !.clip = pipe[e].clip]]
    /\ job' = Spawned(e)
    /\ capture' = [capture EXCEPT ![e] = IF pipe[e].job \in {"none", "edge"} THEN "none" ELSE @]
    /\ pipe' = [pipe EXCEPT ![e] = NoPipe]
    /\ UNCHANGED <<copy, hasPhoto, backfill, shared, admission, clipStored, kept, held, sweep, clMishaps>>

\* A commit that fails: nothing is recorded and nothing runs on for the event.
CommitFails(e) ==
    /\ pipe[e].pc = "commit" /\ pipe[e].job # "incident" /\ clMishaps < ClMishaps
    /\ clMishaps' = clMishaps + 1
    /\ shared' = IF shared = e THEN ClNone ELSE shared
    /\ job' = IF pipe[e].job = "stream" THEN [job EXCEPT ![e] = NoJob] ELSE job
    /\ capture' = [capture EXCEPT ![e] = "none"]
    /\ pipe' = [pipe EXCEPT ![e] = NoPipe]
    /\ UNCHANGED <<doc, copy, hasPhoto, backfill, admission, clipStored, kept, held, sweep>>

\* --- the photo (backfill) ---------------------------------------------------

\* Under the row's lock; the photo was found or not.
Backfill(e) ==
    /\ e \in backfill /\ backfill' = backfill \ {e}
    /\ IF e \in hasPhoto THEN UNCHANGED <<doc, hasPhoto>>
       ELSE \E found \in BOOLEAN :
              /\ hasPhoto' = IF found THEN hasPhoto \union {e} ELSE hasPhoto
              /\ doc' = [doc EXCEPT ![e].photo = IF found THEN "captured" ELSE "failed"]
    /\ UNCHANGED <<copy, pipe, capture, shared, job, admission, clipStored, kept, held, sweep, clMishaps>>

\* --- the workers (_finish_stream, _finish, _fetch_edge, store) --------------

\* _collect: a video, or a gap, a stopped stream, too many bytes.
CaptureEnds(e) ==
    /\ capture[e] = "running"
    /\ \E end \in {"video", "failed"} : capture' = [capture EXCEPT ![e] = end]
    /\ UNCHANGED <<doc, copy, pipe, hasPhoto, backfill, shared, job, admission, clipStored, kept, held,
                   sweep, clMishaps>>

\* The worker goes on with the events that have joined so far.
Collected(o) ==
    /\ job[o].pc = "await" /\ capture[o] \in {"video", "failed"}
    /\ job' = [job EXCEPT ![o].pc = IF capture[o] = "video" THEN "admit" ELSE "report",
                          ![o].clip = IF capture[o] = "video" THEN @ ELSE "unavailable"]
    /\ capture' = [capture EXCEPT ![o] = "none"]
    /\ shared' = IF shared = o THEN ClNone ELSE shared
    /\ UNCHANGED <<doc, copy, pipe, hasPhoto, backfill, admission, clipStored, kept, held, sweep, clMishaps>>

\* The bridge has the recording, or never shows it.
Fetched(o) ==
    /\ job[o].pc = "fetch"
    /\ \/ job' = [job EXCEPT ![o].pc = "admit"]
       \/ \E clip \in {"unsupported", "unavailable"} :
             job' = [job EXCEPT ![o].pc = "report", ![o].clip = clip]
    /\ UNCHANGED <<doc, copy, pipe, hasPhoto, backfill, capture, shared, admission, clipStored, kept,
                   held, sweep, clMishaps>>

\* The budget is read under the admission lock, which a refusal keeps until it
\* is reported. A clip that fits is refused too when the day's number is reached.
StoredNow == Cardinality({o \in ClEvents : clipStored[o] # {}})
KeptNow   == Cardinality(kept)
FreeToAnyone == admission \in ClEvents \union {ClNone}  \* mutant: no lock
LockIsFree == admission = ClNone
Fits(o) ==
    /\ StoredNow + KeptNow + 1 <= ClTotalCap
    /\ job[o].kind # "incident" => StoredNow + 1 <= ClEventCap
Admit(o) ==
    /\ job[o].pc = "admit" /\ LockIsFree
    /\ admission' = o
    /\ \E admitted \in BOOLEAN :
          /\ admitted => Fits(o)
          /\ job' = [job EXCEPT ![o].pc = IF admitted THEN "insert" ELSE "report",
                                ![o].clip = IF admitted THEN "ready" ELSE "skipped"]
    /\ UNCHANGED <<doc, copy, pipe, hasPhoto, backfill, capture, shared, clipStored, kept, held, sweep,
                   clMishaps>>

Insert(o) ==
    /\ job[o].pc = "insert"
    /\ admission' = IF admission = o THEN ClNone ELSE admission
    /\ clipStored' = IF job[o].kind = "incident" THEN clipStored ELSE [clipStored EXCEPT ![o] = job[o].events]
    /\ kept' = IF job[o].kind = "incident" THEN kept \union {o} ELSE kept
    /\ job' = [job EXCEPT ![o].pc = "report"]
    /\ UNCHANGED <<doc, copy, pipe, hasPhoto, backfill, capture, shared, held, sweep, clMishaps>>

\* The commit failed: the lock is free, and there is no clip to report.
InsertFails(o) ==
    /\ job[o].pc = "insert" /\ clMishaps < ClMishaps
    /\ clMishaps' = clMishaps + 1
    /\ admission' = IF admission = o THEN ClNone ELSE admission
    /\ job' = [job EXCEPT ![o].pc = "report", ![o].clip = "unavailable"]
    /\ UNCHANGED <<doc, copy, pipe, hasPhoto, backfill, capture, shared, clipStored, kept, held, sweep>>

\* update_events, event by event: the document is read, and then written unless
\* its clip has another state than pending.
ReportRead(o, e) ==
    /\ job[o].pc = "report" /\ e \in job[o].events
    /\ job' = [job EXCEPT ![o].pc = "write", ![o].read = {[event |-> e, doc |-> doc[e]]}]
    /\ UNCHANGED <<doc, copy, pipe, hasPhoto, backfill, capture, shared, admission, clipStored, kept,
                   held, sweep, clMishaps>>

Told(d, o) == [d EXCEPT !.clip = job[o].clip, !.of = IF job[o].clip = "ready" THEN o ELSE @]
ReportWrite(o) ==
    /\ job[o].pc = "write"
    /\ \E r \in job[o].read :
          /\ doc' = [doc EXCEPT ![r.event] = IF r.doc.clip \in {"none", "pending"} THEN Told(r.doc, o) ELSE @]
          /\ job' = [job EXCEPT ![o].pc = "report", ![o].read = {}, ![o].events = @ \ {r.event}]
    /\ UNCHANGED <<copy, pipe, hasPhoto, backfill, capture, shared, admission, clipStored, kept, held,
                   sweep, clMishaps>>

JobEnds(o) ==
    /\ job[o].pc = "report" /\ job[o].events = {}
    /\ job' = [job EXCEPT ![o] = NoJob]
    /\ admission' = IF admission = o THEN ClNone ELSE admission
    /\ UNCHANGED <<doc, copy, pipe, hasPhoto, backfill, capture, shared, clipStored, kept, held, sweep,
                   clMishaps>>

\* --- days later -------------------------------------------------------------

AtRest == /\ backfill = {} /\ admission = ClNone
          /\ \A e \in ClEvents : job[e] = NoJob /\ pipe[e] = NoPipe /\ capture[e] = "none"

\* set_event_retention_hold
Hold(e) ==
    /\ AtRest /\ e \notin held
    /\ held' = held \union {e}
    /\ UNCHANGED <<doc, copy, pipe, hasPhoto, backfill, capture, shared, job, admission, clipStored,
                   kept, sweep, clMishaps>>

\* expire: the holds of the clip's events are read, and later the clip goes.
SweepPicks(o) ==
    /\ AtRest /\ sweep = ClNone /\ clipStored[o] # {} /\ clipStored[o] \intersect held = {}
    /\ sweep' = o
    /\ UNCHANGED <<doc, copy, pipe, hasPhoto, backfill, capture, shared, job, admission, clipStored,
                   kept, held, clMishaps>>

DocsExpired == [e \in ClEvents |-> IF e \in clipStored[sweep] /\ doc[e].of = sweep
                                   THEN [doc[e] EXCEPT !.clip = "expired"] ELSE doc[e]]
SweepDeletes ==
    /\ sweep # ClNone /\ sweep' = ClNone
    /\ clipStored' = [clipStored EXCEPT ![sweep] = {}]
    /\ doc' = DocsExpired
    /\ UNCHANGED <<copy, pipe, hasPhoto, backfill, capture, shared, job, admission, kept, held, clMishaps>>

\* A restart: what is in memory is gone, and recover_pending looks again for the
\* photos that are pending.
ClRestart ==
    /\ clMishaps < ClMishaps /\ clMishaps' = clMishaps + 1
    /\ pipe' = [e \in ClEvents |-> IF pipe[e].pc = "new" THEN pipe[e] ELSE NoPipe]
    /\ capture' = [e \in ClEvents |-> "none"] /\ job' = [e \in ClEvents |-> NoJob]
    /\ shared' = ClNone /\ admission' = ClNone /\ sweep' = ClNone
    /\ backfill' = {e \in ClEvents : doc[e].photo = "pending"}
    /\ UNCHANGED <<doc, copy, hasPhoto, clipStored, kept, held>>

ClipsInit ==
    /\ doc = [e \in ClEvents |-> NoDoc] /\ copy = doc
    /\ pipe = [e \in ClEvents |-> [NoPipe EXCEPT !.pc = "new"]]
    /\ hasPhoto = {} /\ backfill = {} /\ capture = [e \in ClEvents |-> "none"]
    /\ shared = ClNone /\ job = [e \in ClEvents |-> NoJob] /\ admission = ClNone
    /\ clipStored = [e \in ClEvents |-> {}] /\ kept = {} /\ held = {} /\ sweep = ClNone
    /\ clMishaps = 0

ClipsNext ==
    \/ \E e \in ClEvents :
          \/ \E seeded \in BOOLEAN, photo \in {"pending", "captured"} : Detected(e, seeded, photo)
          \/ \E first \in BOOLEAN : Routed(e, first)
          \/ Join(e) \/ Own(e) \/ Edge(e) \/ CommitPipe(e) \/ CommitFails(e)
          \/ Backfill(e) \/ CaptureEnds(e) \/ Collected(e) \/ Fetched(e) \/ Admit(e) \/ Insert(e)
          \/ InsertFails(e)
          \/ ReportWrite(e) \/ JobEnds(e) \/ Hold(e) \/ SweepPicks(e)
          \/ \E o \in ClEvents : ReportRead(o, e)
    \/ SweepDeletes \/ ClRestart

ClipsSpec == ClipsInit /\ [][ClipsNext]_clipVars

\* --- properties -------------------------------------------------------------

\* Every variable has its type.
ClipsTypeOK ==
    /\ doc \in [ClEvents -> [photo : {"none", "pending", "captured", "failed"},
                             clip : {"none", "pending", "ready", "skipped", "unavailable",
                                     "unsupported", "expired"},
                             of : ClEvents \union {ClNone}]]
    /\ hasPhoto \subseteq ClEvents /\ backfill \subseteq ClEvents
    /\ capture \in [ClEvents -> {"none", "running", "video", "failed"}]
    /\ shared \in ClEvents \union {ClNone} /\ sweep \in ClEvents \union {ClNone}
    /\ Cardinality(Running) <= ClMaxCaptures /\ Waiters <= ClMaxWaiters
    /\ clipStored \in [ClEvents -> SUBSET ClEvents]

\* The clips of events never take more than their share, nor all clips together
\* more than the whole, with several workers admitting at once (_BUDGET_LOCK_KEY).
ClipBudget == StoredNow <= ClEventCap /\ StoredNow + KeptNow <= ClTotalCap

\* An event that says its clip is ready has one, and the clip knows the event,
\* so its hold is looked at before the clip expires.
ReadyHasClip ==
    \A e \in ClEvents : doc[e].clip = "ready" =>
        doc[e].of \in kept \/ (doc[e].of # ClNone /\ e \in clipStored[doc[e].of])

\* The clips fit, and the events know which they have.
ClipsAddUp == ClipBudget /\ ReadyHasClip
================================================================================
