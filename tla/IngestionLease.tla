---------------------------- MODULE IngestionLease -----------------------------
(***************************************************************************)
(* One camera's ingestion lease and the fenced scene writes made under it: *)
(* app/services/ingestion_lease.py, poll_once, _lead, _emit_subject_events *)
(* and _emit_scene_transitions of app/services/ingestion.py, and the load, *)
(* save, reset and note_event of app/services/scene_state.py.              *)
(*                                                                         *)
(* Cameras have a lease row each and share nothing here but the time one   *)
(* pass of the loop takes, which Tick leaves open, so one camera is enough.*)
(* Time is counted in ticks of the database clock; a replica's monotonic   *)
(* clock runs at the same rate (the code compares neither with the other). *)
(* The stored scene is abstracted to its version, a replica's cached scene *)
(* to the version it was read from or last saved as.                       *)
(***************************************************************************)
EXTENDS Naturals

CONSTANTS
    Replicas,    \* API replicas: each a process with one ingestion loop
    NoReplica,   \* "no lease row", "row not locked"
    TTL,         \* ingestion_lease_ttl_seconds, in ticks
    MaxEpoch,    \* bound: takeovers stop at this epoch
    MaxVersion,  \* bound: frames are only detected while version < MaxVersion
    Faults       \* what the environment does: a subset of FaultKinds

FaultKinds == {"crash",   \* a replica dies and comes back under the same name
               "stop",    \* a replica shuts down cleanly and comes back
               "db",      \* a database call raises
               "scene"}   \* the scene step raises anything but LeaseLost

ASSUME LeaseAssumption ==
    /\ NoReplica \notin Replicas
    /\ TTL \in Nat \ {0}
    /\ MaxEpoch \in Nat \ {0}
    /\ MaxVersion \in Nat
    /\ Faults \subseteq FaultKinds

VARIABLES
    holder, epoch, left,  \* lease row: its holder (NoReplica: no row), epoch,
                          \* and expires_at - db_now, 0 once expired
    lock,                 \* replica whose open transaction locks the row
    version,              \* version of the stored scene state
    events,               \* events committed for this camera
    pc,                   \* where each replica's loop is
    heldEpoch, heldAge,   \* keeper._held[camera]: epoch (0: no entry) and
                          \* monotonic age of renewed_at, up to TTL
    claimAge,             \* monotonic time since the running claim started
    token,                \* epoch of the token the current frame runs under,
                          \* or that the claim being answered has won
    copy,                 \* version the cached scene reflects, 0: not cached
    base                  \* version from which the last transition was made

row     == <<holder, epoch, left>>
keeper  == <<heldEpoch, heldAge, claimAge>>
vars    == <<row, lock, version, events, pc, keeper, token, copy, base>>

PCs == {"down", "idle", "claim", "insert", "reply", "frame", "subjects",
        "subjectTx", "scene", "save", "saveTx", "reset", "emit", "eventTx", "note",
        "noteTx", "stopping"}

\* Inside a transaction that passed the fence and has not committed.
TxPCs == {"subjectTx", "saveTx", "eventTx", "noteTx"}

Init ==
    /\ holder = NoReplica /\ epoch = 0 /\ left = 0
    /\ lock = NoReplica
    /\ version = 1
    /\ events = {}
    /\ pc = [r \in Replicas |-> "idle"]
    /\ heldEpoch = [r \in Replicas |-> 0]
    /\ heldAge = [r \in Replicas |-> 0]
    /\ claimAge = [r \in Replicas |-> 0]
    /\ token = [r \in Replicas |-> 0]
    /\ copy = [r \in Replicas |-> 0]
    /\ base = [r \in Replicas |-> 0]

Goto(r, l)   == pc' = [pc EXCEPT ![r] = l]
EndFrame(r, l) ==  \* the frame's locals go out of scope
    /\ Goto(r, l)
    /\ token' = [token EXCEPT ![r] = 0]
    /\ base' = [base EXCEPT ![r] = 0]
Unlock(r)    == lock' = IF lock = r THEN NoReplica ELSE lock
Forget(r)    == copy' = [copy EXCEPT ![r] = 0]
Later(age)   == IF age < TTL THEN age + 1 ELSE TTL

\* LeaseKeeper.held: the replica believes it holds the camera.
Held(r) == heldEpoch[r] # 0 /\ heldAge[r] < TTL

\* Mutant: the fence never refuses.
FenceOpen(r) == token[r] > 0

\* fence(): the conditional UPDATE matches r's token.
FenceOK(r) == holder = r /\ epoch = token[r] /\ left > 0

\* --- LeaseKeeper.ensure, called by _lead ---------------------------------

\* Renewed less than TTL/2 ago: no database call.
EnsureCached(r) ==
    /\ pc[r] = "idle"
    /\ heldEpoch[r] # 0 /\ 2 * heldAge[r] < TTL
    /\ token' = [token EXCEPT ![r] = heldEpoch[r]]
    /\ Goto(r, "frame")
    /\ UNCHANGED <<row, lock, version, events, keeper, copy, base>>

BeginClaim(r) ==
    /\ pc[r] = "idle"
    /\ heldEpoch[r] = 0 \/ 2 * heldAge[r] >= TTL
    /\ Goto(r, "claim")
    /\ UNCHANGED <<row, lock, version, events, keeper, token, copy, base>>

ClaimOver(r) == claimAge' = [claimAge EXCEPT ![r] = 0]

\* The claim committed epoch e; the reply is still on its way.
Won(r, e) ==
    /\ token' = [token EXCEPT ![r] = e]
    /\ Goto(r, "reply")
    /\ UNCHANGED <<keeper, copy>>

\* Mutant: the lease is dated from the reply, not from the claim.
DatedFromReply(r) ==
    /\ pc[r] = "reply"
    /\ heldEpoch' = [heldEpoch EXCEPT ![r] = token[r]]
    /\ heldAge' = [heldAge EXCEPT ![r] = 0]
    /\ copy' = IF heldEpoch[r] = token[r] THEN copy ELSE [copy EXCEPT ![r] = 0]
    /\ Goto(r, "frame")
    /\ ClaimOver(r)
    /\ UNCHANGED <<row, lock, version, events, token, base>>

\* Mutant: the cached scene survives a change of epoch.
CacheKept(r) ==
    /\ pc[r] = "reply"
    /\ heldEpoch' = [heldEpoch EXCEPT ![r] = token[r]]
    /\ heldAge' = [heldAge EXCEPT ![r] = claimAge[r]]
    /\ Goto(r, "frame")
    /\ ClaimOver(r)
    /\ UNCHANGED <<row, lock, version, events, token, copy, base>>

\* Remember the epoch won, as old as the claim, and forget the cached scene
\* if it was cached under no epoch or another one.
Led(r) ==
    /\ pc[r] = "reply"
    /\ heldEpoch' = [heldEpoch EXCEPT ![r] = token[r]]
    /\ heldAge' = [heldAge EXCEPT ![r] = claimAge[r]]
    /\ copy' = IF heldEpoch[r] = token[r] THEN copy ELSE [copy EXCEPT ![r] = 0]
    /\ Goto(r, "frame")
    /\ ClaimOver(r)
    /\ UNCHANGED <<row, lock, version, events, token, base>>

\* The claim raised: carry on under a lease that is still held, else skip.
NotTold(r) ==
    /\ "db" \in Faults
    /\ Goto(r, IF Held(r) THEN "frame" ELSE "idle")
    /\ token' = [token EXCEPT ![r] = IF Held(r) THEN heldEpoch[r] ELSE 0]
    /\ ClaimOver(r)
    /\ UNCHANGED <<heldEpoch, heldAge, copy>>

\* Another replica holds the lease: drop the belief and what was cached.
StandBy(r) ==
    /\ heldEpoch' = [heldEpoch EXCEPT ![r] = 0]
    /\ heldAge' = [heldAge EXCEPT ![r] = 0]
    /\ copy' = IF heldEpoch[r] # 0 THEN [copy EXCEPT ![r] = 0] ELSE copy
    /\ Goto(r, "idle")
    /\ ClaimOver(r)
    /\ UNCHANGED token

\* The claim's UPDATE waits for the row lock of a fenced transaction.
Renew(r) ==
    /\ pc[r] = "claim" /\ lock = NoReplica
    /\ holder = r /\ left > 0
    /\ left' = TTL
    /\ Won(r, epoch)
    /\ UNCHANGED <<holder, epoch, lock, version, events, base>>

\* Mutant: an expired lease is renewed by its holder but taken by nobody else.
OnlyOwnExpired(r) ==
    /\ pc[r] = "claim" /\ lock = NoReplica
    /\ holder = r /\ left = 0
    /\ epoch < MaxEpoch
    /\ epoch' = epoch + 1 /\ left' = TTL
    /\ Won(r, epoch + 1)
    /\ UNCHANGED <<holder, lock, version, events, base>>

TakeOver(r) ==
    /\ pc[r] = "claim" /\ lock = NoReplica
    /\ holder # NoReplica /\ left = 0
    /\ epoch < MaxEpoch
    /\ holder' = r /\ epoch' = epoch + 1 /\ left' = TTL
    /\ Won(r, epoch + 1)
    /\ UNCHANGED <<lock, version, events, base>>

FindNoRow(r) ==
    /\ pc[r] = "claim" /\ holder = NoReplica
    /\ Goto(r, "insert")
    /\ UNCHANGED <<row, lock, version, events, keeper, token, copy, base>>

Insert(r) ==
    /\ pc[r] = "insert" /\ holder = NoReplica
    /\ holder' = r /\ epoch' = 1 /\ left' = TTL
    /\ Won(r, 1)
    /\ UNCHANGED <<lock, version, events, base>>

Refused(r) ==
    /\ \/ pc[r] = "claim" /\ holder \notin {r, NoReplica} /\ left > 0
       \/ pc[r] = "insert" /\ holder # NoReplica
    /\ StandBy(r)
    /\ UNCHANGED <<row, lock, version, events, base>>

\* Raised before the claim committed, or after it: only the reply was lost.
ClaimError(r) ==
    /\ pc[r] \in {"claim", "insert", "reply"}
    /\ NotTold(r)
    /\ UNCHANGED <<row, lock, version, events, base>>

\* --- poll_once: the frame ------------------------------------------------

\* Camera offline, no provider, no new frame, or the detector failed.
SkipFrame(r) ==
    /\ pc[r] = "frame"
    /\ EndFrame(r, "idle")
    /\ UNCHANGED <<row, lock, version, events, keeper, copy>>

DetectFrame(r) ==
    /\ pc[r] = "frame" /\ version < MaxVersion
    /\ Goto(r, IF Held(r) THEN "subjects" ELSE "scene")
    /\ UNCHANGED <<row, lock, version, events, keeper, token, copy, base>>

\* Mutant: the fence reads the lease row without locking it.
FenceNoLock(r, from, l) ==
    /\ pc[r] = from /\ lock = NoReplica
    /\ FenceOK(r)
    /\ Goto(r, l)
    /\ UNCHANGED <<row, lock, version, events, keeper, token, copy, base>>

\* The fence opening a write: on a match the lease row stays locked and the
\* transaction goes on at l; otherwise the write is rolled back.
Fence(r, from, l) ==
    /\ pc[r] = from /\ lock = NoReplica
    /\ FenceOK(r)
    /\ lock' = r
    /\ Goto(r, l)
    /\ UNCHANGED <<row, version, events, keeper, token, copy, base>>

FenceLost(r, from) ==
    /\ pc[r] = from /\ lock = NoReplica
    /\ ~FenceOK(r)
    /\ UNCHANGED <<row, lock, version, events, keeper>>

\* _emit_subject_events: one fenced event per due subject.
SubjectFence(r) == Fence(r, "subjects", "subjectTx")

SubjectLost(r) ==
    /\ FenceLost(r, "subjects")
    /\ Goto(r, "scene")
    /\ UNCHANGED <<token, copy, base>>

SubjectsDone(r) ==
    /\ pc[r] = "subjects"
    /\ Goto(r, "scene")
    /\ UNCHANGED <<row, lock, version, events, keeper, token, copy, base>>

SubjectCommit(r) ==
    /\ pc[r] = "subjectTx"
    /\ events' = events \union {[under |-> token[r], from |-> 0]}
    /\ Unlock(r)
    /\ Goto(r, "subjects")
    /\ UNCHANGED <<row, version, keeper, token, copy, base>>

\* --- process_frame -------------------------------------------------------

LoadScene(r) ==
    /\ pc[r] = "scene"
    /\ copy' = IF copy[r] = 0 THEN [copy EXCEPT ![r] = version] ELSE copy
    /\ Goto(r, "save")
    /\ UNCHANGED <<row, lock, version, events, keeper, token, base>>

SaveFence(r) == Fence(r, "save", "saveTx")

SaveLost(r) == FenceLost(r, "save") /\ Forget(r) /\ EndFrame(r, "idle")

\* Replaces the stored scene by r's copy, advanced by this frame.
Store(r) ==
    /\ version' = version + 1
    /\ copy' = [copy EXCEPT ![r] = version + 1]
    /\ Unlock(r)

\* The frame may have produced a transition, to be reported after the save.
SaveCommit(r) ==
    /\ pc[r] = "saveTx"
    /\ Store(r)
    /\ \/ EndFrame(r, "idle")
       \/ /\ Goto(r, "emit")
          /\ base' = [base EXCEPT ![r] = copy[r]]
          /\ UNCHANGED token
    /\ UNCHANGED <<row, events, keeper>>

\* An exception anywhere in the step: roll back, then wipe the camera's state
\* from memory and, in a transaction that is not fenced, from the database.
SceneFault(r) ==
    /\ "scene" \in Faults
    /\ pc[r] \in {"scene", "save", "saveTx"}
    /\ Unlock(r)
    /\ Forget(r)
    /\ EndFrame(r, "reset")
    /\ UNCHANGED <<row, version, events, keeper>>

ResetCamera(r) ==
    /\ pc[r] = "reset"
    /\ version' = version + 1
    /\ Goto(r, "idle")
    /\ UNCHANGED <<row, lock, events, keeper, token, copy, base>>

\* --- _emit_scene_transitions ---------------------------------------------

EmitFence(r) == Fence(r, "emit", "eventTx")

EmitLost(r) == FenceLost(r, "emit") /\ EndFrame(r, "idle") /\ UNCHANGED copy

EventCommit(r) ==
    /\ pc[r] = "eventTx"
    /\ events' = events \union {[under |-> token[r], from |-> base[r]]}
    /\ Unlock(r)
    /\ Goto(r, "note")
    /\ UNCHANGED <<row, version, keeper, token, copy, base>>

\* note_event: no track, or no longer cached, and there is nothing to save.
NoteNothing(r) ==
    /\ pc[r] = "note"
    /\ EndFrame(r, "idle")
    /\ UNCHANGED <<row, lock, version, events, keeper, copy>>

NoteFence(r) == copy[r] # 0 /\ Fence(r, "note", "noteTx")

NoteLost(r) ==
    copy[r] # 0 /\ FenceLost(r, "note") /\ Forget(r) /\ EndFrame(r, "idle")

NoteCommit(r) ==
    /\ pc[r] = "noteTx"
    /\ Store(r)
    /\ EndFrame(r, "idle")
    /\ UNCHANGED <<row, events, keeper>>

\* Mutant: nothing rolls the failed transaction back.
TxLeftOpen(r) ==
    /\ \/ pc[r] = "eventTx"
       \/ "db" \in Faults
          /\ pc[r] \in {"subjects", "subjectTx", "reset", "emit", "note", "noteTx"}
    /\ EndFrame(r, "idle")
    /\ UNCHANGED <<row, lock, version, events, keeper, copy>>

\* The transition was already claimed (scene_dedup), or the database failed in
\* a fence, an event, a reset or a track's link: rolled back, the frame ends.
TxAbort(r) ==
    /\ \/ pc[r] = "eventTx"
       \/ "db" \in Faults
          /\ pc[r] \in {"subjects", "subjectTx", "reset", "emit", "note", "noteTx"}
    /\ Unlock(r)
    /\ EndFrame(r, "idle")
    /\ UNCHANGED <<row, version, events, keeper, copy>>

\* --- IngestionService.stop, crashes and time -----------------------------

\* The ingestion task is cancelled wherever it is; what is open rolls back.
CancelTask(r) ==
    /\ "stop" \in Faults
    /\ pc[r] \notin {"down", "stopping"}
    /\ Unlock(r)
    /\ EndFrame(r, "stopping")
    /\ ClaimOver(r)
    /\ UNCHANGED <<row, version, events, heldEpoch, heldAge, copy>>

GoDown(r) ==
    /\ heldEpoch' = [heldEpoch EXCEPT ![r] = 0]
    /\ heldAge' = [heldAge EXCEPT ![r] = 0]
    /\ ClaimOver(r)
    /\ Forget(r)
    /\ EndFrame(r, "down")
    /\ UNCHANGED <<version, events>>

\* release_all deletes the rows this replica holds.
ReleaseAll(r) ==
    /\ pc[r] = "stopping" /\ lock = NoReplica
    /\ IF holder = r
       THEN holder' = NoReplica /\ epoch' = 0 /\ left' = 0
       ELSE UNCHANGED row
    /\ GoDown(r)
    /\ UNCHANGED lock

Crash(r) ==
    /\ "crash" \in Faults
    /\ pc[r] # "down"
    /\ Unlock(r)
    /\ GoDown(r)
    /\ UNCHANGED row

Restart(r) ==
    /\ pc[r] = "down"
    /\ Goto(r, "idle")
    /\ UNCHANGED <<row, lock, version, events, keeper, token, copy, base>>

Tick ==
    /\ left' = IF left > 0 THEN left - 1 ELSE 0
    /\ heldAge' = [r \in Replicas |->
                     IF heldEpoch[r] = 0 THEN 0 ELSE Later(heldAge[r])]
    /\ claimAge' = [r \in Replicas |->
                      IF pc[r] \in {"claim", "insert", "reply"}
                      THEN Later(claimAge[r]) ELSE 0]
    /\ UNCHANGED <<holder, epoch, lock, version, events, pc, heldEpoch, token, copy, base>>

Lease(r) ==
    \/ EnsureCached(r) \/ BeginClaim(r)
    \/ Renew(r) \/ TakeOver(r) \/ FindNoRow(r) \/ Insert(r) \/ Led(r) \/ Refused(r)

Frame(r) ==
    \/ SkipFrame(r) \/ DetectFrame(r)
    \/ SubjectFence(r) \/ SubjectLost(r) \/ SubjectsDone(r) \/ SubjectCommit(r)
    \/ LoadScene(r) \/ SaveFence(r) \/ SaveLost(r) \/ SaveCommit(r) \/ ResetCamera(r)
    \/ EmitFence(r) \/ EmitLost(r) \/ EventCommit(r)
    \/ NoteNothing(r) \/ NoteFence(r) \/ NoteLost(r) \/ NoteCommit(r)

Fault(r) ==
    \/ ClaimError(r) \/ TxAbort(r)
    \/ SceneFault(r) \/ CancelTask(r) \/ Crash(r) \/ Restart(r)

Next ==
    Tick \/ \E r \in Replicas : Lease(r) \/ Frame(r) \/ ReleaseAll(r) \/ Fault(r)

Spec == Init /\ [][Next]_vars

\* Time passes, a running loop goes on (the asyncio task is scheduled and its
\* awaits return) and a shutdown that began ends; no fault or restart is owed.
Fairness ==
    /\ WF_vars(Tick)
    /\ \A r \in Replicas :
          WF_vars(Lease(r)) /\ WF_vars(Frame(r)) /\ WF_vars(ReleaseAll(r))

FairSpec == Spec /\ Fairness

-------------------------------------------------------------------------------
\* The row is locked by a fenced transaction that is open, by nothing else.
TypeOK ==
    /\ holder \in Replicas \union {NoReplica}
    /\ lock \in Replicas \union {NoReplica}
    /\ lock # NoReplica => pc[lock] \in TxPCs
    /\ epoch \in Nat /\ left \in 0..TTL /\ version \in Nat \ {0}
    /\ events \subseteq [under : Nat, from : Nat]
    /\ pc \in [Replicas -> PCs]
    /\ heldEpoch \in [Replicas -> Nat]
    /\ heldAge \in [Replicas -> 0..TTL]
    /\ claimAge \in [Replicas -> 0..TTL]
    /\ token \in [Replicas -> Nat]
    /\ copy \in [Replicas -> Nat]
    /\ base \in [Replicas -> Nat]

\* A replica that believes it holds the camera, going by its own monotonic
\* clock alone, does hold the unexpired lease in the database, under the epoch
\* it remembers: so two replicas never both believe it (LeaseKeeper.held).
BeliefIsHeld ==
    \A r \in Replicas :
        Held(r) => holder = r /\ epoch = heldEpoch[r] /\ left > 0

\* A change of the stored scene or of the camera's events is the commit of a
\* replica that is, at that moment and however long it took, still the holder
\* of the lease under the epoch its frame started with (fence).
WritesAreFenced ==
    [][version' # version \/ events' # events =>
         \E r \in Replicas :
            /\ pc[r] \in TxPCs /\ pc'[r] # pc[r]
            /\ holder = r /\ epoch = token[r]]_vars

\* No replica writes its cached scene over a version it has not read: the
\* scene cache never survives another replica's turn as the holder.
NoStaleOverwrite ==
    [][\A r \in Replicas :
         version' # version /\ copy'[r] = version' => copy[r] = version]_vars

\* The scene events tell one history: two of them never report a transition
\* out of the same stored version, and a later version's transition is not
\* reported under an earlier lease.
OneHistoryReported ==
    \A e, f \in {x \in events : x.from # 0} :
        /\ e.from = f.from => e = f
        /\ e.from < f.from => e.under <= f.under

\* The stored scene has one writer at a time, each change of writer starts a
\* new term, and only the version read is replaced (SceneWriter).
Writer == INSTANCE SceneWriter WITH
            writer <- holder, term <- epoch, copies <- copy
ImplementsSceneWriter == Writer!Spec

\* When one replica stays up and all others stay down, however they went down
\* and whatever they were doing, it becomes and remains the holder.
OnlyUp(r) == \A q \in Replicas : pc[q] = "down" <=> q # r
StandbyTakesOver ==
    \A r \in Replicas :
        <>[]OnlyUp(r) => <>[](holder = r \/ epoch = MaxEpoch)
================================================================================
