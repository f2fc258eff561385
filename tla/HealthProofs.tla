----------------------------- MODULE HealthProofs ------------------------------
(***************************************************************************)
(* Proofs about the camera-health watchdog (CameraHealth): what its        *)
(* incidents obey with any number of replicas, samples and mishaps.        *)
(***************************************************************************)
EXTENDS CameraHealth, TLAPS

\* Where a pass is at an incident, and only there, it has a kind in hand.
AtIncident == {"raise", "insert", "raised", "resolve", "resolved"}
KindsAreInHand == \A r \in Replicas : pc[r] \in AtIncident => kind[r] \in Kinds

\* A replica about to insert holds the kind's lock, and the newest incident
\* still is as it found it.
InsertIsLocked ==
    \A r \in Replicas : pc[r] = "insert" =>
        lock[kind[r]] = r /\ newest[kind[r]] \in {"none", "resolved"}

\* Nothing that is not resolved is hidden behind a newer incident.
NoneHidden == \A k \in Kinds : older[k] = 0

HealthInv == TypeOK /\ KindsAreInHand /\ InsertIsLocked /\ NoneHidden

-------------------------------------------------------------------------------
\* What the steps over an incident share: the pass moves on, in type.
LEMMA LeaveTyped ==
    ASSUME TypeOK, KindsAreInHand, NEW r \in Replicas, NEW l \in {"idle", "frame", "frozen"},
           Leave(r, l)
    PROVE  /\ pc' \in [Replicas -> PCs] /\ kind' \in [Replicas -> Kinds \union {"none"}]
           /\ KindsAreInHand'
BY DEF TypeOK, Types, KindsAreInHand, AtIncident, Leave, PCs

LEMMA BeginTyped ==
    ASSUME TypeOK, KindsAreInHand, NEW r \in Replicas, NEW l \in {"raise", "resolve"},
           NEW k \in Kinds, Begin(r, l, k)
    PROVE  /\ pc' \in [Replicas -> PCs] /\ kind' \in [Replicas -> Kinds \union {"none"}]
           /\ KindsAreInHand'
BY DEF TypeOK, Types, KindsAreInHand, AtIncident, Begin, PCs

LEMMA GotoTyped ==
    ASSUME TypeOK, KindsAreInHand, NEW r \in Replicas, NEW l \in PCs, Goto(r, l),
           l \in AtIncident => pc[r] \in AtIncident
    PROVE  /\ pc' \in [Replicas -> PCs] /\ kind' \in [Replicas -> Kinds \union {"none"}]
           /\ KindsAreInHand'
BY DEF TypeOK, Types, KindsAreInHand, AtIncident, Goto, PCs

LEMMA ResolveTyped ==
    ASSUME TypeOK, NEW k \in Kinds, ResolveNewest(k)
    PROVE  newest' \in [Kinds -> Status] /\ older' \in [Kinds -> Nat]
BY DEF TypeOK, Types, ResolveNewest, Status

LEMMA AfterTheCallTyped ==
    ASSUME TypeOK, KindsAreInHand, NEW r \in Replicas, Resume(r) \/ Abandon(r)
    PROVE  /\ pc' \in [Replicas -> PCs] /\ kind' \in [Replicas -> Kinds \union {"none"}]
           /\ KindsAreInHand'
           /\ frame' \in [Replicas -> Conditions \union {"none"}]
           /\ lastFrame' \in [Replicas -> Conditions \union {"none"}]
<1>1. PICK l \in {"idle", "frame", "frozen"} : Leave(r, l)
    BY DEF Resume, Abandon
<1>2. /\ frame' \in [Replicas -> Conditions \union {"none"}]
      /\ lastFrame' \in [Replicas -> Conditions \union {"none"}]
    BY DEF Resume, Abandon, EndFrame, TypeOK, Types
<1>3. QED
    BY <1>1, <1>2, LeaveTyped

\* Steps of the pass before there is an incident to raise or resolve.
LEMMA SampleStep ==
    ASSUME TypeOK, KindsAreInHand, NEW r \in Replicas,
           Observe(r) \/ NoFrame(r) \/ Obstruction(r) \/ Frozen(r)
    PROVE  Types' /\ KindsAreInHand'
<1> USE HealthAssumption
<1>1. /\ pc' \in [Replicas -> PCs] /\ kind' \in [Replicas -> Kinds \union {"none"}]
      /\ KindsAreInHand'
    <2>1. \/ \E l \in {"idle", "frame", "frozen"} : Goto(r, l)
          \/ \E l \in {"raise", "resolve"}, k \in Kinds : Begin(r, l, k)
        BY DEF Observe, NoFrame, Obstruction, Frozen, Kinds
    <2>2. QED
        BY <2>1, GotoTyped, BeginTyped DEF PCs, AtIncident
<1>2. CASE Observe(r)
    BY <1>1, <1>2 DEF Observe, TypeOK, Types, incidents
<1>3. CASE NoFrame(r)
    BY <1>1, <1>3 DEF NoFrame, TypeOK, Types, incidents, watch
<1>4. CASE Obstruction(r)
    <2>1. obstructed' \in [Replicas -> 0..ConfirmSamples]
        BY <1>4 DEF Obstruction, TypeOK, Types
    <2>2. QED
        BY <1>1, <1>4, <2>1 DEF Obstruction, TypeOK, Types, incidents
<1>5. CASE Frozen(r)
    <2>1. frozen' \in [Replicas -> {"no", "recent", "long"}]
        BY <1>5 DEF Frozen, TypeOK, Types
    <2>2. /\ frame' \in [Replicas -> Conditions \union {"none"}]
          /\ lastFrame' \in [Replicas -> Conditions \union {"none"}]
        BY <1>5 DEF Frozen, EndFrame, TypeOK, Types
    <2>3. QED
        BY <1>1, <1>5, <2>1, <2>2 DEF Frozen, TypeOK, Types, incidents
<1>6. QED
    BY <1>2, <1>3, <1>4, <1>5

\* Steps of raise_camera_health, resolve_camera_health and what follows them.
LEMMA IncidentStep ==
    ASSUME TypeOK, KindsAreInHand, NEW r \in Replicas,
           RaiseCheck(r) \/ Insert(r) \/ Raised(r) \/ Resolve(r) \/ Resolved(r)
    PROVE  Types' /\ KindsAreInHand'
<1> USE HealthAssumption
<1>1. kind[r] \in Kinds
    BY DEF RaiseCheck, Insert, Raised, Resolve, Resolved, KindsAreInHand, AtIncident
<1>2. CASE RaiseCheck(r)
    <2>1. Goto(r, "raised") \/ Goto(r, "insert")
        BY <1>2 DEF RaiseCheck
    <2>2. /\ pc' \in [Replicas -> PCs] /\ kind' \in [Replicas -> Kinds \union {"none"}]
          /\ KindsAreInHand'
        BY <1>2, <2>1, GotoTyped DEF RaiseCheck, PCs, AtIncident
    <2>3. QED
        BY <1>1, <1>2, <2>2 DEF RaiseCheck, TypeOK, Types, watch
<1>3. CASE Insert(r)
    <2>1. /\ pc' \in [Replicas -> PCs] /\ kind' \in [Replicas -> Kinds \union {"none"}]
          /\ KindsAreInHand'
        BY <1>3, GotoTyped DEF Insert, PCs, AtIncident
    <2>2. older' \in [Kinds -> Nat]
        BY <1>1, <1>3 DEF Insert, Unresolved, TypeOK, Types
    <2>3. QED
        BY <1>1, <1>3, <2>1, <2>2 DEF Insert, TypeOK, Types, watch, Status
<1>4. CASE Raised(r)
    <2>1. stranded' \in [Replicas -> SUBSET Kinds]
        BY <1>1, <1>4 DEF Raised, Succeeds, TypeOK, Types
    <2>2. QED
        BY <1>1, <1>4, <2>1, AfterTheCallTyped DEF Raised, TypeOK, Types, incidents
<1>5. CASE Resolve(r)
    <2>1. /\ pc' \in [Replicas -> PCs] /\ kind' \in [Replicas -> Kinds \union {"none"}]
          /\ KindsAreInHand'
        BY <1>5, GotoTyped DEF Resolve, PCs, AtIncident
    <2>2. newest' \in [Kinds -> Status] /\ older' \in [Kinds -> Nat]
        BY <1>1, <1>5, ResolveTyped DEF Resolve
    <2>3. QED
        BY <1>5, <2>1, <2>2 DEF Resolve, TypeOK, Types, watch
<1>6. CASE Resolved(r)
    <2>1. stranded' \in [Replicas -> SUBSET Kinds]
        BY <1>1, <1>6 DEF Resolved, Succeeds, TypeOK, Types
    <2>2. QED
        BY <1>1, <1>6, <2>1, AfterTheCallTyped DEF Resolved, TypeOK, Types, incidents
<1>7. QED
    BY <1>2, <1>3, <1>4, <1>5, <1>6

\* Steps of the household, the camera, time, and the mishaps.
LEMMA OutsideStep ==
    ASSUME TypeOK, KindsAreInHand,
           \/ \E r \in Replicas : FrozenLong(r) \/ CallFails(r) \/ Restart(r)
           \/ \E k \in Kinds : HumanResolve(k) \/ WindowEnds(k)
           \/ Change \/ Handover
    PROVE  Types' /\ KindsAreInHand'
<1> USE HealthAssumption
<1>1. ASSUME NEW r \in Replicas, FrozenLong(r) PROVE Types' /\ KindsAreInHand'
    BY <1>1 DEF FrozenLong, TypeOK, Types, KindsAreInHand, incidents
<1>2. ASSUME NEW r \in Replicas, Release(r)
      PROVE  lock' \in [Kinds -> Replicas \union {NoReplica}]
    BY <1>2 DEF Release, TypeOK, Types
<1>3. ASSUME NEW f \in FaultKinds, Mishap(f) PROVE mishaps' \in 0..MaxMishaps
    BY <1>3 DEF Mishap, TypeOK, Types
<1>4. ASSUME NEW r \in Replicas, CallFails(r) PROVE Types' /\ KindsAreInHand'
    <2>1. kind[r] \in Kinds
        BY <1>4 DEF CallFails, KindsAreInHand, AtIncident
    <2>2. stranded' \in [Replicas -> SUBSET Kinds]
        BY <1>4, <2>1 DEF CallFails, TypeOK, Types
    <2>3. lock' \in [Kinds -> Replicas \union {NoReplica}] /\ mishaps' \in 0..MaxMishaps
        BY <1>2, <1>3, <1>4 DEF CallFails, FaultKinds
    <2>4. QED
        BY <1>4, <2>2, <2>3, AfterTheCallTyped DEF CallFails, TypeOK, Types
<1>5. ASSUME NEW r \in Replicas, Restart(r) PROVE Types' /\ KindsAreInHand'
    <2>1. /\ pc' \in [Replicas -> PCs] /\ kind' \in [Replicas -> Kinds \union {"none"}]
          /\ KindsAreInHand'
        BY <1>5, LeaveTyped DEF Restart
    <2>2. lock' \in [Kinds -> Replicas \union {NoReplica}] /\ mishaps' \in 0..MaxMishaps
        BY <1>2, <1>3, <1>5 DEF Restart, FaultKinds
    <2>3. flags' \in [Replicas -> SUBSET Kinds]
        BY <1>5 DEF Restart, TypeOK, Types
    <2>4. /\ frame' \in [Replicas -> Conditions \union {"none"}]
          /\ lastFrame' \in [Replicas -> Conditions \union {"none"}]
          /\ lastOnline' \in [Replicas -> {"unknown", "on", "off"}]
          /\ obstructed' \in [Replicas -> 0..ConfirmSamples]
          /\ frozen' \in [Replicas -> {"no", "recent", "long"}]
        BY <1>5 DEF Restart, EndFrame, TypeOK, Types
    <2>5. QED
        BY <1>5, <2>1, <2>2, <2>3, <2>4 DEF Restart, TypeOK, Types
<1>6. ASSUME NEW k \in Kinds, HumanResolve(k) PROVE Types' /\ KindsAreInHand'
    BY <1>6, ResolveTyped DEF HumanResolve, TypeOK, Types, KindsAreInHand, watch
<1>7. ASSUME NEW k \in Kinds, WindowEnds(k) PROVE Types' /\ KindsAreInHand'
    BY <1>7 DEF WindowEnds, TypeOK, Types, KindsAreInHand, watch, Status
<1>8. CASE Change
    BY <1>8 DEF Change, TypeOK, Types, KindsAreInHand, incidents, watch
<1>9. CASE Handover
    <2>1. mishaps' \in 0..MaxMishaps
        BY <1>3, <1>9 DEF Handover, FaultKinds
    <2>2. QED
        BY <1>9, <2>1 DEF Handover, TypeOK, Types, KindsAreInHand, incidents, watch
<1>10. QED
    BY <1>1, <1>4, <1>5, <1>6, <1>7, <1>8, <1>9

\* A pass that neither takes nor frees a lock stays where it holds one.
LEMMA LocksStayHeld ==
    ASSUME TypeOK, UNCHANGED lock,
           \A r \in Replicas : pc[r] = "insert" => pc'[r] = "insert" /\ kind'[r] = kind[r]
    PROVE  LocksAreHeld'
BY DEF TypeOK, Types, LocksAreHeld

\* A pass whose call failed, or whose process ended, holds no lock any more.
LEMMA ReleasedAreHeld ==
    ASSUME TypeOK, HealthAssumption, NEW q \in Replicas, Release(q),
           \A r \in Replicas : r # q => pc'[r] = pc[r] /\ kind'[r] = kind[r]
    PROVE  LocksAreHeld'
BY DEF TypeOK, Types, LocksAreHeld, Release

\* The route locks are held by passes about to insert, whichever step is made.
LEMMA LocksHeldStep ==
    ASSUME TypeOK, KindsAreInHand, [Next]_vars
    PROVE  LocksAreHeld'
<1> USE HealthAssumption
<1>0. pc \in [Replicas -> PCs] /\ kind \in [Replicas -> Kinds \union {"none"}]
      /\ lock \in [Kinds -> Replicas \union {NoReplica}]
    BY DEF TypeOK, Types
<1>1. ASSUME NEW q \in Replicas, Observe(q) \/ NoFrame(q) \/ Obstruction(q) \/ Frozen(q)
      PROVE  LocksAreHeld'
    <2>1. UNCHANGED lock /\ pc[q] # "insert"
        BY <1>1 DEF Observe, NoFrame, Obstruction, Frozen, incidents
    <2>2. \E l \in PCs : Goto(q, l) \/ \E k \in Kinds : Begin(q, l, k)
        BY <1>1 DEF Observe, NoFrame, Obstruction, Frozen, PCs, Kinds
    <2>3. \A r \in Replicas : r # q => pc'[r] = pc[r] /\ kind'[r] = kind[r]
        BY <1>0, <2>2 DEF Goto, Begin
    <2>4. QED
        BY <2>1, <2>3, LocksStayHeld
<1>2. ASSUME NEW q \in Replicas, Raised(q) \/ Resolved(q) PROVE LocksAreHeld'
    <2>1. UNCHANGED lock /\ pc[q] # "insert"
        BY <1>2 DEF Raised, Resolved, incidents
    <2>2. PICK l \in {"idle", "frame", "frozen"} : Leave(q, l)
        BY <1>2 DEF Raised, Resolved, Resume
    <2>3. \A r \in Replicas : r # q => pc'[r] = pc[r] /\ kind'[r] = kind[r]
        BY <1>0, <2>2 DEF Leave
    <2>4. QED
        BY <2>1, <2>3, LocksStayHeld
<1>3. ASSUME NEW q \in Replicas, RaiseCheck(q) PROVE LocksAreHeld'
    <2>1. /\ pc[q] = "raise" /\ kind' = kind
          /\ \A r \in Replicas : r # q => pc'[r] = pc[r]
        BY <1>0, <1>3 DEF RaiseCheck, Goto
    <2>2. CASE UNCHANGED lock
        BY <2>1, <2>2, LocksStayHeld
    <2>3. CASE lock' = [lock EXCEPT ![kind[q]] = q] /\ pc' = [pc EXCEPT ![q] = "insert"]
        BY <1>0, <2>1, <2>3 DEF TypeOK, LocksAreHeld
    <2>4. QED
        BY <1>3, <2>2, <2>3 DEF RaiseCheck, Goto
<1>4. ASSUME NEW q \in Replicas, Insert(q) PROVE LocksAreHeld'
    <2>1. /\ kind' = kind /\ lock' = [lock EXCEPT ![kind[q]] = NoReplica]
          /\ \A r \in Replicas : r # q => pc'[r] = pc[r]
        BY <1>0, <1>4 DEF Insert, Goto
    <2>2. ASSUME NEW k \in Kinds, lock'[k] # NoReplica
          PROVE  pc'[lock'[k]] = "insert" /\ kind'[lock'[k]] = k
        <3>1. k # kind[q] /\ lock'[k] = lock[k]
            BY <1>0, <2>1, <2>2
        <3>2. lock[k] \in Replicas /\ pc[lock[k]] = "insert" /\ kind[lock[k]] = k
            BY <1>0, <2>2, <3>1 DEF TypeOK, LocksAreHeld
        <3>3. QED
            BY <2>1, <3>1, <3>2
    <2>3. QED
        BY <2>2 DEF LocksAreHeld
<1>5. ASSUME NEW q \in Replicas, Resolve(q) PROVE LocksAreHeld'
    <2>1. /\ pc[q] = "resolve" /\ UNCHANGED <<lock, kind>>
          /\ \A r \in Replicas : r # q => pc'[r] = pc[r]
        BY <1>0, <1>5 DEF Resolve, Goto
    <2>2. QED
        BY <2>1, LocksStayHeld
<1>6. ASSUME NEW q \in Replicas, CallFails(q) \/ Restart(q) PROVE LocksAreHeld'
    <2>1. PICK l \in {"idle", "frame", "frozen"} : Leave(q, l)
        BY <1>6 DEF CallFails, Abandon, Restart
    <2>2. \A r \in Replicas : r # q => pc'[r] = pc[r] /\ kind'[r] = kind[r]
        BY <1>0, <2>1 DEF Leave
    <2>3. QED
        BY <1>6, <2>2, ReleasedAreHeld DEF CallFails, Restart
<1>7. CASE UNCHANGED <<lock, pc, kind>>
    BY <1>7, LocksStayHeld
<1>8. QED
    BY <1>1, <1>2, <1>3, <1>4, <1>5, <1>6, <1>7
    DEF Next, Pass, vars, incidents, FrozenLong, Change, Handover, HumanResolve, WindowEnds

LEMMA HealthTypeStep ==
    ASSUME TypeOK, KindsAreInHand, [Next]_vars
    PROVE  TypeOK' /\ KindsAreInHand'
<1>1. CASE UNCHANGED vars
    BY <1>1 DEF vars, incidents, watch, TypeOK, Types, LocksAreHeld, KindsAreInHand
<1>2. CASE \E r \in Replicas : Pass(r)
    BY <1>2, SampleStep, IncidentStep, LocksHeldStep DEF Pass, TypeOK
<1>3. QED
    BY <1>1, <1>2, OutsideStep, LocksHeldStep DEF Next, TypeOK

-------------------------------------------------------------------------------
\* A step that touches no lock and no incident keeps what the locks protect,
\* unless a pass comes to its insert by it.
LEMMA LocksKept ==
    ASSUME HealthInv, KindsAreInHand',
           \A k \in Kinds : newest[k] \in {"none", "resolved"} => newest'[k] \in {"none", "resolved"},
           UNCHANGED <<older, lock>>,
           \A r \in Replicas : pc'[r] = "insert" => pc[r] = "insert" /\ kind'[r] = kind[r]
    PROVE  InsertIsLocked' /\ NoneHidden'
BY DEF HealthInv, InsertIsLocked, NoneHidden, KindsAreInHand, AtIncident

\* A pass that loses its call gives back its own lock only.
LEMMA ReleaseKeeps ==
    ASSUME HealthInv, HealthAssumption, NEW q \in Replicas, Release(q),
           UNCHANGED <<newest, older>>, pc'[q] # "insert",
           \A r \in Replicas : r # q => pc'[r] = pc[r] /\ kind'[r] = kind[r]
    PROVE  InsertIsLocked' /\ NoneHidden'
BY DEF HealthInv, InsertIsLocked, NoneHidden, KindsAreInHand, AtIncident, Release

\* What a resolution does to a kind that hides nothing.
LEMMA ResolveKeeps ==
    ASSUME HealthInv, NEW k \in Kinds, ResolveNewest(k)
    PROVE  /\ UNCHANGED older
           /\ \A j \in Kinds :
                 /\ newest[j] # "open" => newest'[j] = newest[j]
                 /\ newest'[j] = "open" => newest[j] = "open"
<1>1. CASE newest[k] = "open"
    BY <1>1 DEF HealthInv, TypeOK, Types, ResolveNewest
<1>2. CASE newest[k] # "open"
    <2>1. older' = [older EXCEPT ![k] = 0] /\ older[k] = 0 /\ older \in [Kinds -> Nat]
        BY <1>2 DEF HealthInv, TypeOK, Types, ResolveNewest, NoneHidden
    <2>2. older' = older
        BY <2>1
    <2>3. QED
        BY <1>2, <2>2 DEF ResolveNewest
<1>3. QED
    BY <1>1, <1>2

LEMMA LocksStep ==
    ASSUME HealthInv, [Next]_vars
    PROVE  InsertIsLocked' /\ NoneHidden'
<1> USE HealthAssumption
<1>0. KindsAreInHand' /\ pc \in [Replicas -> PCs] /\ kind \in [Replicas -> Kinds \union {"none"}]
    BY HealthTypeStep DEF HealthInv, TypeOK, Types
<1>1. ASSUME UNCHANGED <<newest, older, lock>>, NEW q \in Replicas, pc'[q] # "insert",
             \A r \in Replicas : r # q => pc'[r] = pc[r] /\ kind'[r] = kind[r]
      PROVE  InsertIsLocked' /\ NoneHidden'
    BY <1>0, <1>1, LocksKept
<1>2. ASSUME NEW q \in Replicas, Observe(q) \/ NoFrame(q) \/ Obstruction(q) \/ Frozen(q)
      PROVE  InsertIsLocked' /\ NoneHidden'
    <2>1. UNCHANGED <<newest, older, lock>>
        BY <1>2 DEF Observe, NoFrame, Obstruction, Frozen, incidents
    <2>2. \E l \in PCs \ {"insert"} : Goto(q, l) \/ \E k \in Kinds : Begin(q, l, k)
        BY <1>2 DEF Observe, NoFrame, Obstruction, Frozen, PCs, Kinds
    <2>3. pc'[q] # "insert" /\ \A r \in Replicas : r # q => pc'[r] = pc[r] /\ kind'[r] = kind[r]
        BY <1>0, <2>2 DEF Goto, Begin
    <2>4. QED
        BY <1>1, <2>1, <2>3
<1>3. ASSUME NEW q \in Replicas, Raised(q) \/ Resolved(q)
      PROVE  InsertIsLocked' /\ NoneHidden'
    <2>1. PICK l \in {"idle", "frame", "frozen"} : Leave(q, l)
        BY <1>3 DEF Raised, Resolved, Resume
    <2>2. pc'[q] # "insert" /\ \A r \in Replicas : r # q => pc'[r] = pc[r] /\ kind'[r] = kind[r]
        BY <1>0, <2>1 DEF Leave
    <2>3. QED
        BY <1>1, <1>3, <2>2 DEF Raised, Resolved, incidents
<1>4. ASSUME NEW q \in Replicas, RaiseCheck(q) PROVE InsertIsLocked' /\ NoneHidden'
    <2>1. CASE newest[kind[q]] \in {"open", "recently"}
        BY <1>0, <1>1, <1>4, <2>1 DEF RaiseCheck, Goto
    <2>2. CASE newest[kind[q]] \notin {"open", "recently"}
        <3>1. kind[q] \in Kinds
            BY <1>4 DEF RaiseCheck, HealthInv, KindsAreInHand, AtIncident
        <3>2. lock[kind[q]] = NoReplica /\ newest[kind[q]] \in {"none", "resolved"}
            BY <1>4, <2>2, <3>1 DEF RaiseCheck, HealthInv, TypeOK, Types, Status
        <3>3. /\ UNCHANGED <<newest, older, kind>> /\ lock' = [lock EXCEPT ![kind[q]] = q]
              /\ \A r \in Replicas : r # q => pc'[r] = pc[r]
            BY <1>0, <1>4, <2>2 DEF RaiseCheck, Goto
        <3>4. QED
            BY <3>1, <3>2, <3>3 DEF HealthInv, TypeOK, Types, InsertIsLocked, NoneHidden, KindsAreInHand, AtIncident
    <2>3. QED
        BY <2>1, <2>2
<1>5. ASSUME NEW q \in Replicas, Insert(q) PROVE InsertIsLocked' /\ NoneHidden'
    <2> DEFINE k == kind[q]
    <2>1. k \in Kinds /\ lock[k] = q /\ newest[k] \in {"none", "resolved"} /\ older[k] = 0
        BY <1>5 DEF Insert, HealthInv, KindsAreInHand, AtIncident, InsertIsLocked, NoneHidden
    <2>2. Unresolved(k) = 0
        BY <2>1 DEF Unresolved
    <2>3. NoneHidden'
        BY <1>5, <2>1, <2>2 DEF Insert, HealthInv, TypeOK, Types, NoneHidden
    <2>4. ASSUME NEW r \in Replicas, pc'[r] = "insert"
          PROVE  lock'[kind'[r]] = r /\ newest'[kind'[r]] \in {"none", "resolved"}
        <3>1. r # q /\ pc[r] = "insert" /\ kind' = kind
            BY <1>0, <1>5, <2>4 DEF Insert, Goto
        <3>2. kind[r] \in Kinds /\ lock[kind[r]] = r /\ newest[kind[r]] \in {"none", "resolved"}
            BY <3>1 DEF HealthInv, KindsAreInHand, AtIncident, InsertIsLocked
        <3>3. kind[r] # k
            BY <2>1, <3>1, <3>2
        <3>4. QED
            BY <1>5, <2>1, <3>1, <3>2, <3>3 DEF Insert, HealthInv, TypeOK, Types
    <2>5. QED
        BY <2>3, <2>4 DEF InsertIsLocked
<1>6. ASSUME NEW q \in Replicas, Resolve(q) PROVE InsertIsLocked' /\ NoneHidden'
    <2>1. kind[q] \in Kinds
        BY <1>6 DEF Resolve, HealthInv, KindsAreInHand, AtIncident
    <2>2. UNCHANGED <<older, lock, kind>>
          /\ \A j \in Kinds : newest[j] # "open" => newest'[j] = newest[j]
        BY <1>6, <2>1, ResolveKeeps DEF Resolve, Goto
    <2>3. \A r \in Replicas : pc'[r] = "insert" => pc[r] = "insert"
        BY <1>0, <1>6 DEF Resolve, Goto
    <2>4. QED
        BY <1>0, <2>2, <2>3, LocksKept
<1>7. ASSUME NEW k \in Kinds, HumanResolve(k) PROVE InsertIsLocked' /\ NoneHidden'
    <2>1. UNCHANGED <<older, lock, pc, kind>>
          /\ \A j \in Kinds : newest[j] # "open" => newest'[j] = newest[j]
        BY <1>7, ResolveKeeps DEF HumanResolve
    <2>2. QED
        BY <1>0, <2>1, LocksKept
<1>8. ASSUME NEW k \in Kinds, WindowEnds(k) PROVE InsertIsLocked' /\ NoneHidden'
    <2>1. \A j \in Kinds : newest[j] \in {"none", "resolved"} => newest'[j] \in {"none", "resolved"}
        BY <1>8 DEF WindowEnds, HealthInv, TypeOK, Types
    <2>2. QED
        BY <1>0, <1>8, <2>1, LocksKept DEF WindowEnds
<1>9. ASSUME NEW q \in Replicas, CallFails(q) \/ Restart(q) PROVE InsertIsLocked' /\ NoneHidden'
    <2>1. PICK l \in {"idle", "frame", "frozen"} : Leave(q, l)
        BY <1>9 DEF CallFails, Abandon, Restart
    <2>2. pc'[q] # "insert" /\ \A r \in Replicas : r # q => pc'[r] = pc[r] /\ kind'[r] = kind[r]
        BY <1>0, <2>1 DEF Leave
    <2>3. QED
        BY <1>9, <2>2, ReleaseKeeps DEF CallFails, Restart
<1>10. CASE UNCHANGED <<newest, older, lock, pc, kind>>
    BY <1>0, <1>10, LocksKept
<1>11. QED
    BY <1>2, <1>3, <1>4, <1>5, <1>6, <1>7, <1>8, <1>9, <1>10
    DEF Next, Pass, vars, incidents, FrozenLong, Change, Handover

\* The invariant: types, the kind in hand, and what the route lock protects
\* between the check and the insert (raise_camera_health).
LEMMA HealthInvariant == Spec => []HealthInv
<1>1. Init => HealthInv
    <2> SUFFICES ASSUME Init PROVE HealthInv
        OBVIOUS
    <2>1. TypeOK
        BY HealthAssumption DEF Init, TypeOK, Types, LocksAreHeld, Status, PCs
    <2>2. QED
        BY <2>1 DEF HealthInv, Init, KindsAreInHand, AtIncident, InsertIsLocked, NoneHidden
<1>2. HealthInv /\ [Next]_vars => HealthInv'
    BY HealthTypeStep, LocksStep DEF HealthInv
<1>3. QED
    BY <1>1, <1>2, PTL DEF Spec

\* The watchdog's state keeps its types.
THEOREM HealthIsTyped == Spec => []TypeOK
<1>1. HealthInv => TypeOK
    BY DEF HealthInv
<1>2. QED
    BY <1>1, HealthInvariant, PTL

\* There never is a second unresolved incident for the same trouble, whichever
\* replicas raise it, fail or restart between the check and the insert
\* (raise_camera_health under the route lock).
THEOREM OneIncidentPerTrouble == Spec => []OneUnresolvedIncident
<1>1. HealthInv => OneUnresolvedIncident
    BY DEF HealthInv, NoneHidden, OneUnresolvedIncident, Unresolved
<1>2. QED
    BY <1>1, HealthInvariant, PTL

\* No step reopens a kind within the dedupe window of its last incident
\* (raise_camera_health).
THEOREM DedupeWindowHolds == Spec => NotReraisedTooSoon
<1>1. HealthInv /\ [Next]_vars => \A k \in Kinds : newest[k] = "recently" => newest'[k] # "open"
    <2> SUFFICES ASSUME HealthInv, [Next]_vars, NEW k \in Kinds, newest[k] = "recently"
                 PROVE  newest'[k] # "open"
        OBVIOUS
    <2>1. CASE \E r \in Replicas : Insert(r)
        <3> PICK r \in Replicas : Insert(r)
            BY <2>1
        <3>1. kind[r] # k
            BY DEF Insert, HealthInv, InsertIsLocked
        <3>2. QED
            BY <3>1 DEF Insert, HealthInv, TypeOK, Types
    <2>2. CASE \E r \in Replicas : Resolve(r)
        BY <2>2, ResolveKeeps DEF Resolve, HealthInv, KindsAreInHand, AtIncident
    <2>3. CASE \E j \in Kinds : HumanResolve(j)
        BY <2>3, ResolveKeeps DEF HumanResolve
    <2>4. CASE \E j \in Kinds : WindowEnds(j)
        BY <2>4 DEF WindowEnds, HealthInv, TypeOK, Types
    <2>5. CASE UNCHANGED newest
        BY <2>5
    <2>6. QED
        BY <2>1, <2>2, <2>3, <2>4, <2>5
        DEF Next, Pass, vars, incidents, FrozenLong, Change, Handover, Observe, NoFrame, Obstruction,
            Frozen, RaiseCheck, Raised, Resolved, CallFails, Restart
<1>2. QED
    BY <1>1, HealthInvariant, PTL DEF Spec, NotReraisedTooSoon
================================================================================
