---------------------------- MODULE ArmingSchedule -----------------------------
(***************************************************************************)
(* Automatic arming: apply_due_transition and the schedule edits of        *)
(* app/services/arming_schedules.py, ticked by every replica's             *)
(* arming_scheduler, against set_mode of app/services/security_modes.py.   *)
(*                                                                         *)
(* Recurring local-time windows are unrolled on a finite timeline: time    *)
(* zones, weekdays and the lookback (longer than the timeline) are left    *)
(* out. The singleton state row exists from the start. The UPDATE that     *)
(* claims a boundary and the audit entry staged with it are one commit.    *)
(***************************************************************************)
EXTENDS Integers, Sequences, FiniteSetsExt

CONSTANTS
    Replicas,    \* API replicas: each ticks
    Callers,     \* people and automations that set the mode
    Windows,     \* the occurrences of every schedule that may exist
    Modes,       \* the arming modes
    Default,     \* arming_schedule_default_mode
    MaxTime,     \* bound: the clock stops here
    MaxMishaps   \* bound: edits, calls and failed ticks in a behaviour

ASSUME ArmingAssumption ==
    /\ MaxTime \in Nat /\ MaxMishaps \in Nat
    /\ Default \in Modes /\ IsFiniteSet(Windows)
    /\ \A w \in Windows :
         /\ w.start \in Nat \ {0} /\ w.end \in Nat /\ w.start < w.end
         /\ w.mode \in Modes /\ w.priority \in Nat

VARIABLES
    now,
    schedules,   \* enabled schedules, as their windows
    mode,        \* security_states.mode
    byHand,      \* security_states.changed_source is not "schedule"
    last,        \* security_states.last_transition_at, 0 for NULL
    audit,       \* audit entries of automatic changes, in order: [at, from, to]
    pc, at,      \* a replica's tick: where it is and the `now` it began with
    plan, seen,  \* the schedules and the mode (previous_mode) it has read
    call,        \* call[c]: the mode asked for and what the row held then
    followed,    \* history: the last claim was made by the schedules of now,
                 \* and nobody has changed the mode since
    mishaps

state == <<mode, byHand, last, audit>>
tick  == <<pc, at, plan, seen>>
vars  == <<now, schedules, state, tick, call, followed, mishaps>>

\* --- boundaries and what they ask for ------------------------------------

BoundariesAhead(S, t) ==  \* mutant: the next boundary counts already
    {b \in {w.start : w \in S} \union {w.end : w \in S} : b <= t + 1}
Boundaries(S, t) == {b \in {w.start : w \in S} \union {w.end : w \in S} : b <= t}
Previous(S, t)   == IF Boundaries(S, t) = {} THEN 0 ELSE Max(Boundaries(S, t))

Covering(S, t) == {w \in S : w.start <= t /\ t < w.end}

\* Highest priority, then most recent start.
Outranks(v, w) == \/ v.priority > w.priority
                  \/ v.priority = w.priority /\ v.start > w.start
Resolve(S, t) ==
    IF Covering(S, t) = {} THEN Default
    ELSE (CHOOSE w \in Covering(S, t) : \A v \in Covering(S, t) : ~Outranks(v, w)).mode

None == [asked |-> Default, mode |-> Default, byHand |-> FALSE, open |-> FALSE]

Init ==
    /\ now = 0
    /\ schedules \in SUBSET Windows
    /\ mode = Default /\ byHand = TRUE /\ last = 0
    /\ audit = <<>>
    /\ pc = [r \in Replicas |-> "idle"]
    /\ at = [r \in Replicas |-> 0]
    /\ plan = [r \in Replicas |-> {}]
    /\ seen = [r \in Replicas |-> Default]
    /\ call = [c \in Callers |-> None]
    /\ followed = FALSE
    /\ mishaps = 0

\* --- apply_due_transition ------------------------------------------------

EndTick(r) ==
    /\ pc' = [pc EXCEPT ![r] = "idle"]
    /\ at' = [at EXCEPT ![r] = 0]
    /\ plan' = [plan EXCEPT ![r] = {}]
    /\ seen' = [seen EXCEPT ![r] = Default]

\* `now` is taken once; everything else is read later.
BeginTick(r) ==
    /\ pc[r] = "idle"
    /\ pc' = [pc EXCEPT ![r] = "schedules"]
    /\ at' = [at EXCEPT ![r] = now]
    /\ UNCHANGED <<now, schedules, state, plan, seen, call, followed, mishaps>>

ReadSchedules(r) ==
    /\ pc[r] = "schedules"
    /\ IF Previous(schedules, at[r]) = 0
       THEN EndTick(r)
       ELSE /\ pc' = [pc EXCEPT ![r] = "state"]
            /\ plan' = [plan EXCEPT ![r] = schedules]
            /\ UNCHANGED <<at, seen>>
    /\ UNCHANGED <<now, schedules, state, call, followed, mishaps>>

ReadState(r) ==
    /\ pc[r] = "state"
    /\ IF last >= Previous(plan[r], at[r])
       THEN EndTick(r)
       ELSE /\ pc' = [pc EXCEPT ![r] = "claim"]
            /\ seen' = [seen EXCEPT ![r] = mode]
            /\ UNCHANGED <<at, plan>>
    /\ UNCHANGED <<now, schedules, state, call, followed, mishaps>>

\* Mutant: the mode is written only when the mode read before differs.
WinIfSeenDiffers(r, b) ==
    LET desired == Resolve(plan[r], b) IN
    /\ mode' = IF seen[r] = desired THEN mode ELSE desired
    /\ byHand' = FALSE
    /\ last' = b
    /\ audit' = IF seen[r] = desired THEN audit
                ELSE Append(audit, [at |-> b, from |-> seen[r], to |-> desired])
    /\ followed' = (plan[r] = schedules)

\* The audit entry goes into the commit of the UPDATE that wins the boundary;
\* there is none when the mode read before was the desired one already.
Win(r, b) ==
    LET desired == Resolve(plan[r], b) IN
    /\ mode' = desired
    /\ byHand' = FALSE
    /\ last' = b
    /\ audit' = IF seen[r] = desired THEN audit
                ELSE Append(audit, [at |-> b, from |-> seen[r], to |-> desired])
    /\ followed' = (plan[r] = schedules)

\* Mutant: the UPDATE is not conditional.
ClaimAlways(r) ==
    /\ pc[r] = "claim"
    /\ Win(r, Previous(plan[r], at[r]))
    /\ EndTick(r)
    /\ UNCHANGED <<now, schedules, call, mishaps>>

\* Mutant: the condition does not provide for NULL.
ClaimNotNull(r) ==
    /\ pc[r] = "claim"
    /\ IF last # 0 /\ last < Previous(plan[r], at[r])
       THEN Win(r, Previous(plan[r], at[r]))
       ELSE UNCHANGED <<state, followed>>
    /\ EndTick(r)
    /\ UNCHANGED <<now, schedules, call, mishaps>>

Claim(r) ==
    /\ pc[r] = "claim"
    /\ IF last < Previous(plan[r], at[r])
       THEN Win(r, Previous(plan[r], at[r]))
       ELSE UNCHANGED <<state, followed>>
    /\ EndTick(r)
    /\ UNCHANGED <<now, schedules, call, mishaps>>

Mishap == mishaps < MaxMishaps /\ mishaps' = mishaps + 1

\* The replica dies or the database raises: rolled back, next tick later.
TickFails(r) ==
    /\ Mishap
    /\ pc[r] # "idle"
    /\ EndTick(r)
    /\ UNCHANGED <<now, schedules, state, call, followed>>

\* --- set_mode and the schedule edits -------------------------------------

\* The row is read in the request's session...
Ask(c, m) ==
    /\ Mishap
    /\ ~call[c].open
    /\ call' = [call EXCEPT ![c] =
                  [asked |-> m, mode |-> mode, byHand |-> byHand, open |-> TRUE]]
    /\ UNCHANGED <<now, schedules, state, tick, followed>>

\* ... and the commit writes only the columns that differ from what was read;
\* a source other than the one read, manual or integration, differs.
SetMode(c) ==
    /\ call[c].open
    /\ mode' = IF call[c].asked = call[c].mode THEN mode ELSE call[c].asked
    /\ byHand' \in {byHand \/ ~call[c].byHand, TRUE}
    /\ followed' = FALSE
    /\ call' = [call EXCEPT ![c] = None]
    /\ UNCHANGED <<now, schedules, last, audit, tick, mishaps>>

Edit(S) ==
    /\ Mishap
    /\ schedules' = S
    /\ followed' = FALSE
    /\ UNCHANGED <<now, state, tick, call>>

CreateSchedule == \E w \in Windows \ schedules : Edit(schedules \union {w})
DeleteSchedule == \E w \in schedules : Edit(schedules \ {w})
UpdateSchedule ==
    \E w \in schedules : \E v \in Windows \ schedules :
        Edit((schedules \ {w}) \union {v})

Tick ==
    /\ now < MaxTime
    /\ now' = now + 1
    /\ UNCHANGED <<schedules, state, tick, call, followed, mishaps>>

ApplyDue(r) == BeginTick(r) \/ ReadSchedules(r) \/ ReadState(r) \/ Claim(r)

Next ==
    \/ Tick \/ CreateSchedule \/ DeleteSchedule \/ UpdateSchedule
    \/ \E r \in Replicas : ApplyDue(r) \/ TickFails(r)
    \/ \E c \in Callers : SetMode(c) \/ \E m \in Modes : Ask(c, m)

Spec == Init /\ [][Next]_vars

\* Time passes and every replica's scheduler goes on ticking: _run catches what
\* a tick raises. Nobody has to call or edit anything.
FairSpec == Spec /\ WF_vars(Tick) /\ \A r \in Replicas : WF_vars(ApplyDue(r))

-------------------------------------------------------------------------------
TypeOK ==
    /\ now \in 0..MaxTime /\ schedules \subseteq Windows
    /\ mode \in Modes /\ byHand \in BOOLEAN
    /\ last \in 0..now
    /\ audit \in Seq([at : 1..now, from : Modes, to : Modes])
    /\ pc \in [Replicas -> {"idle", "schedules", "state", "claim"}]
    /\ at \in [Replicas -> 0..now]
    /\ plan \in [Replicas -> SUBSET Windows]
    /\ seen \in [Replicas -> Modes]
    /\ call \in [Callers -> [asked : Modes, mode : Modes, byHand : BOOLEAN, open : BOOLEAN]]
    /\ followed \in BOOLEAN
    /\ mishaps \in 0..MaxMishaps

\* A mode set by hand gives way only to a boundary that had not been applied
\* when it was set, however many replicas tick and however late: each boundary
\* is claimed once, and none after a later one (apply_due_transition).
OverrideStands ==
    [][(byHand /\ ~byHand') \/ audit' # audit => last' > last]_vars

\* When nobody has changed the mode or a schedule since the last claim, the
\* household ends up in the mode the schedules ask for now: the boundary
\* claimed and the moment resolve() is asked about say the same.
ScheduleFollowed == <>[](followed => mode = Resolve(schedules, now))

\* And the last boundary there is gets claimed.
BoundaryClaimed == <>[](last >= Previous(schedules, now))

\* A change of mode by the schedule is in the audit trail ("every automatic
\* change is audit-logged").
AutomaticChangeAudited ==
    [][mode' # mode /\ last' # last => audit' # audit]_vars
================================================================================
