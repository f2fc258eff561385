----------------------------- MODULE ArmingProofs ------------------------------
(***************************************************************************)
(* Proofs about automatic arming (ArmingSchedule), for every finite set of *)
(* windows, every number of replicas and callers and every bound.          *)
(***************************************************************************)
EXTENDS ArmingSchedule, FiniteSetTheorems, NumberLemmas, TLAPS

\* The audit trail has one entry for a boundary, none after a later one, and
\* only for what was a change to the replica that claimed it.
AuditInOrder ==
    /\ \A i, j \in DOMAIN audit : i < j => audit[i].at < audit[j].at
    /\ \A i \in DOMAIN audit : audit[i].at <= last /\ audit[i].from # audit[i].to

\* A tick that goes on is one that has found a boundary.
TicksHaveBoundaries ==
    \A r \in Replicas : pc[r] \in {"state", "claim"} => Boundaries(plan[r], at[r]) # {}

ArmingInv == TypeOK /\ TicksHaveBoundaries /\ AuditInOrder

-------------------------------------------------------------------------------
\* A set of instants that have passed has a last one.
LEMMA LastInstant ==
    ASSUME NEW t \in Nat, NEW B \in SUBSET (0..t), B # {}
    PROVE  Max(B) \in B /\ \A b \in B : b <= Max(B)
<1> DEFINE T == {t - b : b \in B}
<1>1. T \in SUBSET Nat /\ T # {}
    <2>1. \A b \in B : t - b \in Nat
        OBVIOUS
    <2>2. QED
        BY <2>1
<1>2. PICK x \in T : \A y \in T : x <= y
    <2> HIDE DEF T
    <2>1. QED
        BY <1>1, LeastNumber
<1>3. PICK m \in B : x = t - m
    BY <1>2
<1>4. \A b \in B : m >= b
    <2> SUFFICES ASSUME NEW b \in B PROVE m >= b
        OBVIOUS
    <2>1. t - m <= t - b
        BY <1>2, <1>3
    <2>2. QED
        BY <2>1
<1>5. QED
    BY <1>4 DEF Max

\* The boundary a tick claims: one of its schedules', and not in the future.
LEMMA PreviousIsPast ==
    ASSUME NEW S \in SUBSET Windows, NEW t \in Nat, Boundaries(S, t) # {}
    PROVE  Previous(S, t) \in Boundaries(S, t) /\ Previous(S, t) \in 1..t
<1>1. Boundaries(S, t) \subseteq 1..t
    BY ArmingAssumption DEF Boundaries
<1>2. Boundaries(S, t) \in SUBSET (0..t)
    BY <1>1
<1>3. QED
    BY <1>1, <1>2, LastInstant DEF Previous

LEMMA OutranksOrders ==
    /\ \A v \in Windows : ~Outranks(v, v)
    /\ \A u, v, w \in Windows : Outranks(u, v) /\ Outranks(v, w) => Outranks(u, w)
BY ArmingAssumption DEF Outranks

\* Of the windows there are, one is outranked by none: in a smallest set
\* without such a window, the one of all others but one, or that one.
LEMMA OneOutranks ==
    ASSUME NEW S \in SUBSET Windows, S # {}
    PROVE  \E w \in S : \A v \in S : ~Outranks(v, w)
<1> DEFINE Bad == {T \in SUBSET Windows : T # {} /\ \A w \in T : \E v \in T : Outranks(v, w)}
<1>1. Bad \subseteq FiniteSubsetsOf(Windows)
    BY FS_Subset, ArmingAssumption DEF FiniteSubsetsOf
<1>2. Bad = {}
    <2> SUFFICES ASSUME Bad # {} PROVE FALSE
        OBVIOUS
    <2>1. PICK T \in Bad : \A U \in Bad : ~(<<U, T>> \in StrictSubsetOrdering(Windows))
        <3> HIDE DEF Bad
        <3>1. QED
            BY <1>1, FS_StrictSubsetOrderingWellFounded, WFMin
    <2>2. PICK x \in T : TRUE
        OBVIOUS
    <2>3. PICK y \in T : Outranks(y, x)
        OBVIOUS
    <2> DEFINE U == T \ {x}
    <2>4. U \in SUBSET Windows /\ y \in U /\ <<U, T>> \in StrictSubsetOrdering(Windows)
        BY <2>2, <2>3, OutranksOrders DEF StrictSubsetOrdering
    <2>5. PICK m \in U : \A v \in U : ~Outranks(v, m)
        BY <2>1, <2>4
    <2>6. PICK v \in T : Outranks(v, m)
        OBVIOUS
    <2>7. v = x
        BY <2>5, <2>6
    <2>8. Outranks(y, m)
        BY <2>3, <2>6, <2>7, OutranksOrders
    <2>9. QED
        BY <2>4, <2>5, <2>8
<1>3. QED
    BY <1>2

\* What the schedules ask for is a mode.
LEMMA ResolveTyped ==
    ASSUME NEW S \in SUBSET Windows, NEW t \in Nat
    PROVE  Resolve(S, t) \in Modes
<1> DEFINE C == Covering(S, t)
           best == CHOOSE w \in C : \A v \in C : ~Outranks(v, w)
<1>1. C \in SUBSET Windows
    BY DEF Covering
<1>2. CASE C = {}
    BY <1>2, ArmingAssumption DEF Resolve
<1>3. CASE C # {}
    <2>1. \E w \in C : \A v \in C : ~Outranks(v, w)
        <3> HIDE DEF C
        <3>1. QED
            BY <1>1, <1>3, OneOutranks
    <2>2. best \in C
        BY <2>1
    <2>3. best.mode \in Modes
        BY <1>1, <2>2, ArmingAssumption
    <2>4. QED
        BY <1>3, <2>3 DEF Resolve
<1>4. QED
    BY <1>2, <1>3

-------------------------------------------------------------------------------
\* A tick that is over holds nothing any more.
LEMMA EndTickTyped ==
    ASSUME ArmingInv, NEW r \in Replicas, EndTick(r), UNCHANGED now
    PROVE  /\ pc' \in [Replicas -> {"idle", "schedules", "state", "claim"}]
           /\ at' \in [Replicas -> 0..now] /\ plan' \in [Replicas -> SUBSET Windows]
           /\ seen' \in [Replicas -> Modes] /\ TicksHaveBoundaries'
<1> USE ArmingAssumption
<1>1. now \in Nat /\ 0 \in 0..now
    BY DEF ArmingInv, TypeOK
<1>2. /\ pc' \in [Replicas -> {"idle", "schedules", "state", "claim"}]
      /\ at' \in [Replicas -> 0..now] /\ plan' \in [Replicas -> SUBSET Windows]
      /\ seen' \in [Replicas -> Modes]
    BY <1>1 DEF EndTick, ArmingInv, TypeOK
<1>3. pc'[r] = "idle" /\ \A s \in Replicas : s # r =>
            pc'[s] = pc[s] /\ plan'[s] = plan[s] /\ at'[s] = at[s]
    BY DEF EndTick, ArmingInv, TypeOK
<1>4. TicksHaveBoundaries'
    BY <1>3 DEF ArmingInv, TicksHaveBoundaries, Boundaries
<1>5. QED
    BY <1>2, <1>4

\* The claim: the boundary is past, later than the last one, and on record.
LEMMA WinTyped ==
    ASSUME ArmingInv, NEW r \in Replicas, pc[r] = "claim",
           last < Previous(plan[r], at[r]), Win(r, Previous(plan[r], at[r])), UNCHANGED now
    PROVE  /\ mode' \in Modes /\ byHand' \in BOOLEAN /\ last' \in 0..now /\ last < last'
           /\ audit' \in Seq([at : 1..now, from : Modes, to : Modes])
           /\ followed' \in BOOLEAN /\ AuditInOrder'
<1> DEFINE b == Previous(plan[r], at[r])
           to == Resolve(plan[r], b)
           entry == [at |-> b, from |-> seen[r], to |-> to]
           Entry == [at : 1..now, from : Modes, to : Modes]
<1>1. /\ now \in Nat /\ at[r] \in 0..now /\ plan[r] \in SUBSET Windows /\ seen[r] \in Modes
      /\ last \in 0..now /\ audit \in Seq(Entry)
    BY DEF ArmingInv, TypeOK
<1>2. b \in 1..now
    <2>1. Boundaries(plan[r], at[r]) # {} /\ at[r] \in Nat
        BY <1>1 DEF ArmingInv, TicksHaveBoundaries
    <2>2. b \in 1..at[r]
        BY <1>1, <2>1, PreviousIsPast
    <2> HIDE DEF b
    <2>3. QED
        BY <1>1, <2>2
<1>3. to \in Modes
    <2> HIDE DEF b
    <2>1. QED
        BY <1>1, <1>2, ResolveTyped
<1>4. /\ last < b /\ mode' = to /\ byHand' = FALSE /\ last' = b
      /\ audit' = IF seen[r] = to THEN audit ELSE Append(audit, entry)
      /\ followed' \in BOOLEAN
    BY DEF Win
<1> HIDE DEF b, to
<1>5. entry \in Entry
    BY <1>1, <1>2, <1>3
<1>6. audit' \in Seq(Entry)
    <2> HIDE DEF entry, Entry
    <2>1. QED
        BY <1>1, <1>4, <1>5
<1>7. AuditInOrder'
    <2>1. CASE seen[r] = to
        <3>1. audit' = audit
            BY <1>4, <2>1
        <3>2. \A i \in DOMAIN audit : audit[i].at \in Nat
            <4>1. \A i \in DOMAIN audit : audit[i] \in Entry
                <5> HIDE DEF Entry
                <5>1. QED
                    BY <1>1
            <4>2. QED
                BY <4>1
        <3>3. QED
            BY <1>1, <1>2, <1>4, <3>1, <3>2 DEF ArmingInv, AuditInOrder
    <2>2. CASE seen[r] # to
        <3>1. audit' = Append(audit, entry)
            BY <1>4, <2>2
        <3>2. /\ \A i \in DOMAIN audit : audit'[i] = audit[i] /\ audit[i] \in Entry
              /\ DOMAIN audit = 1..Len(audit) /\ DOMAIN audit' = 1..(Len(audit) + 1)
              /\ Len(audit) \in Nat
              /\ audit'[Len(audit) + 1] = entry
            <4> HIDE DEF entry, Entry
            <4>1. QED
                BY <1>1, <3>1
        <3>3. entry.at = b /\ entry.from = seen[r] /\ entry.to = to
            OBVIOUS
        <3>4. \A i \in DOMAIN audit : audit[i].at \in Nat
            BY <3>2
        <3>5. \A i \in DOMAIN audit : audit[i].at < b /\ audit[i].from # audit[i].to
            BY <1>1, <1>2, <1>4, <3>4 DEF ArmingInv, AuditInOrder
        <3>6. \A i \in DOMAIN audit' : i \in DOMAIN audit \/ i = Len(audit) + 1
            BY <3>2
        <3> HIDE DEF entry, Entry
        <3>7. \A i, j \in DOMAIN audit' : i < j => audit'[i].at < audit'[j].at
            BY <3>2, <3>3, <3>5, <3>6 DEF ArmingInv, AuditInOrder
        <3>8. \A i \in DOMAIN audit' : audit'[i].at <= last' /\ audit'[i].from # audit'[i].to
            BY <1>2, <1>4, <2>2, <3>2, <3>3, <3>4, <3>5, <3>6
        <3>9. QED
            BY <3>7, <3>8 DEF AuditInOrder
    <2>3. QED
        BY <2>1, <2>2
<1>8. last' \in 0..now /\ last < last'
    <2> HIDE DEF entry, Entry
    <2>1. QED
        BY <1>1, <1>2, <1>4
<1>9. QED
    BY <1>3, <1>4, <1>6, <1>7, <1>8, Zenon

\* The steps of a tick.
LEMMA ApplyDueStep ==
    ASSUME ArmingInv, NEW r \in Replicas, ApplyDue(r) \/ TickFails(r)
    PROVE  ArmingInv'
<1> USE ArmingAssumption
<1>1. CASE BeginTick(r)
    <2>1. TypeOK'
        BY <1>1 DEF BeginTick, ArmingInv, TypeOK, state
    <2>2. TicksHaveBoundaries'
        BY <1>1 DEF BeginTick, ArmingInv, TypeOK, TicksHaveBoundaries, Boundaries
    <2>3. AuditInOrder'
        BY <1>1 DEF BeginTick, ArmingInv, AuditInOrder, state
    <2>4. QED
        BY <2>1, <2>2, <2>3 DEF ArmingInv
<1>2. CASE EndTick(r) /\ UNCHANGED <<now, schedules, state, call, followed>>
           /\ (UNCHANGED mishaps \/ Mishap)
    <2>1. mishaps' \in 0..MaxMishaps
        BY <1>2 DEF Mishap, ArmingInv, TypeOK
    <2>2. QED
        BY <1>2, <2>1, EndTickTyped DEF ArmingInv, TypeOK, AuditInOrder, state
<1>3. CASE ReadSchedules(r) /\ Previous(schedules, at[r]) # 0
    <2>1. /\ pc' = [pc EXCEPT ![r] = "state"] /\ plan' = [plan EXCEPT ![r] = schedules]
          /\ UNCHANGED <<now, schedules, state, call, followed, mishaps, at, seen>>
        BY <1>3 DEF ReadSchedules
    <2>2. Boundaries(schedules, at[r]) # {}
        BY <1>3 DEF Previous
    <2>3. TypeOK'
        BY <2>1 DEF ArmingInv, TypeOK, state
    <2>4. TicksHaveBoundaries'
        <3>1. /\ plan'[r] = schedules /\ at' = at
              /\ \A s \in Replicas : s # r => plan'[s] = plan[s] /\ pc'[s] = pc[s]
            BY <2>1 DEF ArmingInv, TypeOK
        <3>2. QED
            BY <2>2, <3>1 DEF ArmingInv, TicksHaveBoundaries, Boundaries
    <2>5. QED
        BY <2>1, <2>3, <2>4 DEF ArmingInv, AuditInOrder, state
<1>4. CASE ReadState(r) /\ ~(last >= Previous(plan[r], at[r]))
    <2>1. /\ pc' = [pc EXCEPT ![r] = "claim"] /\ seen' = [seen EXCEPT ![r] = mode] /\ pc[r] = "state"
          /\ UNCHANGED <<now, schedules, state, call, followed, mishaps, at, plan>>
        BY <1>4 DEF ReadState
    <2>2. TypeOK'
        BY <2>1 DEF ArmingInv, TypeOK, state
    <2>3. TicksHaveBoundaries'
        BY <2>1 DEF ArmingInv, TypeOK, TicksHaveBoundaries
    <2>4. QED
        BY <2>1, <2>2, <2>3 DEF ArmingInv, AuditInOrder, state
<1>5. CASE Claim(r) /\ last < Previous(plan[r], at[r])
    <2>1. /\ pc[r] = "claim" /\ Win(r, Previous(plan[r], at[r])) /\ EndTick(r)
          /\ UNCHANGED <<now, schedules, call, mishaps>>
        BY <1>5 DEF Claim
    <2>2. QED
        BY <1>5, <2>1, WinTyped, EndTickTyped DEF ArmingInv, TypeOK
<1>6. CASE ReadSchedules(r) /\ Previous(schedules, at[r]) = 0
    BY <1>2, <1>6 DEF ReadSchedules
<1>7. CASE ReadState(r) /\ last >= Previous(plan[r], at[r])
    BY <1>2, <1>7 DEF ReadState
<1>8. CASE Claim(r) /\ ~(last < Previous(plan[r], at[r]))
    BY <1>2, <1>8 DEF Claim
<1>9. CASE TickFails(r)
    BY <1>2, <1>9 DEF TickFails
<1>10. QED
    BY <1>1, <1>3, <1>4, <1>5, <1>6, <1>7, <1>8, <1>9 DEF ApplyDue

\* What people do.
LEMMA CallersStep ==
    ASSUME ArmingInv,
           \/ CreateSchedule \/ DeleteSchedule \/ UpdateSchedule
           \/ \E c \in Callers : SetMode(c) \/ \E m \in Modes : Ask(c, m)
    PROVE  ArmingInv'
<1> USE ArmingAssumption
<1>1. UNCHANGED <<now, audit, last, tick>>
    BY DEF CreateSchedule, DeleteSchedule, UpdateSchedule, Edit, SetMode, Ask, state
<1>2. AuditInOrder' /\ TicksHaveBoundaries'
    BY <1>1 DEF ArmingInv, AuditInOrder, TicksHaveBoundaries, tick
<1>3. ASSUME Mishap PROVE mishaps' \in 0..MaxMishaps
    BY <1>3 DEF Mishap, ArmingInv, TypeOK
<1>4. CASE \E c \in Callers : SetMode(c)
    <2> PICK c \in Callers : SetMode(c)
        BY <1>4
    <2>1. call[c].asked \in Modes /\ mode' \in Modes /\ byHand' \in BOOLEAN
        BY DEF SetMode, ArmingInv, TypeOK
    <2>2. call' \in [Callers -> [asked : Modes, mode : Modes, byHand : BOOLEAN, open : BOOLEAN]]
        BY DEF SetMode, None, ArmingInv, TypeOK
    <2>3. QED
        BY <1>1, <1>2, <2>1, <2>2 DEF SetMode, ArmingInv, TypeOK, tick
<1>5. CASE \E c \in Callers, m \in Modes : Ask(c, m)
    <2> PICK c \in Callers, m \in Modes : Ask(c, m)
        BY <1>5
    <2>1. call' \in [Callers -> [asked : Modes, mode : Modes, byHand : BOOLEAN, open : BOOLEAN]]
        BY DEF Ask, ArmingInv, TypeOK
    <2>2. mishaps' \in 0..MaxMishaps
        BY <1>3 DEF Ask
    <2>3. QED
        BY <1>1, <1>2, <2>1, <2>2 DEF Ask, ArmingInv, TypeOK, tick, state
<1>6. CASE CreateSchedule \/ DeleteSchedule \/ UpdateSchedule
    <2>1. PICK S : Edit(S) /\ S \subseteq Windows
        <3>1. schedules \subseteq Windows
            BY DEF ArmingInv, TypeOK
        <3>2. CASE CreateSchedule
            BY <3>1, <3>2 DEF CreateSchedule
        <3>3. CASE DeleteSchedule
            BY <3>1, <3>3 DEF DeleteSchedule
        <3>4. CASE UpdateSchedule
            BY <3>1, <3>4 DEF UpdateSchedule
        <3>5. QED
            BY <1>6, <3>2, <3>3, <3>4
    <2>2. mishaps' \in 0..MaxMishaps
        BY <1>3, <2>1 DEF Edit
    <2>3. QED
        BY <1>1, <1>2, <2>1, <2>2 DEF Edit, ArmingInv, TypeOK, tick, state
<1>7. QED
    BY <1>4, <1>5, <1>6

LEMMA TickStep ==
    ASSUME ArmingInv, Tick
    PROVE  ArmingInv'
<1> USE ArmingAssumption
<1> DEFINE Old == [at : 1..now, from : Modes, to : Modes]
           New == [at : 1..now', from : Modes, to : Modes]
<1>1. now \in Nat /\ now' \in 0..MaxTime /\ 0..now \subseteq 0..now' /\ 1..now \subseteq 1..now'
    BY DEF Tick, ArmingInv, TypeOK
<1>2. Old \subseteq New /\ audit \in Seq(Old)
    BY <1>1 DEF ArmingInv, TypeOK
<1>3. audit \in Seq(New)
    <2> HIDE DEF Old, New
    <2>1. QED
        BY <1>2
<1>4. UNCHANGED <<schedules, state, tick, call, followed, mishaps>>
    BY DEF Tick
<1>5. last \in 0..now' /\ at \in [Replicas -> 0..now']
    BY <1>1 DEF ArmingInv, TypeOK
<1>6. TypeOK'
    BY <1>1, <1>3, <1>4, <1>5 DEF ArmingInv, TypeOK, state, tick
<1>7. QED
    BY <1>4, <1>6 DEF ArmingInv, AuditInOrder, TicksHaveBoundaries, state, tick

\* The invariant: types, and what a claim leaves behind.
LEMMA ArmingInvariant == Spec => []ArmingInv
<1>1. Init => ArmingInv
    <2> SUFFICES ASSUME Init PROVE ArmingInv
        OBVIOUS
    <2>1. TypeOK
        <3>1. audit \in Seq([at : 1..now, from : Modes, to : Modes])
            BY DEF Init
        <3>2. /\ now \in 0..MaxTime /\ last \in 0..now /\ mishaps \in 0..MaxMishaps
              /\ at \in [Replicas -> 0..now] /\ mode \in Modes /\ seen \in [Replicas -> Modes]
            BY ArmingAssumption DEF Init
        <3>3. call \in [Callers -> [asked : Modes, mode : Modes, byHand : BOOLEAN, open : BOOLEAN]]
            BY ArmingAssumption DEF Init, None
        <3>4. QED
            BY <3>1, <3>2, <3>3 DEF Init, TypeOK
    <2>2. QED
        BY <2>1 DEF Init, ArmingInv, TicksHaveBoundaries, AuditInOrder
<1>2. ArmingInv /\ [Next]_vars => ArmingInv'
    <2>1. ArmingInv /\ UNCHANGED vars => ArmingInv'
        BY DEF ArmingInv, TypeOK, TicksHaveBoundaries, AuditInOrder, vars, state, tick
    <2>2. QED
        BY <2>1, ApplyDueStep, CallersStep, TickStep DEF Next
<1>3. QED
    BY <1>1, <1>2, PTL DEF Spec

\* The state keeps its types: no boundary of the future is ever claimed, and
\* the schedules always ask for a mode (apply_due_transition, resolve).
THEOREM ArmingIsTyped == Spec => []TypeOK
<1>1. ArmingInv => TypeOK
    BY DEF ArmingInv
<1>2. QED
    BY <1>1, ArmingInvariant, PTL

\* Each boundary is audited once and in order, whichever replica claims it
\* (the conditional UPDATE of apply_due_transition).
THEOREM AuditIsInOrder == Spec => []AuditInOrder
<1>1. ArmingInv => AuditInOrder
    BY DEF ArmingInv
<1>2. QED
    BY <1>1, ArmingInvariant, PTL

\* A mode set by hand gives way only to a boundary later than the last one
\* applied, and nothing else is audited (the conditional UPDATE of
\* apply_due_transition).
THEOREM OverridesStand == Spec => OverrideStands
<1>1. [Next]_vars => ((byHand /\ ~byHand') \/ audit' # audit => last' > last)
    <2> SUFFICES ASSUME [Next]_vars, (byHand /\ ~byHand') \/ audit' # audit PROVE last' > last
        OBVIOUS
    <2>1. CASE \E r \in Replicas : Claim(r)
        BY <2>1 DEF Claim, Win, state
    <2>2. CASE UNCHANGED <<byHand, audit>>
        BY <2>2
    <2>3. CASE \E c \in Callers : SetMode(c)
        BY <2>3 DEF SetMode
    <2>4. QED
        BY <2>1, <2>2, <2>3 DEF Next, ApplyDue, BeginTick, ReadSchedules, ReadState, TickFails, Tick,
            CreateSchedule, DeleteSchedule, UpdateSchedule, Edit, Ask, vars, state
<1>2. QED
    BY <1>1, PTL DEF Spec, OverrideStands
================================================================================
