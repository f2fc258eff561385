------------------------- MODULE IngestionLeaseProofs --------------------------
(***************************************************************************)
(* Proofs about IngestionLease, for every set of replicas, every TTL and   *)
(* every bound. An invariant is proved action by action; the parts of the  *)
(* induction are stated below under the hypotheses on Faults they need.    *)
(***************************************************************************)
EXTENDS IngestionLease, TLAPS

\* What is inside a fenced transaction owns the row lock and the lease row
\* still carries its token: nobody takes the lease over in the middle.
TxHoldsLease ==
    \A r \in Replicas :
        pc[r] \in TxPCs => lock = r /\ holder = r /\ epoch = token[r]

\* A belief, or a claim whose reply is still to come, that is not yet TTL old
\* agrees with the row, and the row has at least the rest of that TTL to live:
\* the database clock started no earlier.
BeliefOutlived ==
    \A r \in Replicas :
        /\ Held(r) =>
             holder = r /\ epoch = heldEpoch[r] /\ heldAge[r] + left >= TTL
        /\ pc[r] = "reply" /\ claimAge[r] < TTL =>
             holder = r /\ epoch = token[r] /\ claimAge[r] + left >= TTL

LeaseInv == TypeOK /\ TxHoldsLease /\ BeliefOutlived

\* Without a clean shutdown no row is deleted, so epochs only grow.
EpochsOnlyGrow ==
    /\ holder = NoReplica => epoch = 0
    /\ \A r \in Replicas :
          heldEpoch[r] <= epoch /\ (pc[r] = "reply" => token[r] <= epoch)

\* A frame runs under the epoch its replica remembers.
FramePCs == PCs \ {"down", "idle", "claim", "insert", "reply", "stopping", "reset"}
FrameToken ==
    \A r \in Replicas : pc[r] \in FramePCs => token[r] = heldEpoch[r]

\* A scene cached under the epoch of the row is the stored one: the holder
\* loaded it under this epoch, or has itself written every version since.
HolderIsCurrent ==
    \A r \in Replicas :
        /\ copy[r] <= version
        /\ pc[r] \in {"save", "saveTx", "noteTx"} => copy[r] # 0
        /\ copy[r] # 0 /\ holder = r /\ heldEpoch[r] = epoch => copy[r] = version

NoReset == \A r \in Replicas : pc[r] # "reset"
NoStop  == \A r \in Replicas : pc[r] # "stopping"

WriterInv ==
    LeaseInv /\ NoReset /\ NoStop /\ EpochsOnlyGrow /\ FrameToken /\ HolderIsCurrent

\* Every step of the code keeps every variable in its type.
LEMMA TypeStep ==
    ASSUME TypeOK, [Next]_vars
    PROVE  TypeOK'
<1> USE LeaseAssumption DEF TypeOK, PCs, TxPCs, vars, row, keeper
<1>1. CASE \E r \in Replicas : EnsureCached(r)
    BY <1>1 DEF EnsureCached, Goto
<1>2. CASE \E r \in Replicas : BeginClaim(r)
    BY <1>2 DEF BeginClaim, Goto
<1>3. CASE \E r \in Replicas : Renew(r)
    BY <1>3 DEF Renew, Won, Goto
<1>4. CASE \E r \in Replicas : TakeOver(r)
    BY <1>4 DEF TakeOver, Won, Goto
<1>5. CASE \E r \in Replicas : FindNoRow(r)
    BY <1>5 DEF FindNoRow, Goto
<1>6. CASE \E r \in Replicas : Insert(r)
    BY <1>6 DEF Insert, Won, Goto
<1>7. CASE \E r \in Replicas : Led(r)
    BY <1>7 DEF Led, ClaimOver, Goto
<1>8. CASE \E r \in Replicas : Refused(r)
    BY <1>8 DEF Refused, StandBy, ClaimOver, Goto
<1>9. CASE \E r \in Replicas : SkipFrame(r)
    BY <1>9 DEF SkipFrame, EndFrame, Goto
<1>10. CASE \E r \in Replicas : DetectFrame(r)
    BY <1>10 DEF DetectFrame, Held, Goto
<1>11. CASE \E r \in Replicas : SubjectFence(r)
    BY <1>11 DEF SubjectFence, Fence, FenceOK, Goto
<1>12. CASE \E r \in Replicas : SubjectLost(r)
    BY <1>12 DEF SubjectLost, FenceLost, Goto
<1>13. CASE \E r \in Replicas : SubjectsDone(r)
    BY <1>13 DEF SubjectsDone, Goto
<1>14. CASE \E r \in Replicas : SubjectCommit(r)
    BY <1>14 DEF SubjectCommit, Unlock, Goto
<1>15. CASE \E r \in Replicas : LoadScene(r)
    BY <1>15 DEF LoadScene, Goto
<1>16. CASE \E r \in Replicas : SaveFence(r)
    BY <1>16 DEF SaveFence, Fence, FenceOK, Goto
<1>17. CASE \E r \in Replicas : SaveLost(r)
    BY <1>17 DEF SaveLost, FenceLost, Forget, EndFrame, Goto
<1>18. CASE \E r \in Replicas : SaveCommit(r)
    BY <1>18 DEF SaveCommit, Store, Unlock, EndFrame, Goto
<1>19. CASE \E r \in Replicas : ResetCamera(r)
    BY <1>19 DEF ResetCamera, Goto
<1>20. CASE \E r \in Replicas : EmitFence(r)
    BY <1>20 DEF EmitFence, Fence, FenceOK, Goto
<1>21. CASE \E r \in Replicas : EmitLost(r)
    BY <1>21 DEF EmitLost, FenceLost, EndFrame, Goto
<1>22. CASE \E r \in Replicas : EventCommit(r)
    BY <1>22 DEF EventCommit, Unlock, Goto
<1>23. CASE \E r \in Replicas : NoteNothing(r)
    BY <1>23 DEF NoteNothing, EndFrame, Goto
<1>24. CASE \E r \in Replicas : NoteFence(r)
    BY <1>24 DEF NoteFence, Fence, FenceOK, Goto
<1>25. CASE \E r \in Replicas : NoteLost(r)
    BY <1>25 DEF NoteLost, FenceLost, Forget, EndFrame, Goto
<1>26. CASE \E r \in Replicas : NoteCommit(r)
    BY <1>26 DEF NoteCommit, Store, Unlock, EndFrame, Goto
<1>27. CASE \E r \in Replicas : ReleaseAll(r)
    BY <1>27 DEF ReleaseAll, GoDown, ClaimOver, Forget, EndFrame, Goto
<1>28. CASE \E r \in Replicas : ClaimError(r)
    BY <1>28 DEF ClaimError, NotTold, ClaimOver, Held, Goto
<1>29. CASE \E r \in Replicas : TxAbort(r)
    BY <1>29 DEF TxAbort, Unlock, EndFrame, Goto
<1>30. CASE \E r \in Replicas : SceneFault(r)
    BY <1>30 DEF SceneFault, Unlock, Forget, EndFrame, Goto
<1>31. CASE \E r \in Replicas : CancelTask(r)
    BY <1>31 DEF CancelTask, Unlock, ClaimOver, EndFrame, Goto
<1>32. CASE \E r \in Replicas : Crash(r)
    BY <1>32 DEF Crash, Unlock, GoDown, ClaimOver, Forget, EndFrame, Goto
<1>33. CASE \E r \in Replicas : Restart(r)
    BY <1>33 DEF Restart, Goto
<1>34. CASE Tick
    BY <1>34 DEF Tick, Later
<1>35. CASE UNCHANGED vars
    BY <1>35
<1>36. QED
    BY <1>1, <1>2, <1>3, <1>4, <1>5, <1>6, <1>7, <1>8, <1>9, <1>10, <1>11,
       <1>12, <1>13, <1>14, <1>15, <1>16, <1>17, <1>18, <1>19, <1>20,
       <1>21, <1>22, <1>23, <1>24, <1>25, <1>26, <1>27, <1>28, <1>29,
       <1>30, <1>31, <1>32, <1>33, <1>34, <1>35
    DEF Next, Lease, Frame, Fault

\* Type correctness of the lease row, the keepers and the frame pipeline.
THEOREM TypeCorrect == Spec => []TypeOK
<1>1. Init => TypeOK
    BY LeaseAssumption DEF Init, TypeOK, PCs
<1>2. TypeOK /\ [Next]_vars => TypeOK'
    BY TypeStep
<1>3. QED
    BY <1>1, <1>2, PTL DEF Spec

\* While a fenced transaction is open the row lock keeps the lease row as it
\* was when the fence matched; every way out of the transaction releases it.
LEMMA TxStep ==
    ASSUME TypeOK, TxHoldsLease, [Next]_vars
    PROVE  TxHoldsLease'
<1> USE LeaseAssumption DEF TypeOK, TxHoldsLease, TxPCs, FenceOK, vars, row, keeper
<1>1. CASE \E r \in Replicas : EnsureCached(r)
    BY <1>1 DEF EnsureCached, Goto
<1>2. CASE \E r \in Replicas : BeginClaim(r)
    BY <1>2 DEF BeginClaim, Goto
<1>3. CASE \E r \in Replicas : Renew(r)
    BY <1>3 DEF Renew, Won, Goto
<1>4. CASE \E r \in Replicas : TakeOver(r)
    BY <1>4 DEF TakeOver, Won, Goto
<1>5. CASE \E r \in Replicas : FindNoRow(r)
    BY <1>5 DEF FindNoRow, Goto
<1>6. CASE \E r \in Replicas : Insert(r)
    BY <1>6 DEF Insert, Won, Goto
<1>7. CASE \E r \in Replicas : Led(r)
    BY <1>7 DEF Led, ClaimOver, Goto
<1>8. CASE \E r \in Replicas : Refused(r)
    BY <1>8 DEF Refused, StandBy, ClaimOver, Goto
<1>9. CASE \E r \in Replicas : SkipFrame(r)
    BY <1>9 DEF SkipFrame, EndFrame, Goto
<1>10. CASE \E r \in Replicas : DetectFrame(r)
    BY <1>10 DEF DetectFrame, Held, Goto
<1>11. CASE \E r \in Replicas : SubjectFence(r)
    BY <1>11 DEF SubjectFence, Fence, FenceOK, Goto
<1>12. CASE \E r \in Replicas : SubjectLost(r)
    BY <1>12 DEF SubjectLost, FenceLost, Goto
<1>13. CASE \E r \in Replicas : SubjectsDone(r)
    BY <1>13 DEF SubjectsDone, Goto
<1>14. CASE \E r \in Replicas : SubjectCommit(r)
    BY <1>14 DEF SubjectCommit, Unlock, Goto
<1>15. CASE \E r \in Replicas : LoadScene(r)
    BY <1>15 DEF LoadScene, Goto
<1>16. CASE \E r \in Replicas : SaveFence(r)
    BY <1>16 DEF SaveFence, Fence, FenceOK, Goto
<1>17. CASE \E r \in Replicas : SaveLost(r)
    BY <1>17 DEF SaveLost, FenceLost, Forget, EndFrame, Goto
<1>18. CASE \E r \in Replicas : SaveCommit(r)
    BY <1>18 DEF SaveCommit, Store, Unlock, EndFrame, Goto
<1>19. CASE \E r \in Replicas : ResetCamera(r)
    BY <1>19 DEF ResetCamera, Goto
<1>20. CASE \E r \in Replicas : EmitFence(r)
    BY <1>20 DEF EmitFence, Fence, FenceOK, Goto
<1>21. CASE \E r \in Replicas : EmitLost(r)
    BY <1>21 DEF EmitLost, FenceLost, EndFrame, Goto
<1>22. CASE \E r \in Replicas : EventCommit(r)
    BY <1>22 DEF EventCommit, Unlock, Goto
<1>23. CASE \E r \in Replicas : NoteNothing(r)
    BY <1>23 DEF NoteNothing, EndFrame, Goto
<1>24. CASE \E r \in Replicas : NoteFence(r)
    BY <1>24 DEF NoteFence, Fence, FenceOK, Goto
<1>25. CASE \E r \in Replicas : NoteLost(r)
    BY <1>25 DEF NoteLost, FenceLost, Forget, EndFrame, Goto
<1>26. CASE \E r \in Replicas : NoteCommit(r)
    BY <1>26 DEF NoteCommit, Store, Unlock, EndFrame, Goto
<1>27. CASE \E r \in Replicas : ReleaseAll(r)
    BY <1>27 DEF ReleaseAll, GoDown, ClaimOver, Forget, EndFrame, Goto
<1>28. CASE \E r \in Replicas : ClaimError(r)
    BY <1>28 DEF ClaimError, NotTold, ClaimOver, Held, Goto
<1>29. CASE \E r \in Replicas : TxAbort(r)
    BY <1>29 DEF TxAbort, Unlock, EndFrame, Goto
<1>30. CASE \E r \in Replicas : SceneFault(r)
    BY <1>30 DEF SceneFault, Unlock, Forget, EndFrame, Goto
<1>31. CASE \E r \in Replicas : CancelTask(r)
    BY <1>31 DEF CancelTask, Unlock, ClaimOver, EndFrame, Goto
<1>32. CASE \E r \in Replicas : Crash(r)
    BY <1>32 DEF Crash, Unlock, GoDown, ClaimOver, Forget, EndFrame, Goto
<1>33. CASE \E r \in Replicas : Restart(r)
    BY <1>33 DEF Restart, Goto
<1>34. CASE Tick
    BY <1>34 DEF Tick, Later
<1>35. CASE UNCHANGED vars
    BY <1>35
<1>36. QED
    BY <1>1, <1>2, <1>3, <1>4, <1>5, <1>6, <1>7, <1>8, <1>9, <1>10, <1>11,
       <1>12, <1>13, <1>14, <1>15, <1>16, <1>17, <1>18, <1>19, <1>20,
       <1>21, <1>22, <1>23, <1>24, <1>25, <1>26, <1>27, <1>28, <1>29,
       <1>30, <1>31, <1>32, <1>33, <1>34, <1>35
    DEF Next, Lease, Frame, Fault

\* The row is only given away once it has expired, and by then no belief in
\* it is younger than TTL.
LEMMA BeliefStep ==
    ASSUME TypeOK, BeliefOutlived, [Next]_vars
    PROVE  BeliefOutlived'
<1> USE LeaseAssumption DEF TypeOK, BeliefOutlived, Held, vars, row, keeper
<1>1. CASE \E r \in Replicas : EnsureCached(r)
    BY <1>1 DEF EnsureCached, Goto
<1>2. CASE \E r \in Replicas : BeginClaim(r)
    BY <1>2 DEF BeginClaim, Goto
<1>3. CASE \E r \in Replicas : Renew(r)
    BY <1>3 DEF Renew, Won, Goto
<1>4. CASE \E r \in Replicas : TakeOver(r)
    BY <1>4 DEF TakeOver, Won, Goto
<1>5. CASE \E r \in Replicas : FindNoRow(r)
    BY <1>5 DEF FindNoRow, Goto
<1>6. CASE \E r \in Replicas : Insert(r)
    BY <1>6 DEF Insert, Won, Goto
<1>7. CASE \E r \in Replicas : Led(r)
    BY <1>7 DEF Led, ClaimOver, Goto
<1>8. CASE \E r \in Replicas : Refused(r)
    BY <1>8 DEF Refused, StandBy, ClaimOver, Goto
<1>9. CASE \E r \in Replicas : SkipFrame(r)
    BY <1>9 DEF SkipFrame, EndFrame, Goto
<1>10. CASE \E r \in Replicas : DetectFrame(r)
    BY <1>10 DEF DetectFrame, Held, Goto
<1>11. CASE \E r \in Replicas : SubjectFence(r)
    BY <1>11 DEF SubjectFence, Fence, FenceOK, Goto
<1>12. CASE \E r \in Replicas : SubjectLost(r)
    BY <1>12 DEF SubjectLost, FenceLost, Goto
<1>13. CASE \E r \in Replicas : SubjectsDone(r)
    BY <1>13 DEF SubjectsDone, Goto
<1>14. CASE \E r \in Replicas : SubjectCommit(r)
    BY <1>14 DEF SubjectCommit, Unlock, Goto
<1>15. CASE \E r \in Replicas : LoadScene(r)
    BY <1>15 DEF LoadScene, Goto
<1>16. CASE \E r \in Replicas : SaveFence(r)
    BY <1>16 DEF SaveFence, Fence, FenceOK, Goto
<1>17. CASE \E r \in Replicas : SaveLost(r)
    BY <1>17 DEF SaveLost, FenceLost, Forget, EndFrame, Goto
<1>18. CASE \E r \in Replicas : SaveCommit(r)
    BY <1>18 DEF SaveCommit, Store, Unlock, EndFrame, Goto
<1>19. CASE \E r \in Replicas : ResetCamera(r)
    BY <1>19 DEF ResetCamera, Goto
<1>20. CASE \E r \in Replicas : EmitFence(r)
    BY <1>20 DEF EmitFence, Fence, FenceOK, Goto
<1>21. CASE \E r \in Replicas : EmitLost(r)
    BY <1>21 DEF EmitLost, FenceLost, EndFrame, Goto
<1>22. CASE \E r \in Replicas : EventCommit(r)
    BY <1>22 DEF EventCommit, Unlock, Goto
<1>23. CASE \E r \in Replicas : NoteNothing(r)
    BY <1>23 DEF NoteNothing, EndFrame, Goto
<1>24. CASE \E r \in Replicas : NoteFence(r)
    BY <1>24 DEF NoteFence, Fence, FenceOK, Goto
<1>25. CASE \E r \in Replicas : NoteLost(r)
    BY <1>25 DEF NoteLost, FenceLost, Forget, EndFrame, Goto
<1>26. CASE \E r \in Replicas : NoteCommit(r)
    BY <1>26 DEF NoteCommit, Store, Unlock, EndFrame, Goto
<1>27. CASE \E r \in Replicas : ReleaseAll(r)
    BY <1>27 DEF ReleaseAll, GoDown, ClaimOver, Forget, EndFrame, Goto
<1>28. CASE \E r \in Replicas : ClaimError(r)
    BY <1>28 DEF ClaimError, NotTold, ClaimOver, Held, Goto
<1>29. CASE \E r \in Replicas : TxAbort(r)
    BY <1>29 DEF TxAbort, Unlock, EndFrame, Goto
<1>30. CASE \E r \in Replicas : SceneFault(r)
    BY <1>30 DEF SceneFault, Unlock, Forget, EndFrame, Goto
<1>31. CASE \E r \in Replicas : CancelTask(r)
    BY <1>31 DEF CancelTask, Unlock, ClaimOver, EndFrame, Goto
<1>32. CASE \E r \in Replicas : Crash(r)
    BY <1>32 DEF Crash, Unlock, GoDown, ClaimOver, Forget, EndFrame, Goto
<1>33. CASE \E r \in Replicas : Restart(r)
    BY <1>33 DEF Restart, Goto
<1>34. CASE Tick
    BY <1>34 DEF Tick, Later
<1>35. CASE UNCHANGED vars
    BY <1>35
<1>36. QED
    BY <1>1, <1>2, <1>3, <1>4, <1>5, <1>6, <1>7, <1>8, <1>9, <1>10, <1>11,
       <1>12, <1>13, <1>14, <1>15, <1>16, <1>17, <1>18, <1>19, <1>20,
       <1>21, <1>22, <1>23, <1>24, <1>25, <1>26, <1>27, <1>28, <1>29,
       <1>30, <1>31, <1>32, <1>33, <1>34, <1>35
    DEF Next, Lease, Frame, Fault

\* The three parts together are inductive, whatever the environment does.
THEOREM LeaseInvHolds == Spec => []LeaseInv
<1>1. Init => LeaseInv
    BY LeaseAssumption
    DEF Init, LeaseInv, TypeOK, PCs, TxHoldsLease, TxPCs, BeliefOutlived, Held
<1>2. LeaseInv /\ [Next]_vars => LeaseInv'
    BY TypeStep, TxStep, BeliefStep DEF LeaseInv
<1>3. QED
    BY <1>1, <1>2, PTL DEF Spec

\* A replica that believes it holds the camera does hold it in the database
\* (LeaseKeeper.held), under crashes, shutdowns, database and scene errors.
THEOREM BeliefIsSound == Spec => []BeliefIsHeld
<1>1. LeaseInv => BeliefIsHeld
    <2> SUFFICES ASSUME LeaseInv, NEW r \in Replicas, Held(r)
                 PROVE  holder = r /\ epoch = heldEpoch[r] /\ left > 0
        BY DEF BeliefIsHeld
    <2>1. holder = r /\ epoch = heldEpoch[r] /\ heldAge[r] + left >= TTL
        BY DEF LeaseInv, BeliefOutlived
    <2>2. heldAge[r] < TTL /\ heldAge[r] \in 0..TTL /\ left \in 0..TTL
        BY DEF Held, LeaseInv, TypeOK
    <2>3. QED
        BY <2>1, <2>2, LeaseAssumption
<1>2. QED
    BY <1>1, LeaseInvHolds, PTL

\* Only a scene fault leads to a reset.
LEMMA NoResetStep ==
    ASSUME TypeOK, NoReset, "scene" \notin Faults, [Next]_vars
    PROVE  NoReset'
<1> USE LeaseAssumption DEF TypeOK, NoReset, vars, row, keeper
<1>1. CASE \E r \in Replicas : EnsureCached(r)
    BY <1>1 DEF EnsureCached, Goto
<1>2. CASE \E r \in Replicas : BeginClaim(r)
    BY <1>2 DEF BeginClaim, Goto
<1>3. CASE \E r \in Replicas : Renew(r)
    BY <1>3 DEF Renew, Won, Goto
<1>4. CASE \E r \in Replicas : TakeOver(r)
    BY <1>4 DEF TakeOver, Won, Goto
<1>5. CASE \E r \in Replicas : FindNoRow(r)
    BY <1>5 DEF FindNoRow, Goto
<1>6. CASE \E r \in Replicas : Insert(r)
    BY <1>6 DEF Insert, Won, Goto
<1>7. CASE \E r \in Replicas : Led(r)
    BY <1>7 DEF Led, ClaimOver, Goto
<1>8. CASE \E r \in Replicas : Refused(r)
    BY <1>8 DEF Refused, StandBy, ClaimOver, Goto
<1>9. CASE \E r \in Replicas : SkipFrame(r)
    BY <1>9 DEF SkipFrame, EndFrame, Goto
<1>10. CASE \E r \in Replicas : DetectFrame(r)
    BY <1>10 DEF DetectFrame, Held, Goto
<1>11. CASE \E r \in Replicas : SubjectFence(r)
    BY <1>11 DEF SubjectFence, Fence, FenceOK, Goto
<1>12. CASE \E r \in Replicas : SubjectLost(r)
    BY <1>12 DEF SubjectLost, FenceLost, Goto
<1>13. CASE \E r \in Replicas : SubjectsDone(r)
    BY <1>13 DEF SubjectsDone, Goto
<1>14. CASE \E r \in Replicas : SubjectCommit(r)
    BY <1>14 DEF SubjectCommit, Unlock, Goto
<1>15. CASE \E r \in Replicas : LoadScene(r)
    BY <1>15 DEF LoadScene, Goto
<1>16. CASE \E r \in Replicas : SaveFence(r)
    BY <1>16 DEF SaveFence, Fence, FenceOK, Goto
<1>17. CASE \E r \in Replicas : SaveLost(r)
    BY <1>17 DEF SaveLost, FenceLost, Forget, EndFrame, Goto
<1>18. CASE \E r \in Replicas : SaveCommit(r)
    BY <1>18 DEF SaveCommit, Store, Unlock, EndFrame, Goto
<1>19. CASE \E r \in Replicas : ResetCamera(r)
    BY <1>19 DEF ResetCamera, Goto
<1>20. CASE \E r \in Replicas : EmitFence(r)
    BY <1>20 DEF EmitFence, Fence, FenceOK, Goto
<1>21. CASE \E r \in Replicas : EmitLost(r)
    BY <1>21 DEF EmitLost, FenceLost, EndFrame, Goto
<1>22. CASE \E r \in Replicas : EventCommit(r)
    BY <1>22 DEF EventCommit, Unlock, Goto
<1>23. CASE \E r \in Replicas : NoteNothing(r)
    BY <1>23 DEF NoteNothing, EndFrame, Goto
<1>24. CASE \E r \in Replicas : NoteFence(r)
    BY <1>24 DEF NoteFence, Fence, FenceOK, Goto
<1>25. CASE \E r \in Replicas : NoteLost(r)
    BY <1>25 DEF NoteLost, FenceLost, Forget, EndFrame, Goto
<1>26. CASE \E r \in Replicas : NoteCommit(r)
    BY <1>26 DEF NoteCommit, Store, Unlock, EndFrame, Goto
<1>27. CASE \E r \in Replicas : ReleaseAll(r)
    BY <1>27 DEF ReleaseAll, GoDown, ClaimOver, Forget, EndFrame, Goto
<1>28. CASE \E r \in Replicas : ClaimError(r)
    BY <1>28 DEF ClaimError, NotTold, ClaimOver, Held, Goto
<1>29. CASE \E r \in Replicas : TxAbort(r)
    BY <1>29 DEF TxAbort, Unlock, EndFrame, Goto
<1>30. CASE \E r \in Replicas : SceneFault(r)
    BY <1>30 DEF SceneFault, Unlock, Forget, EndFrame, Goto
<1>31. CASE \E r \in Replicas : CancelTask(r)
    BY <1>31 DEF CancelTask, Unlock, ClaimOver, EndFrame, Goto
<1>32. CASE \E r \in Replicas : Crash(r)
    BY <1>32 DEF Crash, Unlock, GoDown, ClaimOver, Forget, EndFrame, Goto
<1>33. CASE \E r \in Replicas : Restart(r)
    BY <1>33 DEF Restart, Goto
<1>34. CASE Tick
    BY <1>34 DEF Tick, Later
<1>35. CASE UNCHANGED vars
    BY <1>35
<1>36. QED
    BY <1>1, <1>2, <1>3, <1>4, <1>5, <1>6, <1>7, <1>8, <1>9, <1>10, <1>11,
       <1>12, <1>13, <1>14, <1>15, <1>16, <1>17, <1>18, <1>19, <1>20,
       <1>21, <1>22, <1>23, <1>24, <1>25, <1>26, <1>27, <1>28, <1>29,
       <1>30, <1>31, <1>32, <1>33, <1>34, <1>35
    DEF Next, Lease, Frame, Fault

\* Only a clean shutdown cancels the ingestion task.
LEMMA NoStopStep ==
    ASSUME TypeOK, NoStop, "stop" \notin Faults, [Next]_vars
    PROVE  NoStop'
<1> USE LeaseAssumption DEF TypeOK, NoStop, vars, row, keeper
<1>1. CASE \E r \in Replicas : EnsureCached(r)
    BY <1>1 DEF EnsureCached, Goto
<1>2. CASE \E r \in Replicas : BeginClaim(r)
    BY <1>2 DEF BeginClaim, Goto
<1>3. CASE \E r \in Replicas : Renew(r)
    BY <1>3 DEF Renew, Won, Goto
<1>4. CASE \E r \in Replicas : TakeOver(r)
    BY <1>4 DEF TakeOver, Won, Goto
<1>5. CASE \E r \in Replicas : FindNoRow(r)
    BY <1>5 DEF FindNoRow, Goto
<1>6. CASE \E r \in Replicas : Insert(r)
    BY <1>6 DEF Insert, Won, Goto
<1>7. CASE \E r \in Replicas : Led(r)
    BY <1>7 DEF Led, ClaimOver, Goto
<1>8. CASE \E r \in Replicas : Refused(r)
    BY <1>8 DEF Refused, StandBy, ClaimOver, Goto
<1>9. CASE \E r \in Replicas : SkipFrame(r)
    BY <1>9 DEF SkipFrame, EndFrame, Goto
<1>10. CASE \E r \in Replicas : DetectFrame(r)
    BY <1>10 DEF DetectFrame, Held, Goto
<1>11. CASE \E r \in Replicas : SubjectFence(r)
    BY <1>11 DEF SubjectFence, Fence, FenceOK, Goto
<1>12. CASE \E r \in Replicas : SubjectLost(r)
    BY <1>12 DEF SubjectLost, FenceLost, Goto
<1>13. CASE \E r \in Replicas : SubjectsDone(r)
    BY <1>13 DEF SubjectsDone, Goto
<1>14. CASE \E r \in Replicas : SubjectCommit(r)
    BY <1>14 DEF SubjectCommit, Unlock, Goto
<1>15. CASE \E r \in Replicas : LoadScene(r)
    BY <1>15 DEF LoadScene, Goto
<1>16. CASE \E r \in Replicas : SaveFence(r)
    BY <1>16 DEF SaveFence, Fence, FenceOK, Goto
<1>17. CASE \E r \in Replicas : SaveLost(r)
    BY <1>17 DEF SaveLost, FenceLost, Forget, EndFrame, Goto
<1>18. CASE \E r \in Replicas : SaveCommit(r)
    BY <1>18 DEF SaveCommit, Store, Unlock, EndFrame, Goto
<1>19. CASE \E r \in Replicas : ResetCamera(r)
    BY <1>19 DEF ResetCamera, Goto
<1>20. CASE \E r \in Replicas : EmitFence(r)
    BY <1>20 DEF EmitFence, Fence, FenceOK, Goto
<1>21. CASE \E r \in Replicas : EmitLost(r)
    BY <1>21 DEF EmitLost, FenceLost, EndFrame, Goto
<1>22. CASE \E r \in Replicas : EventCommit(r)
    BY <1>22 DEF EventCommit, Unlock, Goto
<1>23. CASE \E r \in Replicas : NoteNothing(r)
    BY <1>23 DEF NoteNothing, EndFrame, Goto
<1>24. CASE \E r \in Replicas : NoteFence(r)
    BY <1>24 DEF NoteFence, Fence, FenceOK, Goto
<1>25. CASE \E r \in Replicas : NoteLost(r)
    BY <1>25 DEF NoteLost, FenceLost, Forget, EndFrame, Goto
<1>26. CASE \E r \in Replicas : NoteCommit(r)
    BY <1>26 DEF NoteCommit, Store, Unlock, EndFrame, Goto
<1>27. CASE \E r \in Replicas : ReleaseAll(r)
    BY <1>27 DEF ReleaseAll, GoDown, ClaimOver, Forget, EndFrame, Goto
<1>28. CASE \E r \in Replicas : ClaimError(r)
    BY <1>28 DEF ClaimError, NotTold, ClaimOver, Held, Goto
<1>29. CASE \E r \in Replicas : TxAbort(r)
    BY <1>29 DEF TxAbort, Unlock, EndFrame, Goto
<1>30. CASE \E r \in Replicas : SceneFault(r)
    BY <1>30 DEF SceneFault, Unlock, Forget, EndFrame, Goto
<1>31. CASE \E r \in Replicas : CancelTask(r)
    BY <1>31 DEF CancelTask, Unlock, ClaimOver, EndFrame, Goto
<1>32. CASE \E r \in Replicas : Crash(r)
    BY <1>32 DEF Crash, Unlock, GoDown, ClaimOver, Forget, EndFrame, Goto
<1>33. CASE \E r \in Replicas : Restart(r)
    BY <1>33 DEF Restart, Goto
<1>34. CASE Tick
    BY <1>34 DEF Tick, Later
<1>35. CASE UNCHANGED vars
    BY <1>35
<1>36. QED
    BY <1>1, <1>2, <1>3, <1>4, <1>5, <1>6, <1>7, <1>8, <1>9, <1>10, <1>11,
       <1>12, <1>13, <1>14, <1>15, <1>16, <1>17, <1>18, <1>19, <1>20,
       <1>21, <1>22, <1>23, <1>24, <1>25, <1>26, <1>27, <1>28, <1>29,
       <1>30, <1>31, <1>32, <1>33, <1>34, <1>35
    DEF Next, Lease, Frame, Fault

\* Renewals keep the epoch, a takeover raises it, the first row starts at 1.
LEMMA EpochStep ==
    ASSUME TypeOK, NoStop, EpochsOnlyGrow, [Next]_vars
    PROVE  EpochsOnlyGrow'
<1> USE LeaseAssumption DEF TypeOK, NoStop, EpochsOnlyGrow, vars, row, keeper
<1>1. CASE \E r \in Replicas : EnsureCached(r)
    BY <1>1 DEF EnsureCached, Goto
<1>2. CASE \E r \in Replicas : BeginClaim(r)
    BY <1>2 DEF BeginClaim, Goto
<1>3. CASE \E r \in Replicas : Renew(r)
    BY <1>3 DEF Renew, Won, Goto
<1>4. CASE \E r \in Replicas : TakeOver(r)
    BY <1>4 DEF TakeOver, Won, Goto
<1>5. CASE \E r \in Replicas : FindNoRow(r)
    BY <1>5 DEF FindNoRow, Goto
<1>6. CASE \E r \in Replicas : Insert(r)
    BY <1>6 DEF Insert, Won, Goto
<1>7. CASE \E r \in Replicas : Led(r)
    BY <1>7 DEF Led, ClaimOver, Goto
<1>8. CASE \E r \in Replicas : Refused(r)
    BY <1>8 DEF Refused, StandBy, ClaimOver, Goto
<1>9. CASE \E r \in Replicas : SkipFrame(r)
    BY <1>9 DEF SkipFrame, EndFrame, Goto
<1>10. CASE \E r \in Replicas : DetectFrame(r)
    BY <1>10 DEF DetectFrame, Held, Goto
<1>11. CASE \E r \in Replicas : SubjectFence(r)
    BY <1>11 DEF SubjectFence, Fence, FenceOK, Goto
<1>12. CASE \E r \in Replicas : SubjectLost(r)
    BY <1>12 DEF SubjectLost, FenceLost, Goto
<1>13. CASE \E r \in Replicas : SubjectsDone(r)
    BY <1>13 DEF SubjectsDone, Goto
<1>14. CASE \E r \in Replicas : SubjectCommit(r)
    BY <1>14 DEF SubjectCommit, Unlock, Goto
<1>15. CASE \E r \in Replicas : LoadScene(r)
    BY <1>15 DEF LoadScene, Goto
<1>16. CASE \E r \in Replicas : SaveFence(r)
    BY <1>16 DEF SaveFence, Fence, FenceOK, Goto
<1>17. CASE \E r \in Replicas : SaveLost(r)
    BY <1>17 DEF SaveLost, FenceLost, Forget, EndFrame, Goto
<1>18. CASE \E r \in Replicas : SaveCommit(r)
    BY <1>18 DEF SaveCommit, Store, Unlock, EndFrame, Goto
<1>19. CASE \E r \in Replicas : ResetCamera(r)
    BY <1>19 DEF ResetCamera, Goto
<1>20. CASE \E r \in Replicas : EmitFence(r)
    BY <1>20 DEF EmitFence, Fence, FenceOK, Goto
<1>21. CASE \E r \in Replicas : EmitLost(r)
    BY <1>21 DEF EmitLost, FenceLost, EndFrame, Goto
<1>22. CASE \E r \in Replicas : EventCommit(r)
    BY <1>22 DEF EventCommit, Unlock, Goto
<1>23. CASE \E r \in Replicas : NoteNothing(r)
    BY <1>23 DEF NoteNothing, EndFrame, Goto
<1>24. CASE \E r \in Replicas : NoteFence(r)
    BY <1>24 DEF NoteFence, Fence, FenceOK, Goto
<1>25. CASE \E r \in Replicas : NoteLost(r)
    BY <1>25 DEF NoteLost, FenceLost, Forget, EndFrame, Goto
<1>26. CASE \E r \in Replicas : NoteCommit(r)
    BY <1>26 DEF NoteCommit, Store, Unlock, EndFrame, Goto
<1>27. CASE \E r \in Replicas : ReleaseAll(r)
    BY <1>27 DEF ReleaseAll, GoDown, ClaimOver, Forget, EndFrame, Goto
<1>28. CASE \E r \in Replicas : ClaimError(r)
    BY <1>28 DEF ClaimError, NotTold, ClaimOver, Held, Goto
<1>29. CASE \E r \in Replicas : TxAbort(r)
    BY <1>29 DEF TxAbort, Unlock, EndFrame, Goto
<1>30. CASE \E r \in Replicas : SceneFault(r)
    BY <1>30 DEF SceneFault, Unlock, Forget, EndFrame, Goto
<1>31. CASE \E r \in Replicas : CancelTask(r)
    BY <1>31 DEF CancelTask, Unlock, ClaimOver, EndFrame, Goto
<1>32. CASE \E r \in Replicas : Crash(r)
    BY <1>32 DEF Crash, Unlock, GoDown, ClaimOver, Forget, EndFrame, Goto
<1>33. CASE \E r \in Replicas : Restart(r)
    BY <1>33 DEF Restart, Goto
<1>34. CASE Tick
    BY <1>34 DEF Tick, Later
<1>35. CASE UNCHANGED vars
    BY <1>35
<1>36. QED
    BY <1>1, <1>2, <1>3, <1>4, <1>5, <1>6, <1>7, <1>8, <1>9, <1>10, <1>11,
       <1>12, <1>13, <1>14, <1>15, <1>16, <1>17, <1>18, <1>19, <1>20,
       <1>21, <1>22, <1>23, <1>24, <1>25, <1>26, <1>27, <1>28, <1>29,
       <1>30, <1>31, <1>32, <1>33, <1>34, <1>35
    DEF Next, Lease, Frame, Fault

\* The belief does not change while a frame is under way.
LEMMA TokenStep ==
    ASSUME TypeOK, FrameToken, [Next]_vars
    PROVE  FrameToken'
<1> USE LeaseAssumption DEF TypeOK, PCs, FrameToken, FramePCs, vars, row, keeper
<1>1. CASE \E r \in Replicas : EnsureCached(r)
    BY <1>1 DEF EnsureCached, Goto
<1>2. CASE \E r \in Replicas : BeginClaim(r)
    BY <1>2 DEF BeginClaim, Goto
<1>3. CASE \E r \in Replicas : Renew(r)
    BY <1>3 DEF Renew, Won, Goto
<1>4. CASE \E r \in Replicas : TakeOver(r)
    BY <1>4 DEF TakeOver, Won, Goto
<1>5. CASE \E r \in Replicas : FindNoRow(r)
    BY <1>5 DEF FindNoRow, Goto
<1>6. CASE \E r \in Replicas : Insert(r)
    BY <1>6 DEF Insert, Won, Goto
<1>7. CASE \E r \in Replicas : Led(r)
    BY <1>7 DEF Led, ClaimOver, Goto
<1>8. CASE \E r \in Replicas : Refused(r)
    BY <1>8 DEF Refused, StandBy, ClaimOver, Goto
<1>9. CASE \E r \in Replicas : SkipFrame(r)
    BY <1>9 DEF SkipFrame, EndFrame, Goto
<1>10. CASE \E r \in Replicas : DetectFrame(r)
    BY <1>10 DEF DetectFrame, Held, Goto
<1>11. CASE \E r \in Replicas : SubjectFence(r)
    BY <1>11 DEF SubjectFence, Fence, FenceOK, Goto
<1>12. CASE \E r \in Replicas : SubjectLost(r)
    BY <1>12 DEF SubjectLost, FenceLost, Goto
<1>13. CASE \E r \in Replicas : SubjectsDone(r)
    BY <1>13 DEF SubjectsDone, Goto
<1>14. CASE \E r \in Replicas : SubjectCommit(r)
    BY <1>14 DEF SubjectCommit, Unlock, Goto
<1>15. CASE \E r \in Replicas : LoadScene(r)
    BY <1>15 DEF LoadScene, Goto
<1>16. CASE \E r \in Replicas : SaveFence(r)
    BY <1>16 DEF SaveFence, Fence, FenceOK, Goto
<1>17. CASE \E r \in Replicas : SaveLost(r)
    BY <1>17 DEF SaveLost, FenceLost, Forget, EndFrame, Goto
<1>18. CASE \E r \in Replicas : SaveCommit(r)
    BY <1>18 DEF SaveCommit, Store, Unlock, EndFrame, Goto
<1>19. CASE \E r \in Replicas : ResetCamera(r)
    BY <1>19 DEF ResetCamera, Goto
<1>20. CASE \E r \in Replicas : EmitFence(r)
    BY <1>20 DEF EmitFence, Fence, FenceOK, Goto
<1>21. CASE \E r \in Replicas : EmitLost(r)
    BY <1>21 DEF EmitLost, FenceLost, EndFrame, Goto
<1>22. CASE \E r \in Replicas : EventCommit(r)
    BY <1>22 DEF EventCommit, Unlock, Goto
<1>23. CASE \E r \in Replicas : NoteNothing(r)
    BY <1>23 DEF NoteNothing, EndFrame, Goto
<1>24. CASE \E r \in Replicas : NoteFence(r)
    BY <1>24 DEF NoteFence, Fence, FenceOK, Goto
<1>25. CASE \E r \in Replicas : NoteLost(r)
    BY <1>25 DEF NoteLost, FenceLost, Forget, EndFrame, Goto
<1>26. CASE \E r \in Replicas : NoteCommit(r)
    BY <1>26 DEF NoteCommit, Store, Unlock, EndFrame, Goto
<1>27. CASE \E r \in Replicas : ReleaseAll(r)
    BY <1>27 DEF ReleaseAll, GoDown, ClaimOver, Forget, EndFrame, Goto
<1>28. CASE \E r \in Replicas : ClaimError(r)
    BY <1>28 DEF ClaimError, NotTold, ClaimOver, Held, Goto
<1>29. CASE \E r \in Replicas : TxAbort(r)
    BY <1>29 DEF TxAbort, Unlock, EndFrame, Goto
<1>30. CASE \E r \in Replicas : SceneFault(r)
    BY <1>30 DEF SceneFault, Unlock, Forget, EndFrame, Goto
<1>31. CASE \E r \in Replicas : CancelTask(r)
    BY <1>31 DEF CancelTask, Unlock, ClaimOver, EndFrame, Goto
<1>32. CASE \E r \in Replicas : Crash(r)
    BY <1>32 DEF Crash, Unlock, GoDown, ClaimOver, Forget, EndFrame, Goto
<1>33. CASE \E r \in Replicas : Restart(r)
    BY <1>33 DEF Restart, Goto
<1>34. CASE Tick
    BY <1>34 DEF Tick, Later
<1>35. CASE UNCHANGED vars
    BY <1>35
<1>36. QED
    BY <1>1, <1>2, <1>3, <1>4, <1>5, <1>6, <1>7, <1>8, <1>9, <1>10, <1>11,
       <1>12, <1>13, <1>14, <1>15, <1>16, <1>17, <1>18, <1>19, <1>20,
       <1>21, <1>22, <1>23, <1>24, <1>25, <1>26, <1>27, <1>28, <1>29,
       <1>30, <1>31, <1>32, <1>33, <1>34, <1>35
    DEF Next, Lease, Frame, Fault

\* Gaining the lease drops what was cached before; holding it, only the
\* holder's own fenced commits change the stored version.
LEMMA CurrentStep ==
    ASSUME TypeOK, TxHoldsLease, NoReset, NoStop, EpochsOnlyGrow, FrameToken, HolderIsCurrent, [Next]_vars
    PROVE  HolderIsCurrent'
<1> USE LeaseAssumption DEF TypeOK, TxHoldsLease, TxPCs, NoReset, NoStop, EpochsOnlyGrow, FrameToken, FramePCs, PCs, HolderIsCurrent, vars, row, keeper
<1>1. CASE \E r \in Replicas : EnsureCached(r)
    BY <1>1 DEF EnsureCached, Goto
<1>2. CASE \E r \in Replicas : BeginClaim(r)
    BY <1>2 DEF BeginClaim, Goto
<1>3. CASE \E r \in Replicas : Renew(r)
    BY <1>3 DEF Renew, Won, Goto
<1>4. CASE \E r \in Replicas : TakeOver(r)
    BY <1>4 DEF TakeOver, Won, Goto
<1>5. CASE \E r \in Replicas : FindNoRow(r)
    BY <1>5 DEF FindNoRow, Goto
<1>6. CASE \E r \in Replicas : Insert(r)
    BY <1>6 DEF Insert, Won, Goto
<1>7. CASE \E r \in Replicas : Led(r)
    BY <1>7 DEF Led, ClaimOver, Goto
<1>8. CASE \E r \in Replicas : Refused(r)
    BY <1>8 DEF Refused, StandBy, ClaimOver, Goto
<1>9. CASE \E r \in Replicas : SkipFrame(r)
    BY <1>9 DEF SkipFrame, EndFrame, Goto
<1>10. CASE \E r \in Replicas : DetectFrame(r)
    BY <1>10 DEF DetectFrame, Held, Goto
<1>11. CASE \E r \in Replicas : SubjectFence(r)
    BY <1>11 DEF SubjectFence, Fence, FenceOK, Goto
<1>12. CASE \E r \in Replicas : SubjectLost(r)
    BY <1>12 DEF SubjectLost, FenceLost, Goto
<1>13. CASE \E r \in Replicas : SubjectsDone(r)
    BY <1>13 DEF SubjectsDone, Goto
<1>14. CASE \E r \in Replicas : SubjectCommit(r)
    BY <1>14 DEF SubjectCommit, Unlock, Goto
<1>15. CASE \E r \in Replicas : LoadScene(r)
    BY <1>15 DEF LoadScene, Goto
<1>16. CASE \E r \in Replicas : SaveFence(r)
    BY <1>16 DEF SaveFence, Fence, FenceOK, Goto
<1>17. CASE \E r \in Replicas : SaveLost(r)
    BY <1>17 DEF SaveLost, FenceLost, Forget, EndFrame, Goto
<1>18. CASE \E r \in Replicas : SaveCommit(r)
    BY <1>18 DEF SaveCommit, Store, Unlock, EndFrame, Goto
<1>19. CASE \E r \in Replicas : ResetCamera(r)
    BY <1>19 DEF ResetCamera, Goto
<1>20. CASE \E r \in Replicas : EmitFence(r)
    BY <1>20 DEF EmitFence, Fence, FenceOK, Goto
<1>21. CASE \E r \in Replicas : EmitLost(r)
    BY <1>21 DEF EmitLost, FenceLost, EndFrame, Goto
<1>22. CASE \E r \in Replicas : EventCommit(r)
    BY <1>22 DEF EventCommit, Unlock, Goto
<1>23. CASE \E r \in Replicas : NoteNothing(r)
    BY <1>23 DEF NoteNothing, EndFrame, Goto
<1>24. CASE \E r \in Replicas : NoteFence(r)
    BY <1>24 DEF NoteFence, Fence, FenceOK, Goto
<1>25. CASE \E r \in Replicas : NoteLost(r)
    BY <1>25 DEF NoteLost, FenceLost, Forget, EndFrame, Goto
<1>26. CASE \E r \in Replicas : NoteCommit(r)
    BY <1>26 DEF NoteCommit, Store, Unlock, EndFrame, Goto
<1>27. CASE \E r \in Replicas : ReleaseAll(r)
    BY <1>27 DEF ReleaseAll, GoDown, ClaimOver, Forget, EndFrame, Goto
<1>28. CASE \E r \in Replicas : ClaimError(r)
    BY <1>28 DEF ClaimError, NotTold, ClaimOver, Held, Goto
<1>29. CASE \E r \in Replicas : TxAbort(r)
    BY <1>29 DEF TxAbort, Unlock, EndFrame, Goto
<1>30. CASE \E r \in Replicas : SceneFault(r)
    BY <1>30 DEF SceneFault, Unlock, Forget, EndFrame, Goto
<1>31. CASE \E r \in Replicas : CancelTask(r)
    BY <1>31 DEF CancelTask, Unlock, ClaimOver, EndFrame, Goto
<1>32. CASE \E r \in Replicas : Crash(r)
    BY <1>32 DEF Crash, Unlock, GoDown, ClaimOver, Forget, EndFrame, Goto
<1>33. CASE \E r \in Replicas : Restart(r)
    BY <1>33 DEF Restart, Goto
<1>34. CASE Tick
    BY <1>34 DEF Tick, Later
<1>35. CASE UNCHANGED vars
    BY <1>35
<1>36. QED
    BY <1>1, <1>2, <1>3, <1>4, <1>5, <1>6, <1>7, <1>8, <1>9, <1>10, <1>11,
       <1>12, <1>13, <1>14, <1>15, <1>16, <1>17, <1>18, <1>19, <1>20,
       <1>21, <1>22, <1>23, <1>24, <1>25, <1>26, <1>27, <1>28, <1>29,
       <1>30, <1>31, <1>32, <1>33, <1>34, <1>35
    DEF Next, Lease, Frame, Fault

\* Events and, but for a reset, versions only change in a fenced commit.
LEMMA WriteStep ==
    ASSUME LeaseInv, NoReset, [Next]_vars
    PROVE  version' # version \/ events' # events =>
             \E r \in Replicas : /\ pc[r] \in TxPCs /\ pc'[r] # pc[r]
                                 /\ holder = r /\ epoch = token[r]
<1> USE LeaseAssumption DEF LeaseInv, TypeOK, TxHoldsLease, TxPCs, NoReset, vars, row, keeper
<1>1. CASE \E r \in Replicas : EnsureCached(r)
    BY <1>1 DEF EnsureCached, Goto
<1>2. CASE \E r \in Replicas : BeginClaim(r)
    BY <1>2 DEF BeginClaim, Goto
<1>3. CASE \E r \in Replicas : Renew(r)
    BY <1>3 DEF Renew, Won, Goto
<1>4. CASE \E r \in Replicas : TakeOver(r)
    BY <1>4 DEF TakeOver, Won, Goto
<1>5. CASE \E r \in Replicas : FindNoRow(r)
    BY <1>5 DEF FindNoRow, Goto
<1>6. CASE \E r \in Replicas : Insert(r)
    BY <1>6 DEF Insert, Won, Goto
<1>7. CASE \E r \in Replicas : Led(r)
    BY <1>7 DEF Led, ClaimOver, Goto
<1>8. CASE \E r \in Replicas : Refused(r)
    BY <1>8 DEF Refused, StandBy, ClaimOver, Goto
<1>9. CASE \E r \in Replicas : SkipFrame(r)
    BY <1>9 DEF SkipFrame, EndFrame, Goto
<1>10. CASE \E r \in Replicas : DetectFrame(r)
    BY <1>10 DEF DetectFrame, Held, Goto
<1>11. CASE \E r \in Replicas : SubjectFence(r)
    BY <1>11 DEF SubjectFence, Fence, FenceOK, Goto
<1>12. CASE \E r \in Replicas : SubjectLost(r)
    BY <1>12 DEF SubjectLost, FenceLost, Goto
<1>13. CASE \E r \in Replicas : SubjectsDone(r)
    BY <1>13 DEF SubjectsDone, Goto
<1>14. CASE \E r \in Replicas : SubjectCommit(r)
    BY <1>14 DEF SubjectCommit, Unlock, Goto
<1>15. CASE \E r \in Replicas : LoadScene(r)
    BY <1>15 DEF LoadScene, Goto
<1>16. CASE \E r \in Replicas : SaveFence(r)
    BY <1>16 DEF SaveFence, Fence, FenceOK, Goto
<1>17. CASE \E r \in Replicas : SaveLost(r)
    BY <1>17 DEF SaveLost, FenceLost, Forget, EndFrame, Goto
<1>18. CASE \E r \in Replicas : SaveCommit(r)
    BY <1>18 DEF SaveCommit, Store, Unlock, EndFrame, Goto
<1>19. CASE \E r \in Replicas : ResetCamera(r)
    BY <1>19 DEF ResetCamera, Goto
<1>20. CASE \E r \in Replicas : EmitFence(r)
    BY <1>20 DEF EmitFence, Fence, FenceOK, Goto
<1>21. CASE \E r \in Replicas : EmitLost(r)
    BY <1>21 DEF EmitLost, FenceLost, EndFrame, Goto
<1>22. CASE \E r \in Replicas : EventCommit(r)
    BY <1>22 DEF EventCommit, Unlock, Goto
<1>23. CASE \E r \in Replicas : NoteNothing(r)
    BY <1>23 DEF NoteNothing, EndFrame, Goto
<1>24. CASE \E r \in Replicas : NoteFence(r)
    BY <1>24 DEF NoteFence, Fence, FenceOK, Goto
<1>25. CASE \E r \in Replicas : NoteLost(r)
    BY <1>25 DEF NoteLost, FenceLost, Forget, EndFrame, Goto
<1>26. CASE \E r \in Replicas : NoteCommit(r)
    BY <1>26 DEF NoteCommit, Store, Unlock, EndFrame, Goto
<1>27. CASE \E r \in Replicas : ReleaseAll(r)
    BY <1>27 DEF ReleaseAll, GoDown, ClaimOver, Forget, EndFrame, Goto
<1>28. CASE \E r \in Replicas : ClaimError(r)
    BY <1>28 DEF ClaimError, NotTold, ClaimOver, Held, Goto
<1>29. CASE \E r \in Replicas : TxAbort(r)
    BY <1>29 DEF TxAbort, Unlock, EndFrame, Goto
<1>30. CASE \E r \in Replicas : SceneFault(r)
    BY <1>30 DEF SceneFault, Unlock, Forget, EndFrame, Goto
<1>31. CASE \E r \in Replicas : CancelTask(r)
    BY <1>31 DEF CancelTask, Unlock, ClaimOver, EndFrame, Goto
<1>32. CASE \E r \in Replicas : Crash(r)
    BY <1>32 DEF Crash, Unlock, GoDown, ClaimOver, Forget, EndFrame, Goto
<1>33. CASE \E r \in Replicas : Restart(r)
    BY <1>33 DEF Restart, Goto
<1>34. CASE Tick
    BY <1>34 DEF Tick, Later
<1>35. CASE UNCHANGED vars
    BY <1>35
<1>36. QED
    BY <1>1, <1>2, <1>3, <1>4, <1>5, <1>6, <1>7, <1>8, <1>9, <1>10, <1>11,
       <1>12, <1>13, <1>14, <1>15, <1>16, <1>17, <1>18, <1>19, <1>20,
       <1>21, <1>22, <1>23, <1>24, <1>25, <1>26, <1>27, <1>28, <1>29,
       <1>30, <1>31, <1>32, <1>33, <1>34, <1>35
    DEF Next, Lease, Frame, Fault

\* Every write of the scene state and every event insert commits under the
\* lease and the epoch the frame started with, as long as no scene step fails
\* and falls back to reset_camera.
THEOREM WritesFenced ==
    ASSUME "scene" \notin Faults
    PROVE  Spec => WritesAreFenced
<1>1. Init => NoReset
    BY DEF Init, NoReset
<1>2. TypeOK /\ NoReset /\ [Next]_vars => NoReset'
    BY NoResetStep
<1>3. LeaseInv /\ NoReset /\ [Next]_vars
        => [version' # version \/ events' # events =>
              \E r \in Replicas : /\ pc[r] \in TxPCs /\ pc'[r] # pc[r]
                                  /\ holder = r /\ epoch = token[r]]_vars
    BY WriteStep
<1>4. QED
    BY <1>1, <1>2, <1>3, TypeCorrect, LeaseInvHolds, PTL DEF Spec, WritesAreFenced

\* The inductive invariant of the fault-free scene pipeline.
LEMMA WriterInvHolds ==
    ASSUME "scene" \notin Faults, "stop" \notin Faults
    PROVE  Spec => []WriterInv
<1>1. Init => WriterInv
    BY LeaseAssumption
    DEF Init, WriterInv, LeaseInv, TypeOK, PCs, TxHoldsLease, TxPCs, BeliefOutlived,
        Held, NoReset, NoStop, EpochsOnlyGrow, FrameToken, FramePCs, HolderIsCurrent
<1>2. WriterInv /\ [Next]_vars => WriterInv'
    BY TypeStep, TxStep, BeliefStep, NoResetStep, NoStopStep, EpochStep, TokenStep,
       CurrentStep DEF WriterInv, LeaseInv
<1>3. QED
    BY <1>1, <1>2, PTL DEF Spec

\* A commit replaces the version its replica has cached.
LEMMA StaleStep ==
    ASSUME WriterInv, [Next]_vars
    PROVE  \A r \in Replicas :
                version' # version /\ copy'[r] = version' => copy[r] = version
<1> USE LeaseAssumption DEF WriterInv, LeaseInv, TypeOK, TxHoldsLease, TxPCs, NoReset, FrameToken, FramePCs,
            PCs, HolderIsCurrent, vars, row, keeper
<1>1. CASE \E r \in Replicas : EnsureCached(r)
    BY <1>1 DEF EnsureCached, Goto
<1>2. CASE \E r \in Replicas : BeginClaim(r)
    BY <1>2 DEF BeginClaim, Goto
<1>3. CASE \E r \in Replicas : Renew(r)
    BY <1>3 DEF Renew, Won, Goto
<1>4. CASE \E r \in Replicas : TakeOver(r)
    BY <1>4 DEF TakeOver, Won, Goto
<1>5. CASE \E r \in Replicas : FindNoRow(r)
    BY <1>5 DEF FindNoRow, Goto
<1>6. CASE \E r \in Replicas : Insert(r)
    BY <1>6 DEF Insert, Won, Goto
<1>7. CASE \E r \in Replicas : Led(r)
    BY <1>7 DEF Led, ClaimOver, Goto
<1>8. CASE \E r \in Replicas : Refused(r)
    BY <1>8 DEF Refused, StandBy, ClaimOver, Goto
<1>9. CASE \E r \in Replicas : SkipFrame(r)
    BY <1>9 DEF SkipFrame, EndFrame, Goto
<1>10. CASE \E r \in Replicas : DetectFrame(r)
    BY <1>10 DEF DetectFrame, Held, Goto
<1>11. CASE \E r \in Replicas : SubjectFence(r)
    BY <1>11 DEF SubjectFence, Fence, FenceOK, Goto
<1>12. CASE \E r \in Replicas : SubjectLost(r)
    BY <1>12 DEF SubjectLost, FenceLost, Goto
<1>13. CASE \E r \in Replicas : SubjectsDone(r)
    BY <1>13 DEF SubjectsDone, Goto
<1>14. CASE \E r \in Replicas : SubjectCommit(r)
    BY <1>14 DEF SubjectCommit, Unlock, Goto
<1>15. CASE \E r \in Replicas : LoadScene(r)
    BY <1>15 DEF LoadScene, Goto
<1>16. CASE \E r \in Replicas : SaveFence(r)
    BY <1>16 DEF SaveFence, Fence, FenceOK, Goto
<1>17. CASE \E r \in Replicas : SaveLost(r)
    BY <1>17 DEF SaveLost, FenceLost, Forget, EndFrame, Goto
<1>18. CASE \E r \in Replicas : SaveCommit(r)
    BY <1>18 DEF SaveCommit, Store, Unlock, EndFrame, Goto
<1>19. CASE \E r \in Replicas : ResetCamera(r)
    BY <1>19 DEF ResetCamera, Goto
<1>20. CASE \E r \in Replicas : EmitFence(r)
    BY <1>20 DEF EmitFence, Fence, FenceOK, Goto
<1>21. CASE \E r \in Replicas : EmitLost(r)
    BY <1>21 DEF EmitLost, FenceLost, EndFrame, Goto
<1>22. CASE \E r \in Replicas : EventCommit(r)
    BY <1>22 DEF EventCommit, Unlock, Goto
<1>23. CASE \E r \in Replicas : NoteNothing(r)
    BY <1>23 DEF NoteNothing, EndFrame, Goto
<1>24. CASE \E r \in Replicas : NoteFence(r)
    BY <1>24 DEF NoteFence, Fence, FenceOK, Goto
<1>25. CASE \E r \in Replicas : NoteLost(r)
    BY <1>25 DEF NoteLost, FenceLost, Forget, EndFrame, Goto
<1>26. CASE \E r \in Replicas : NoteCommit(r)
    BY <1>26 DEF NoteCommit, Store, Unlock, EndFrame, Goto
<1>27. CASE \E r \in Replicas : ReleaseAll(r)
    BY <1>27 DEF ReleaseAll, GoDown, ClaimOver, Forget, EndFrame, Goto
<1>28. CASE \E r \in Replicas : ClaimError(r)
    BY <1>28 DEF ClaimError, NotTold, ClaimOver, Held, Goto
<1>29. CASE \E r \in Replicas : TxAbort(r)
    BY <1>29 DEF TxAbort, Unlock, EndFrame, Goto
<1>30. CASE \E r \in Replicas : SceneFault(r)
    BY <1>30 DEF SceneFault, Unlock, Forget, EndFrame, Goto
<1>31. CASE \E r \in Replicas : CancelTask(r)
    BY <1>31 DEF CancelTask, Unlock, ClaimOver, EndFrame, Goto
<1>32. CASE \E r \in Replicas : Crash(r)
    BY <1>32 DEF Crash, Unlock, GoDown, ClaimOver, Forget, EndFrame, Goto
<1>33. CASE \E r \in Replicas : Restart(r)
    BY <1>33 DEF Restart, Goto
<1>34. CASE Tick
    BY <1>34 DEF Tick, Later
<1>35. CASE UNCHANGED vars
    BY <1>35
<1>36. QED
    BY <1>1, <1>2, <1>3, <1>4, <1>5, <1>6, <1>7, <1>8, <1>9, <1>10, <1>11,
       <1>12, <1>13, <1>14, <1>15, <1>16, <1>17, <1>18, <1>19, <1>20,
       <1>21, <1>22, <1>23, <1>24, <1>25, <1>26, <1>27, <1>28, <1>29,
       <1>30, <1>31, <1>32, <1>33, <1>34, <1>35
    DEF Next, Lease, Frame, Fault

\* No replica overwrites a stored scene it has not read, as long as nothing
\* deletes the lease row (a clean shutdown) or the scene (a reset).
THEOREM NothingStaleIsWritten ==
    ASSUME "scene" \notin Faults, "stop" \notin Faults
    PROVE  Spec => NoStaleOverwrite
<1>1. WriterInv /\ [Next]_vars
        => [\A r \in Replicas :
              version' # version /\ copy'[r] = version' => copy[r] = version]_vars
    BY StaleStep
<1>2. QED
    BY <1>1, WriterInvHolds, PTL DEF Spec, NoStaleOverwrite

\* Every step of the code is a step of SceneWriter or leaves its view as it is.
LEMMA WriterStep ==
    ASSUME "scene" \notin Faults, "stop" \notin Faults, WriterInv, [Next]_vars
    PROVE  [Writer!Next]_(Writer!writerVars)
<1> USE LeaseAssumption DEF Writer!writerVars, vars, row, keeper
<1>1. CASE \E r \in Replicas : EnsureCached(r)
    BY <1>1 DEF EnsureCached, Goto
<1>2. CASE \E r \in Replicas : BeginClaim(r)
    BY <1>2 DEF BeginClaim, Goto
<1>3. CASE \E r \in Replicas : Renew(r)
    BY <1>3 DEF Renew, Won, Goto
<1>4. CASE \E r \in Replicas : TakeOver(r)
    <2>1. PICK r \in Replicas : TakeOver(r)
        BY <1>4
    <2>2. Writer!Acquire(r) \/ UNCHANGED Writer!writerVars
        BY <2>1
        DEF TakeOver, Won, Goto, Writer!Acquire,
            WriterInv, LeaseInv, TypeOK, TxHoldsLease, TxPCs, NoReset, NoStop, EpochsOnlyGrow,
            FrameToken, FramePCs, PCs, HolderIsCurrent
    <2>3. QED
        BY <2>2 DEF Writer!Next
<1>5. CASE \E r \in Replicas : FindNoRow(r)
    BY <1>5 DEF FindNoRow, Goto
<1>6. CASE \E r \in Replicas : Insert(r)
    <2>1. PICK r \in Replicas : Insert(r)
        BY <1>6
    <2>2. Writer!Acquire(r) \/ UNCHANGED Writer!writerVars
        BY <2>1
        DEF Insert, Won, Goto, Writer!Acquire,
            WriterInv, LeaseInv, TypeOK, TxHoldsLease, TxPCs, NoReset, NoStop, EpochsOnlyGrow,
            FrameToken, FramePCs, PCs, HolderIsCurrent
    <2>3. QED
        BY <2>2 DEF Writer!Next
<1>7. CASE \E r \in Replicas : Led(r)
    <2>1. PICK r \in Replicas : Led(r)
        BY <1>7
    <2>2. Writer!Drop(r) \/ UNCHANGED Writer!writerVars
        BY <2>1
        DEF Led, ClaimOver, Goto, Writer!Drop,
            WriterInv, LeaseInv, TypeOK, TxHoldsLease, TxPCs, NoReset, NoStop, EpochsOnlyGrow,
            FrameToken, FramePCs, PCs, HolderIsCurrent
    <2>3. QED
        BY <2>2 DEF Writer!Next
<1>8. CASE \E r \in Replicas : Refused(r)
    <2>1. PICK r \in Replicas : Refused(r)
        BY <1>8
    <2>2. Writer!Drop(r) \/ UNCHANGED Writer!writerVars
        BY <2>1
        DEF Refused, StandBy, ClaimOver, Goto, Writer!Drop,
            WriterInv, LeaseInv, TypeOK, TxHoldsLease, TxPCs, NoReset, NoStop, EpochsOnlyGrow,
            FrameToken, FramePCs, PCs, HolderIsCurrent
    <2>3. QED
        BY <2>2 DEF Writer!Next
<1>9. CASE \E r \in Replicas : SkipFrame(r)
    BY <1>9 DEF SkipFrame, EndFrame, Goto
<1>10. CASE \E r \in Replicas : DetectFrame(r)
    BY <1>10 DEF DetectFrame, Held, Goto
<1>11. CASE \E r \in Replicas : SubjectFence(r)
    BY <1>11 DEF SubjectFence, Fence, FenceOK, Goto
<1>12. CASE \E r \in Replicas : SubjectLost(r)
    BY <1>12 DEF SubjectLost, FenceLost, Goto
<1>13. CASE \E r \in Replicas : SubjectsDone(r)
    BY <1>13 DEF SubjectsDone, Goto
<1>14. CASE \E r \in Replicas : SubjectCommit(r)
    BY <1>14 DEF SubjectCommit, Unlock, Goto
<1>15. CASE \E r \in Replicas : LoadScene(r)
    <2>1. PICK r \in Replicas : LoadScene(r)
        BY <1>15
    <2>2. Writer!Read(r) \/ UNCHANGED Writer!writerVars
        BY <2>1
        DEF LoadScene, Goto, Writer!Read,
            WriterInv, LeaseInv, TypeOK
    <2>3. QED
        BY <2>2 DEF Writer!Next
<1>16. CASE \E r \in Replicas : SaveFence(r)
    BY <1>16 DEF SaveFence, Fence, FenceOK, Goto
<1>17. CASE \E r \in Replicas : SaveLost(r)
    <2>1. PICK r \in Replicas : SaveLost(r)
        BY <1>17
    <2>2. Writer!Drop(r) \/ UNCHANGED Writer!writerVars
        BY <2>1
        DEF SaveLost, FenceLost, Forget, EndFrame, Goto, Writer!Drop,
            WriterInv, LeaseInv, TypeOK, TxHoldsLease, TxPCs, NoReset, NoStop, EpochsOnlyGrow,
            FrameToken, FramePCs, PCs, HolderIsCurrent
    <2>3. QED
        BY <2>2 DEF Writer!Next
<1>18. CASE \E r \in Replicas : SaveCommit(r)
    <2>1. PICK r \in Replicas : SaveCommit(r)
        BY <1>18
    <2>2. Writer!Write(r) \/ UNCHANGED Writer!writerVars
        BY <2>1
        DEF SaveCommit, Store, Unlock, EndFrame, Goto, Writer!Write,
            WriterInv, LeaseInv, TypeOK, TxHoldsLease, TxPCs, NoReset, NoStop, EpochsOnlyGrow,
            FrameToken, FramePCs, PCs, HolderIsCurrent
    <2>3. QED
        BY <2>2 DEF Writer!Next
<1>19. CASE \E r \in Replicas : ResetCamera(r)
    BY <1>19 DEF ResetCamera, Goto, WriterInv, NoReset
<1>20. CASE \E r \in Replicas : EmitFence(r)
    BY <1>20 DEF EmitFence, Fence, FenceOK, Goto
<1>21. CASE \E r \in Replicas : EmitLost(r)
    BY <1>21 DEF EmitLost, FenceLost, EndFrame, Goto
<1>22. CASE \E r \in Replicas : EventCommit(r)
    BY <1>22 DEF EventCommit, Unlock, Goto
<1>23. CASE \E r \in Replicas : NoteNothing(r)
    BY <1>23 DEF NoteNothing, EndFrame, Goto
<1>24. CASE \E r \in Replicas : NoteFence(r)
    BY <1>24 DEF NoteFence, Fence, FenceOK, Goto
<1>25. CASE \E r \in Replicas : NoteLost(r)
    <2>1. PICK r \in Replicas : NoteLost(r)
        BY <1>25
    <2>2. Writer!Drop(r) \/ UNCHANGED Writer!writerVars
        BY <2>1
        DEF NoteLost, FenceLost, Forget, EndFrame, Goto, Writer!Drop,
            WriterInv, LeaseInv, TypeOK, TxHoldsLease, TxPCs, NoReset, NoStop, EpochsOnlyGrow,
            FrameToken, FramePCs, PCs, HolderIsCurrent
    <2>3. QED
        BY <2>2 DEF Writer!Next
<1>26. CASE \E r \in Replicas : NoteCommit(r)
    <2>1. PICK r \in Replicas : NoteCommit(r)
        BY <1>26
    <2>2. Writer!Write(r) \/ UNCHANGED Writer!writerVars
        BY <2>1
        DEF NoteCommit, Store, Unlock, EndFrame, Goto, Writer!Write,
            WriterInv, LeaseInv, TypeOK, TxHoldsLease, TxPCs, NoReset, NoStop, EpochsOnlyGrow,
            FrameToken, FramePCs, PCs, HolderIsCurrent
    <2>3. QED
        BY <2>2 DEF Writer!Next
<1>27. CASE \E r \in Replicas : ReleaseAll(r)
    BY <1>27 DEF ReleaseAll, GoDown, ClaimOver, Forget, EndFrame, Goto, WriterInv, NoStop
<1>28. CASE \E r \in Replicas : ClaimError(r)
    BY <1>28 DEF ClaimError, NotTold, ClaimOver, Held, Goto
<1>29. CASE \E r \in Replicas : TxAbort(r)
    BY <1>29 DEF TxAbort, Unlock, EndFrame, Goto
<1>30. CASE \E r \in Replicas : SceneFault(r)
    BY <1>30 DEF SceneFault, Unlock, Forget, EndFrame, Goto
<1>31. CASE \E r \in Replicas : CancelTask(r)
    BY <1>31 DEF CancelTask, Unlock, ClaimOver, EndFrame, Goto
<1>32. CASE \E r \in Replicas : Crash(r)
    <2>1. PICK r \in Replicas : Crash(r)
        BY <1>32
    <2>2. Writer!Drop(r) \/ UNCHANGED Writer!writerVars
        BY <2>1
        DEF Crash, Unlock, GoDown, ClaimOver, Forget, EndFrame, Goto, Writer!Drop,
            WriterInv, LeaseInv, TypeOK, TxHoldsLease, TxPCs, NoReset, NoStop, EpochsOnlyGrow,
            FrameToken, FramePCs, PCs, HolderIsCurrent
    <2>3. QED
        BY <2>2 DEF Writer!Next
<1>33. CASE \E r \in Replicas : Restart(r)
    BY <1>33 DEF Restart, Goto
<1>34. CASE Tick
    BY <1>34 DEF Tick
<1>35. CASE UNCHANGED vars
    BY <1>35
<1>36. QED
    BY <1>1, <1>2, <1>3, <1>4, <1>5, <1>6, <1>7, <1>8, <1>9, <1>10, <1>11,
       <1>12, <1>13, <1>14, <1>15, <1>16, <1>17, <1>18, <1>19, <1>20,
       <1>21, <1>22, <1>23, <1>24, <1>25, <1>26, <1>27, <1>28, <1>29,
       <1>30, <1>31, <1>32, <1>33, <1>34, <1>35
    DEF Next, Lease, Frame, Fault

\* Under the same conditions the lease implements the single scene writer.
THEOREM LeaseImplementsWriter ==
    ASSUME "scene" \notin Faults, "stop" \notin Faults
    PROVE  Spec => ImplementsSceneWriter
<1>1. Init => Writer!Init
    BY DEF Init, Writer!Init
<1>2. WriterInv /\ [Next]_vars => [Writer!Next]_(Writer!writerVars)
    BY WriterStep
<1>3. QED
    BY <1>1, <1>2, WriterInvHolds, PTL
    DEF Spec, ImplementsSceneWriter, Writer!Spec

\* A transition still to be reported was made from the version before the
\* stored one, unless the lease has moved on; every reported one lies behind.
Emitting == {"emit", "eventTx"}
ReportsFollow ==
    /\ \A r \in Replicas : base[r] < version
    /\ \A r \in Replicas : pc[r] \in Emitting =>
          /\ base[r] # 0
          /\ \A e \in events : e.from # base[r]
          /\ \A q \in Replicas \ {r} : pc[q] \in Emitting => base[q] # base[r]
          /\ holder = r /\ epoch = token[r] => base[r] + 1 = version
    /\ \A e \in events : e.under <= epoch /\ e.from < version

HistoryInv == WriterInv /\ ReportsFollow /\ OneHistoryReported

\* What a step that commits nothing leaves of a transition to be reported.
Quiet ==
    /\ UNCHANGED <<version, events>> /\ epoch' >= epoch
    /\ \A r \in Replicas : base'[r] \in {base[r], 0}
    /\ \A r \in Replicas : pc'[r] \in Emitting =>
          /\ pc[r] \in Emitting /\ base'[r] = base[r] /\ token'[r] = token[r]
          /\ holder' = r /\ epoch' = token[r] => holder = r /\ epoch = token[r]

Commits(r) == SubjectCommit(r) \/ SaveCommit(r) \/ EventCommit(r) \/ NoteCommit(r)

LEMMA QuietStep ==
    ASSUME "scene" \notin Faults, "stop" \notin Faults, WriterInv, [Next]_vars,
           ~\E r \in Replicas : Commits(r)
    PROVE  Quiet
<1> USE LeaseAssumption DEF WriterInv, LeaseInv, TypeOK, Quiet, Emitting, vars, row, keeper
<1>1. CASE \E r \in Replicas : EnsureCached(r)
    BY <1>1 DEF EnsureCached, Goto
<1>2. CASE \E r \in Replicas : BeginClaim(r)
    BY <1>2 DEF BeginClaim, Goto
<1>3. CASE \E r \in Replicas : Renew(r)
    BY <1>3 DEF Renew, Won, Goto
<1>4. CASE \E r \in Replicas : TakeOver(r)
    BY <1>4 DEF TakeOver, Won, Goto
<1>5. CASE \E r \in Replicas : FindNoRow(r)
    BY <1>5 DEF FindNoRow, Goto
<1>6. CASE \E r \in Replicas : Insert(r)
    BY <1>6 DEF Insert, Won, Goto, EpochsOnlyGrow
<1>7. CASE \E r \in Replicas : Led(r)
    BY <1>7 DEF Led, ClaimOver, Goto
<1>8. CASE \E r \in Replicas : Refused(r)
    BY <1>8 DEF Refused, StandBy, ClaimOver, Goto
<1>9. CASE \E r \in Replicas : SkipFrame(r) \/ SubjectsDone(r) \/ NoteNothing(r) \/ Restart(r)
    BY <1>9 DEF SkipFrame, SubjectsDone, NoteNothing, Restart, EndFrame, Goto
<1>10. CASE \E r \in Replicas : DetectFrame(r)
    BY <1>10 DEF DetectFrame, Held, Goto
<1>11. CASE \E r \in Replicas : SubjectFence(r) \/ SaveFence(r) \/ EmitFence(r) \/ NoteFence(r)
    BY <1>11 DEF SubjectFence, SaveFence, EmitFence, NoteFence, Fence, Goto
<1>12. CASE \E r \in Replicas : SubjectLost(r) \/ SaveLost(r) \/ EmitLost(r) \/ NoteLost(r)
    BY <1>12 DEF SubjectLost, SaveLost, EmitLost, NoteLost, FenceLost, Forget, EndFrame, Goto
<1>13. CASE \E r \in Replicas : LoadScene(r)
    BY <1>13 DEF LoadScene, Goto
<1>14. CASE \E r \in Replicas : ResetCamera(r)
    BY <1>14 DEF ResetCamera, NoReset
<1>15. CASE \E r \in Replicas : ReleaseAll(r)
    BY <1>15 DEF ReleaseAll, NoStop
<1>16. CASE \E r \in Replicas : ClaimError(r)
    BY <1>16 DEF ClaimError, NotTold, ClaimOver, Held, Goto
<1>17. CASE \E r \in Replicas : TxAbort(r)
    BY <1>17 DEF TxAbort, Unlock, EndFrame, Goto
<1>18. CASE \E r \in Replicas : SceneFault(r) \/ CancelTask(r)
    BY <1>18 DEF SceneFault, CancelTask
<1>19. CASE \E r \in Replicas : Crash(r)
    BY <1>19 DEF Crash, Unlock, GoDown, ClaimOver, Forget, EndFrame, Goto
<1>20. CASE Tick
    BY <1>20 DEF Tick
<1>21. CASE UNCHANGED vars
    BY <1>21
<1>22. QED
    BY <1>1, <1>2, <1>3, <1>4, <1>5, <1>6, <1>7, <1>8, <1>9, <1>10, <1>11,
       <1>12, <1>13, <1>14, <1>15, <1>16, <1>17, <1>18, <1>19, <1>20, <1>21
    DEF Next, Lease, Frame, Fault, Commits

\* A commit is the holder's: it replaces the version that it read, and reports
\* the transition out of the version before, which nobody else has reported.
LEMMA HistoryStep ==
    ASSUME "scene" \notin Faults, "stop" \notin Faults, HistoryInv, [Next]_vars
    PROVE  ReportsFollow' /\ OneHistoryReported'
<1>1. /\ version \in Nat /\ epoch \in Nat /\ base \in [Replicas -> Nat] /\ token \in [Replicas -> Nat]
      /\ copy \in [Replicas -> Nat] /\ pc \in [Replicas -> PCs] /\ version # 0
      /\ events \subseteq [under : Nat, from : Nat] /\ WriterInv /\ ReportsFollow /\ OneHistoryReported
    BY DEF HistoryInv, WriterInv, LeaseInv, TypeOK
<1>2. CASE Quiet
    <2>1. epoch' \in Nat
        BY TypeStep DEF HistoryInv, WriterInv, LeaseInv, TypeOK
    <2>2. OneHistoryReported'
        BY <1>1, <1>2 DEF Quiet, OneHistoryReported
    <2>3. ReportsFollow'
        BY <1>1, <1>2, <2>1 DEF Quiet, ReportsFollow
    <2>4. QED
        BY <2>2, <2>3
<1>3. ASSUME NEW r \in Replicas, pc[r] \in TxPCs
      PROVE  /\ holder = r /\ epoch = token[r]
             /\ pc[r] \in {"saveTx", "noteTx"} => copy[r] = version
    BY <1>3 DEF WriterInv, LeaseInv, TxHoldsLease, FrameToken, FramePCs, PCs, TxPCs, HolderIsCurrent,
                HistoryInv
<1>4. ASSUME NEW r \in Replicas, SubjectCommit(r) PROVE ReportsFollow' /\ OneHistoryReported'
    <2>1. /\ events' = events \union {[under |-> token[r], from |-> 0]} /\ pc[r] = "subjectTx"
          /\ pc' = [pc EXCEPT ![r] = "subjects"]
          /\ UNCHANGED <<holder, epoch, version, token, base>>
        BY <1>4 DEF SubjectCommit, Goto, row
    <2>2. OneHistoryReported'
        BY <1>1, <2>1 DEF OneHistoryReported
    <2>3. ReportsFollow'
        BY <1>1, <1>3, <2>1 DEF ReportsFollow, Emitting, TxPCs
    <2>4. QED
        BY <2>2, <2>3
<1>5. ASSUME NEW r \in Replicas, SaveCommit(r) PROVE ReportsFollow' /\ OneHistoryReported'
    <2>1. /\ version' = version + 1 /\ pc[r] = "saveTx" /\ UNCHANGED <<holder, epoch, events>>
          /\ \/ /\ pc' = [pc EXCEPT ![r] = "idle"] /\ base' = [base EXCEPT ![r] = 0]
                /\ token' = [token EXCEPT ![r] = 0]
             \/ /\ pc' = [pc EXCEPT ![r] = "emit"] /\ base' = [base EXCEPT ![r] = copy[r]]
                /\ token' = token
        BY <1>5 DEF SaveCommit, Store, EndFrame, Goto, row
    <2>2. holder = r /\ epoch = token[r] /\ copy[r] = version
        BY <1>3, <2>1 DEF TxPCs
    <2>3. OneHistoryReported'
        BY <1>1, <2>1 DEF OneHistoryReported
    <2>4. ReportsFollow'
        BY <1>1, <2>1, <2>2 DEF ReportsFollow, Emitting
    <2>5. QED
        BY <2>3, <2>4
<1>6. ASSUME NEW r \in Replicas, EventCommit(r) PROVE ReportsFollow' /\ OneHistoryReported'
    <2>1. /\ events' = events \union {[under |-> token[r], from |-> base[r]]} /\ pc[r] = "eventTx"
          /\ pc' = [pc EXCEPT ![r] = "note"]
          /\ UNCHANGED <<holder, epoch, version, token, base>>
        BY <1>6 DEF EventCommit, Goto, row
    <2>2. holder = r /\ epoch = token[r] /\ base[r] # 0 /\ base[r] + 1 = version
        BY <1>1, <1>3, <2>1 DEF TxPCs, ReportsFollow, Emitting
    <2>3. \A e \in events : e.under <= token[r] /\ e.from < base[r] /\ e.from \in Nat
        BY <1>1, <2>1, <2>2 DEF ReportsFollow, Emitting
    <2>4. OneHistoryReported'
        BY <1>1, <2>1, <2>2, <2>3 DEF OneHistoryReported
    <2>5. ReportsFollow'
        BY <1>1, <2>1, <2>2 DEF ReportsFollow, Emitting
    <2>6. QED
        BY <2>4, <2>5
<1>7. ASSUME NEW r \in Replicas, NoteCommit(r) PROVE ReportsFollow' /\ OneHistoryReported'
    <2>1. /\ version' = version + 1 /\ pc[r] = "noteTx" /\ UNCHANGED <<holder, epoch, events>>
          /\ pc' = [pc EXCEPT ![r] = "idle"] /\ base' = [base EXCEPT ![r] = 0]
          /\ token' = [token EXCEPT ![r] = 0]
        BY <1>7 DEF NoteCommit, Store, EndFrame, Goto, row
    <2>2. holder = r
        BY <1>3, <2>1 DEF TxPCs
    <2>3. OneHistoryReported'
        BY <1>1, <2>1 DEF OneHistoryReported
    <2>4. ReportsFollow'
        BY <1>1, <2>1, <2>2 DEF ReportsFollow, Emitting
    <2>5. QED
        BY <2>3, <2>4
<1>8. QED
    BY <1>1, <1>2, <1>4, <1>5, <1>6, <1>7, QuietStep DEF Commits

\* The events of a camera tell one history, whichever replicas take turns, die or
\* lose the database, as long as no shutdown deletes the lease row and no reset
\* the scene: no version's transition is told twice, none out of turn.
THEOREM OneHistory ==
    ASSUME "scene" \notin Faults, "stop" \notin Faults
    PROVE  Spec => []OneHistoryReported
<1>1. Init => ReportsFollow /\ OneHistoryReported
    BY DEF Init, ReportsFollow, Emitting, OneHistoryReported
<1>2. WriterInv /\ ReportsFollow /\ OneHistoryReported /\ [Next]_vars => ReportsFollow' /\ OneHistoryReported'
    BY HistoryStep DEF HistoryInv
<1>3. QED
    BY <1>1, <1>2, WriterInvHolds, PTL DEF Spec
================================================================================
