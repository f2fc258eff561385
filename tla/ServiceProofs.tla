---------------------------- MODULE ServiceProofs -----------------------------
(***************************************************************************)
(* Proofs about who gets in, which provider is in force, what rings, what  *)
(* tells and who is recognised: Accounts, GoogleSignIn, Providers,         *)
(* Deterrence, Notify and Persons, for every set of replicas, people,      *)
(* addresses, states, requests, channels, alerts, events and identities,   *)
(* every limit and every number of crashes.                                *)
(***************************************************************************)
EXTENDS Accounts, GoogleSignIn, Providers, Deterrence, Notify, Persons, FiniteSetTheorems,
        SequenceTheorems, NumberLemmas, TLAPS

-----------------------------------------------------------------------------
(* Accounts                                                                *)

\* The registration lock has one holder, and whoever it found no user for is
\* alone with an empty table.
RegistrationIsOne ==
    /\ users = {} \/ \E p \in AcPeople : users = {p}
    /\ \A p, q \in AcPeople : enrol[p] # "none" /\ enrol[q] # "none" => p = q
    /\ \A p \in AcPeople : enrol[p] = "clear" => users = {}

\* The row counts every wrong password since the last login admitted, and is
\* locked for as long as they keep everyone out.
RowRemembersWrong == counter.failed = wrong /\ counter.until = barred

AccountsInv == AccountsTypeOK /\ RegistrationIsOne /\ RowRemembersWrong

\* Every step of a registration, a login, a session and time keeps the invariant.
LEMMA AccountsStep ==
    ASSUME AccountsInv, [AcNext]_acVars
    PROVE  AccountsInv'
<1> USE AccountsAssumption
    DEF AccountsInv, AccountsTypeOK, RegistrationIsOne, RowRemembersWrong, acVars, NoLogin
<1>1. CASE \E p \in AcPeople : LockInitialRegistration(p)
    BY <1>1 DEF LockInitialRegistration, RegistrationFree
<1>2. CASE \E p \in AcPeople : FirstUser(p)
    BY <1>2 DEF FirstUser
<1>3. CASE \E p \in AcPeople : Register(p)
    BY <1>3 DEF Register
<1>4. CASE \E p \in AcPeople : RegistrationLost(p)
    BY <1>4 DEF RegistrationLost
<1>5. CASE \E r \in AcReplicas, right \in BOOLEAN : Login(r, right)
    BY <1>5 DEF Login
<1>6. CASE \E r \in AcReplicas : RegisterFailedAttempt(r)
    BY <1>6 DEF RegisterFailedAttempt, FailedMore
<1>7. CASE \E r \in AcReplicas : FinalizeSuccessfulLogin(r)
    BY <1>7 DEF FinalizeSuccessfulLogin
<1>8. CASE \E r \in AcReplicas, t \in AcTokens : AddSession(r, t)
    BY <1>8 DEF AddSession
<1>9. CASE \E r \in AcReplicas : LoginLost(r)
    BY <1>9 DEF LoginLost
<1>10. CASE \E t \in AcTokens : DropExpired(t) \/ Logout(t) \/ RevokeAllSessions(t)
    BY <1>10 DEF DropExpired, Logout, RevokeAllSessions
<1>11. CASE AcTick
    BY <1>11 DEF AcTick
<1>12. CASE UNCHANGED acVars
    BY <1>12
<1>13. QED
    BY <1>1, <1>2, <1>3, <1>4, <1>5, <1>6, <1>7, <1>8, <1>9, <1>10, <1>11, <1>12 DEF AcNext

\* The invariant of password sign-in holds throughout.
LEMMA AccountsInvariant == AcSpec => []AccountsInv
<1>1. AcInit => AccountsInv
    BY AccountsAssumption
    DEF AcInit, AccountsInv, AccountsTypeOK, RegistrationIsOne, RowRemembersWrong, NoLogin
<1>2. AccountsInv /\ [AcNext]_acVars => AccountsInv'
    BY AccountsStep
<1>3. QED
    BY <1>1, <1>2, PTL DEF AcSpec

\* One owner registers, whoever asks at the same time on any replica, and no
\* login completes during a lock, not even one that read the account before it
\* (FirstUser, Register, RegisterFailedAttempt, FinalizeSuccessfulLogin).
THEOREM AccountsGuardedThroughout == AcSpec => AccountsAreGuarded
<1>1. AccountsInv => OneOwner
    <2>1. \A p : Cardinality({p}) = 1
        BY FS_Singleton
    <2>2. Cardinality({}) = 0
        BY FS_EmptySet
    <2>3. AccountsInv => Cardinality(users) = 0 \/ Cardinality(users) = 1
        BY <2>1, <2>2, Zenon DEF AccountsInv, RegistrationIsOne
    <2>4. QED
        BY <2>3 DEF OneOwner
<1>2. AccountsInv /\ [AcNext]_acVars
          => [\A r \in AcReplicas :
                 /\ logins[r].stage = "right"
                 /\ logins'[r].stage = "admitted"
                 => barred <= logins[r].at]_acVars
    <2> SUFFICES ASSUME AccountsInv, [AcNext]_acVars, NEW r \in AcReplicas,
                        logins[r].stage = "right", logins'[r].stage = "admitted"
                 PROVE  barred <= logins[r].at
        OBVIOUS
    <2> USE DEF AccountsInv, AccountsTypeOK, NoLogin
    <2>1. \E q \in AcReplicas : FinalizeSuccessfulLogin(q)
        BY DEF AcNext, acVars, LockInitialRegistration, FirstUser, Register, RegistrationLost, Login,
               RegisterFailedAttempt, AddSession, LoginLost, DropExpired, Logout, RevokeAllSessions, AcTick
    <2>2. FinalizeSuccessfulLogin(r)
        BY <2>1 DEF FinalizeSuccessfulLogin
    <2>3. QED
        BY <2>2 DEF FinalizeSuccessfulLogin, StillUnlocked, RowRemembersWrong
<1>3. QED
    BY <1>1, <1>2, AccountsInvariant, PTL DEF AcSpec, AccountsAreGuarded, LockoutHolds

-----------------------------------------------------------------------------
(* Providers                                                               *)

\* A row that is gone is not enabled.
GoneIsOff == \A c \in PvConfigs : ~config[c].there => ~config[c].enabled

\* A request that creates a row has it to itself.
CreatesAlone ==
    \A q \in PvRequests :
        editing[q].does = "create" =>
            /\ ~config[editing[q].id].there
            /\ \A p \in PvRequests :
                  editing[p].does = "create" /\ editing[p].id = editing[q].id => p = q

\* A request that enables, and that no other such request overtook, has read
\* every enabled row there is.
SeesTheOthers ==
    \A q \in PvRequests :
        editing[q].enabled /\ ~editing[q].late =>
            EnabledConfigs \ {editing[q].id} \subseteq editing[q].others

OneOrNone == ~raced => \A c, d \in EnabledConfigs : c = d

ProvidersInv ==
    ProvidersTypeOK /\ GoneIsOff /\ CreatesAlone /\ SeesTheOthers /\ OneOrNone

PvRow  == [there : BOOLEAN, enabled : BOOLEAN, version : 0 .. 1, tested : 0 .. NotTested]
PvEdit == [does : {"nothing", "create", "update", "enable", "test"}, id : PvConfigs,
           was : PvRow, enabled : BOOLEAN, others : SUBSET PvConfigs, late : BOOLEAN]

LEMMA PvEmptyTyped == NoConfig \in PvRow /\ NoEdit \in PvEdit
BY ProvidersAssumption DEF NoConfig, NoEdit, PvRow, PvEdit, NotTested

\* A commit writes rows, and frees its request.
LEMMA CommitTyped ==
    ASSUME ProvidersTypeOK, NEW q \in PvRequests, Commit(q)
    PROVE  ProvidersTypeOK'
<1> DEFINE e == editing[q]
<1>1. /\ config \in [PvConfigs -> PvRow] /\ editing \in [PvRequests -> PvEdit]
      /\ e \in PvEdit /\ NoEdit \in PvEdit
    BY PvEmptyTyped DEF ProvidersTypeOK, PvRow, PvEdit
<1>2. Written(e) \in PvRow
    BY <1>1 DEF Written, PvRow, PvEdit
<1>3. \A c \in PvConfigs : [config[c] EXCEPT !.enabled = FALSE] \in PvRow
    BY <1>1 DEF PvRow
<1>4. \A p \in PvRequests : [editing[p] EXCEPT !.late = TRUE] \in PvEdit
    BY <1>1 DEF PvEdit
<1>5. config' \in [PvConfigs -> PvRow]
    BY <1>1, <1>2, <1>3 DEF Commit
<1>6. editing' \in [PvRequests -> PvEdit]
    BY <1>1, <1>4 DEF Commit
<1>7. raced' \in BOOLEAN
    BY <1>1 DEF Commit, ProvidersTypeOK
<1>8. UNCHANGED <<listing, pvEdits>>
    BY DEF Commit
<1>9. QED
    BY <1>5, <1>6, <1>7, <1>8 DEF ProvidersTypeOK, PvRow, PvEdit

\* Every step of a request, of a deletion and of the registry keeps the types.
LEMMA ProvidersTypeStep ==
    ASSUME ProvidersTypeOK, [ProvidersNext]_pvVars
    PROVE  ProvidersTypeOK'
<1>1. ASSUME NEW q \in PvRequests, NEW does \in {"create", "update", "enable"}, NEW id \in PvConfigs,
             NEW enabled \in BOOLEAN, Edit(q, does, id, enabled)
      PROVE  ProvidersTypeOK'
    BY <1>1, ProvidersAssumption DEF Edit, OtherEnabled, EnabledConfigs, ProvidersTypeOK
<1>2. CASE \E q \in PvRequests : Commit(q)
    BY <1>2, CommitTyped
<1>3. CASE \E q \in PvRequests : RecordTestResult(q)
    <2> PICK q \in PvRequests : RecordTestResult(q)
        BY <1>3
    <2>1. config' \in [PvConfigs -> PvRow]
        BY DEF RecordTestResult, ProvidersTypeOK, PvRow, NotTested
    <2>2. QED
        BY <2>1, PvEmptyTyped DEF RecordTestResult, ProvidersTypeOK, PvRow, PvEdit
<1>4. CASE \E q \in PvRequests, c \in PvConfigs : Create(q, c) \/ Update(q, c) \/ SetEnabled(q, c)
    BY <1>1, <1>4 DEF Create, Update, SetEnabled
<1>5. CASE \E q \in PvRequests, c \in PvConfigs : TestConnection(q, c)
    <2> PICK q \in PvRequests, c \in PvConfigs : TestConnection(q, c)
        BY <1>5
    <2>1. [NoEdit EXCEPT !.does = "test", !.id = c, !.was = config[c]] \in PvEdit
        BY PvEmptyTyped DEF ProvidersTypeOK, PvRow, PvEdit
    <2>2. QED
        BY <2>1, ProvidersAssumption DEF TestConnection, ProvidersTypeOK, PvRow, PvEdit
<1>6. CASE \E c \in PvConfigs : DeleteConfig(c)
    BY <1>6, PvEmptyTyped, ProvidersAssumption DEF DeleteConfig, ProvidersTypeOK, PvRow
<1>7. CASE DiscoverAllCameras
    BY <1>7, ProvidersAssumption DEF DiscoverAllCameras, Served, EnabledConfigs, ProvidersTypeOK
<1>8. CASE ListingAges
    BY <1>8, ProvidersAssumption DEF ListingAges, ProvidersTypeOK
<1>9. CASE UNCHANGED pvVars
    BY <1>9 DEF pvVars, ProvidersTypeOK
<1>10. QED
    BY <1>2, <1>3, <1>4, <1>5, <1>6, <1>7, <1>8, <1>9 DEF ProvidersNext

\* The rest of the invariant, without the types.
EnabledInv == GoneIsOff /\ CreatesAlone /\ SeesTheOthers /\ OneOrNone

\* A request that reads the rows sees every enabled one.
LEMMA EditStep ==
    ASSUME ProvidersInv, NEW q \in PvRequests, NEW does \in {"create", "update", "enable"},
           NEW id \in PvConfigs, NEW enabled \in BOOLEAN, Edit(q, does, id, enabled)
    PROVE  EnabledInv'
<1> USE DEF ProvidersInv, ProvidersTypeOK
<1>1. UNCHANGED <<config, raced>>
    BY DEF Edit
<1>2. /\ editing'[q].does = does /\ editing'[q].id = id /\ editing'[q].enabled = enabled
      /\ editing'[q].others = OtherEnabled(id, enabled)
      /\ \A p \in PvRequests : p # q => editing'[p] = editing[p]
    BY DEF Edit
<1>3. GoneIsOff' /\ OneOrNone'
    BY <1>1 DEF GoneIsOff, OneOrNone, EnabledConfigs
<1>4. CreatesAlone'
    BY <1>1, <1>2 DEF Edit, CreatesAlone
<1>5. SeesTheOthers'
    BY <1>1, <1>2 DEF SeesTheOthers, OtherEnabled, EnabledConfigs
<1>6. QED
    BY <1>3, <1>4, <1>5 DEF EnabledInv

\* A commit that enables leaves no other row enabled; one that does not enables none.
LEMMA CommitStep ==
    ASSUME ProvidersInv, NEW q \in PvRequests, Commit(q)
    PROVE  EnabledInv'
<1> DEFINE e == editing[q]
<1> USE DEF ProvidersInv
<1>1. CASE UNCHANGED config
    <2>1. \A p \in PvRequests : editing'[p] = NoEdit \/ editing'[p] = editing[p]
                                \/ editing'[p] = [editing[p] EXCEPT !.late = TRUE]
        <3>1. \/ editing' = [editing EXCEPT ![q] = NoEdit]
              \/ editing' = [p \in PvRequests |->
                              IF p = q THEN NoEdit
                              ELSE IF editing[p] # NoEdit /\ e.enabled
                                   THEN [editing[p] EXCEPT !.late = TRUE] ELSE editing[p]]
            BY DEF Commit
        <3>2. CASE editing' = [editing EXCEPT ![q] = NoEdit]
            BY <3>2 DEF ProvidersTypeOK
        <3>3. CASE editing' = [p \in PvRequests |->
                                 IF p = q THEN NoEdit
                                 ELSE IF editing[p] # NoEdit /\ e.enabled
                                      THEN [editing[p] EXCEPT !.late = TRUE] ELSE editing[p]]
            BY <3>3
        <3>4. QED
            BY <3>1, <3>2, <3>3
    <2>2. \A p \in PvRequests :
             \/ editing'[p].does = "nothing" /\ ~editing'[p].enabled
             \/ /\ editing'[p].does = editing[p].does /\ editing'[p].id = editing[p].id
                /\ editing'[p].enabled = editing[p].enabled /\ editing'[p].others = editing[p].others
                /\ editing[p].late => editing'[p].late
        <3> TAKE p \in PvRequests
        <3>1. CASE editing'[p] = NoEdit
            BY <3>1 DEF NoEdit
        <3>2. CASE editing'[p] = editing[p]
            BY <3>2
        <3>3. CASE editing'[p] = [editing[p] EXCEPT !.late = TRUE]
            BY <3>3 DEF ProvidersTypeOK
        <3>4. QED
            BY <2>1, <3>1, <3>2, <3>3
    <2>3. raced => raced'
        BY DEF Commit
    <2>4. GoneIsOff' /\ CreatesAlone' /\ OneOrNone'
        BY <1>1, <2>2, <2>3 DEF GoneIsOff, CreatesAlone, OneOrNone, EnabledConfigs, ProvidersTypeOK
    <2>5. SeesTheOthers'
        BY <1>1, <2>2 DEF SeesTheOthers, EnabledConfigs
    <2>6. QED
        BY <2>4, <2>5 DEF EnabledInv
<1>2. CASE ~UNCHANGED config
    <2>1. /\ e.does \in {"create", "update", "enable"} /\ e.id \in PvConfigs /\ e.others \subseteq PvConfigs
          /\ \A c \in e.others \cup ({e.id} \ {d \in PvConfigs : e.does = "create"}) : config[c].there
          /\ config' = [c \in PvConfigs |->
                          IF c = e.id THEN Written(e)
                          ELSE IF c \in e.others THEN [config[c] EXCEPT !.enabled = FALSE]
                          ELSE config[c]]
          /\ raced' = (raced \/ (e.late /\ e.enabled))
          /\ editing' = [p \in PvRequests |->
                           IF p = q THEN NoEdit
                           ELSE IF editing[p] # NoEdit /\ e.enabled
                                THEN [editing[p] EXCEPT !.late = TRUE] ELSE editing[p]]
        BY <1>2 DEF Commit, ProvidersTypeOK
    <2>2. /\ config'[e.id].there
          /\ ~e.enabled => (config'[e.id].enabled => config[e.id].enabled /\ config[e.id].there)
          /\ \A c \in PvConfigs \ {e.id} :
                /\ config'[c].there = config[c].there
                /\ c \in e.others => ~config'[c].enabled
                /\ config'[c].enabled => config[c].enabled
        <3>1. config'[e.id] = Written(e)
            BY <2>1
        <3>2. /\ Written(e).there
              /\ ~e.enabled => (Written(e).enabled => config[e.id].enabled)
            BY DEF Written, ProvidersTypeOK
        <3>3. \A c \in PvConfigs \ {e.id} :
                 config'[c] = IF c \in e.others THEN [config[c] EXCEPT !.enabled = FALSE] ELSE config[c]
            BY <2>1
        <3>4. \A c \in PvConfigs \ {e.id} :
                 /\ config'[c].there = config[c].there
                 /\ c \in e.others => ~config'[c].enabled
                 /\ config'[c].enabled => config[c].enabled
            <4>1. ASSUME NEW c \in PvConfigs \ {e.id}
                  PROVE  /\ config'[c].there = config[c].there
                         /\ c \in e.others => ~config'[c].enabled
                         /\ config'[c].enabled => config[c].enabled
                <5>1. config[c] \in [there : BOOLEAN, enabled : BOOLEAN, version : 0 .. 1, tested : 0 .. NotTested]
                    BY DEF ProvidersTypeOK
                <5>2. CASE c \in e.others
                    BY <3>3, <5>1, <5>2
                <5>3. CASE c \notin e.others
                    BY <3>3, <5>3
                <5>4. QED
                    BY <5>2, <5>3
            <4>2. QED
                BY <4>1
        <3>5. QED
            <4>1. config[e.id].enabled => config[e.id].there
                BY <2>1 DEF GoneIsOff
            <4>2. config'[e.id].there
                BY <3>1, <3>2
            <4>3. ASSUME ~e.enabled, config'[e.id].enabled PROVE config[e.id].enabled
                BY <3>1, <3>2, <4>3
            <4>4. QED
                BY <3>4, <4>1, <4>2, <4>3, Zenon
    <2>3. /\ editing'[q].does = "nothing" /\ ~editing'[q].enabled
          /\ \A p \in PvRequests \ {q} :
                /\ editing'[p].does = editing[p].does /\ editing'[p].id = editing[p].id
                /\ editing'[p].enabled = editing[p].enabled /\ editing'[p].others = editing[p].others
                /\ editing[p].late => editing'[p].late
                /\ e.enabled /\ editing[p] # NoEdit => editing'[p].late
        BY <2>1 DEF NoEdit, ProvidersTypeOK
    <2>4. GoneIsOff'
        BY <2>2 DEF GoneIsOff
    <2>5. CreatesAlone'
        <3> SUFFICES ASSUME NEW p \in PvRequests, editing'[p].does = "create"
                     PROVE  /\ ~config'[editing'[p].id].there
                            /\ \A r \in PvRequests :
                                  editing'[r].does = "create" /\ editing'[r].id = editing'[p].id => r = p
            BY DEF CreatesAlone
        <3>1. p # q /\ editing[p].does = "create" /\ editing'[p].id = editing[p].id
            BY <2>3
        <3>2. editing[p].id # e.id
            <4>1. CASE e.does = "create"
                BY <3>1, <4>1 DEF CreatesAlone
            <4>2. CASE e.does # "create"
                BY <2>1, <3>1, <4>2 DEF CreatesAlone
            <4>3. QED
                BY <4>1, <4>2
        <3>3. editing[p].id \in PvConfigs
            BY DEF ProvidersTypeOK
        <3>4. QED
            BY <2>2, <2>3, <3>1, <3>2, <3>3 DEF CreatesAlone
    <2>6. ~e.enabled => EnabledConfigs' \subseteq EnabledConfigs
        BY <2>2 DEF EnabledConfigs
    <2>7. e.enabled /\ ~e.late => EnabledConfigs' \subseteq {e.id}
        BY <2>2 DEF EnabledConfigs, SeesTheOthers
    <2>8. OneOrNone'
        BY <2>1, <2>6, <2>7 DEF OneOrNone, ProvidersTypeOK
    <2>9. SeesTheOthers'
        <3> SUFFICES ASSUME NEW p \in PvRequests, editing'[p].enabled, ~editing'[p].late
                     PROVE  EnabledConfigs' \ {editing'[p].id} \subseteq editing'[p].others
            BY DEF SeesTheOthers
        <3>1. p # q /\ editing[p].enabled /\ ~editing[p].late /\ editing[p] # NoEdit
            BY <2>3 DEF NoEdit
        <3>2. ~e.enabled
            BY <2>3, <3>1 DEF ProvidersTypeOK
        <3>3. QED
            BY <2>3, <2>6, <3>1, <3>2 DEF SeesTheOthers
    <2>10. QED
        BY <2>4, <2>5, <2>8, <2>9 DEF EnabledInv
<1>3. QED
    BY <1>1, <1>2

\* Every other step enables nothing and creates nothing.
LEMMA ProvidersStep ==
    ASSUME ProvidersInv, [ProvidersNext]_pvVars
    PROVE  ProvidersInv'
<1> USE DEF ProvidersInv
<1> DEFINE Same(p) == /\ editing'[p].does = editing[p].does /\ editing'[p].id = editing[p].id
                      /\ editing'[p].enabled = editing[p].enabled /\ editing'[p].late = editing[p].late
                      /\ editing'[p].others = editing[p].others
           Idle(p) == editing'[p].does \in {"nothing", "test"} /\ ~editing'[p].enabled
<1>1. ASSUME \A c \in PvConfigs : /\ config'[c].there => config[c].there
                                  /\ config'[c].enabled => config[c].enabled
                                  /\ ~config'[c].there => ~config'[c].enabled,
             \A p \in PvRequests : Same(p) \/ Idle(p),
             UNCHANGED raced
      PROVE  EnabledInv'
    <2>1. GoneIsOff' /\ EnabledConfigs' \subseteq EnabledConfigs
        BY <1>1 DEF GoneIsOff, EnabledConfigs
    <2>2. CreatesAlone'
        BY <1>1 DEF CreatesAlone, ProvidersTypeOK
    <2>3. SeesTheOthers'
        BY <1>1, <2>1 DEF SeesTheOthers
    <2>4. OneOrNone'
        BY <1>1, <2>1 DEF OneOrNone
    <2>5. QED
        BY <2>1, <2>2, <2>3, <2>4 DEF EnabledInv
<1>2. CASE \E q \in PvRequests : Commit(q)
    BY <1>2, CommitStep, ProvidersTypeStep DEF EnabledInv
<1>3. CASE \E q \in PvRequests : RecordTestResult(q)
    <2> PICK q \in PvRequests : RecordTestResult(q)
        BY <1>3
    <2>1. /\ UNCHANGED raced /\ editing'[q] = NoEdit
          /\ \A p \in PvRequests : p # q => editing'[p] = editing[p]
        BY DEF RecordTestResult, ProvidersTypeOK
    <2>2. \A c \in PvConfigs : config'[c].there = config[c].there /\ config'[c].enabled = config[c].enabled
        BY DEF RecordTestResult, ProvidersTypeOK
    <2>3. Idle(q)
        BY <2>1 DEF NoEdit
    <2>4. EnabledInv'
        BY <1>1, <2>1, <2>2, <2>3 DEF GoneIsOff
    <2>5. QED
        BY <2>4, ProvidersTypeStep DEF EnabledInv
<1>4. CASE \E q \in PvRequests, c \in PvConfigs : Create(q, c) \/ Update(q, c) \/ SetEnabled(q, c)
    BY <1>4, EditStep, ProvidersTypeStep DEF Create, Update, SetEnabled, EnabledInv
<1>5. CASE \E q \in PvRequests, c \in PvConfigs : TestConnection(q, c)
    <2> PICK q \in PvRequests, c \in PvConfigs : TestConnection(q, c)
        BY <1>5
    <2>1. UNCHANGED <<config, raced>> /\ \A p \in PvRequests : p # q => editing'[p] = editing[p]
        BY DEF TestConnection, ProvidersTypeOK
    <2>2. editing'[q] = [NoEdit EXCEPT !.does = "test", !.id = c, !.was = config[c]]
        BY DEF TestConnection, ProvidersTypeOK
    <2>3. Idle(q)
        BY <2>2 DEF NoEdit
    <2>4. EnabledInv'
        BY <1>1, <2>1, <2>3 DEF GoneIsOff
    <2>5. QED
        BY <2>4, ProvidersTypeStep DEF EnabledInv
<1>6. CASE \E c \in PvConfigs : DeleteConfig(c)
    BY <1>1, <1>6, ProvidersTypeStep DEF DeleteConfig, NoConfig, GoneIsOff, ProvidersTypeOK, EnabledInv
<1>7. CASE DiscoverAllCameras \/ ListingAges \/ UNCHANGED pvVars
    BY <1>1, <1>7, ProvidersTypeStep
    DEF DiscoverAllCameras, ListingAges, pvVars, GoneIsOff, EnabledInv
<1>8. QED
    BY <1>2, <1>3, <1>4, <1>5, <1>6, <1>7 DEF ProvidersNext

\* The invariant of the configurations holds throughout.
LEMMA ProvidersInvariant == ProvidersSpec => []ProvidersInv
<1>1. ProvidersInit => ProvidersInv
    <2> SUFFICES ASSUME ProvidersInit PROVE ProvidersInv
        OBVIOUS
    <2>1. ProvidersTypeOK
        <3>1. config \in [PvConfigs -> PvRow] /\ editing \in [PvRequests -> PvEdit]
            BY PvEmptyTyped DEF ProvidersInit
        <3>2. listing \in [of : PvConfigs \cup {"none", "environment"}, age : 0 .. CacheTtl]
            BY ProvidersAssumption DEF ProvidersInit, NoListing
        <3>3. pvEdits \in 0 .. PvEdits /\ raced \in BOOLEAN
            <4>1. raced \in BOOLEAN
                BY Zenon DEF ProvidersInit
            <4>2. QED
                BY <4>1, ProvidersAssumption DEF ProvidersInit
        <3>4. QED
            BY <3>1, <3>2, <3>3 DEF ProvidersTypeOK, PvRow, PvEdit
    <2>2. GoneIsOff /\ CreatesAlone /\ SeesTheOthers /\ OneOrNone
        BY DEF ProvidersInit, GoneIsOff, CreatesAlone, SeesTheOthers, OneOrNone, EnabledConfigs,
               NoConfig, NoEdit
    <2>3. QED
        BY <2>1, <2>2 DEF ProvidersInv
<1>2. ProvidersInv /\ [ProvidersNext]_pvVars => ProvidersInv'
    BY ProvidersStep
<1>3. QED
    BY <1>1, <1>2, PTL DEF ProvidersSpec

\* At most one configuration of a type is enabled, whatever is created, edited,
\* switched, tested and deleted at the same time, as long as no request that
\* enables overtook another (Edit, Written, Commit).
THEOREM OneEnabledThroughout == ProvidersSpec => []OneEnabled
<1>1. ProvidersInv => OneEnabled
    <2> SUFFICES ASSUME ProvidersInv, ~raced PROVE Cardinality(EnabledConfigs) <= 1
        BY DEF OneEnabled
    <2>1. EnabledConfigs = {} \/ \E c : EnabledConfigs = {c}
        BY DEF ProvidersInv, OneOrNone
    <2>2. \A c : Cardinality({c}) = 1
        BY FS_Singleton
    <2>3. Cardinality({}) = 0
        BY FS_EmptySet
    <2>4. Cardinality(EnabledConfigs) = 0 \/ Cardinality(EnabledConfigs) = 1
        BY <2>1, <2>2, <2>3, Zenon
    <2>5. QED
        BY <2>4
<1>2. QED
    BY <1>1, ProvidersInvariant, PTL

-----------------------------------------------------------------------------
(* Google sign-in                                                          *)

\* Somebody made each account there is, and an identity is linked to an account
\* that its own person made.
AccountsHaveMakers ==
    \A e \in GoMails :
        /\ mine[e] = GoNone <=> ~HasAccount(e)
        /\ account[e].sub # GoNone => mine[e] = account[e].sub

\* A secret that a cookie or a row carries was handed out, so that the next one
\* is nobody's yet.
SecretsAreFresh ==
    /\ \A b \in GoPeople : binding[b] # GoNone => binding[b] \in issued
    /\ \A s \in GoStates : pending[s].intent # "none" => s \in issued

\* A state is bound to the browser that started it, and a link was asked for by
\* the person who made the account.
RowsAreOwn ==
    \A s \in GoStates :
        /\ pending[s].intent \in {"login", "link"} =>
              /\ pending[s].by \in GoPeople
              /\ \A b \in GoPeople : binding[b] = s => pending[s].by = b
        /\ pending[s].intent \in {"link", "link_ticket"} => pending[s].user \in GoMails
        /\ pending[s].intent = "link" => mine[pending[s].user] = pending[s].by

\* A callback was told the identity of its own browser's person, and opens a
\* session to, or links, an account of that person.
CallbacksAreOwn ==
    \A s \in GoStates :
        /\ callback[s].stage # "none" => callback[s].browser \in GoPeople
        /\ callback[s].stage \in {"login", "create", "link", "linking"} =>
              callback[s].sub = callback[s].browser
        /\ callback[s].stage \in {"link", "linking", "session"} =>
              callback[s].user \in GoMails /\ mine[callback[s].user] = callback[s].browser

GoogleInv ==
    /\ GoogleTypeOK /\ AccountsHaveMakers /\ SecretsAreFresh
    /\ RowsAreOwn /\ CallbacksAreOwn /\ SignedInAsOwn

GoAccountType  == [role : {"none", "pending", "admin"}, disabled : BOOLEAN,
                   password : BOOLEAN, sub : GoPeople \cup {GoNone}]
GoRowType      == [intent : {"none", "login", "link", "link_ticket"},
                   user : GoMails \cup {GoNone}, by : GoPeople \cup {GoNone}, expired : BOOLEAN]
GoCallbackType == [stage : {"none", "login", "link", "create", "linking", "session"},
                   browser : GoPeople \cup {GoNone}, sub : GoPeople \cup {GoNone},
                   user : GoMails \cup {GoNone}]

LEMMA GoEmptyTyped ==
    NoAccount \in GoAccountType /\ NoState \in GoRowType /\ NoCallback \in GoCallbackType
BY DEF NoAccount, NoState, NoCallback, GoAccountType, GoRowType, GoCallbackType

\* A column of a row, or a field of a callback, takes any value of its type.
LEMMA GoFieldsTyped ==
    /\ \A a \in GoAccountType :
          /\ \A role \in {"none", "pending", "admin"} : [a EXCEPT !.role = role] \in GoAccountType
          /\ [a EXCEPT !.disabled = TRUE] \in GoAccountType
          /\ \A sub \in GoPeople \cup {GoNone} : [a EXCEPT !.sub = sub] \in GoAccountType
    /\ \A row \in GoRowType : [row EXCEPT !.expired = TRUE] \in GoRowType
    /\ \A c \in GoCallbackType :
          \A stage \in {"none", "login", "link", "create", "linking", "session"} :
             [c EXCEPT !.stage = stage] \in GoCallbackType
<1>1. ASSUME NEW a \in GoAccountType
      PROVE  /\ \A role \in {"none", "pending", "admin"} : [a EXCEPT !.role = role] \in GoAccountType
             /\ [a EXCEPT !.disabled = TRUE] \in GoAccountType
             /\ \A sub \in GoPeople \cup {GoNone} : [a EXCEPT !.sub = sub] \in GoAccountType
    BY DEF GoAccountType
<1>2. ASSUME NEW row \in GoRowType PROVE [row EXCEPT !.expired = TRUE] \in GoRowType
    BY DEF GoRowType
<1>3. ASSUME NEW c \in GoCallbackType,
             NEW stage \in {"none", "login", "link", "create", "linking", "session"}
      PROVE  [c EXCEPT !.stage = stage] \in GoCallbackType
    BY DEF GoCallbackType
<1>4. QED
    BY <1>1, <1>2, <1>3

LEMMA GoAreTyped ==
    ASSUME GoogleTypeOK
    PROVE  /\ account \in [GoMails -> GoAccountType]
           /\ pending \in [GoStates -> GoRowType]
           /\ callback \in [GoStates -> GoCallbackType]
BY DEF GoogleTypeOK, GoAccountType, GoRowType, GoCallbackType

LEMMA EndsTyped ==
    ASSUME GoogleTypeOK, NEW s \in GoStates, Ends(s)
    PROVE  /\ callback' \in [GoStates -> GoCallbackType]
           /\ binding' \in [GoPeople -> GoStates \cup {GoNone}]
BY GoEmptyTyped DEF Ends, GoogleTypeOK, GoCallbackType

LEMMA PurgedTyped ==
    ASSUME GoogleTypeOK
    PROVE  Purged \in [GoStates -> GoRowType]
BY GoEmptyTyped DEF Purged, GoogleTypeOK, GoRowType

\* The typed parts of a step, put together.
LEMMA GoTypesBut ==
    ASSUME GoogleTypeOK,
           account' = account \/ account' \in [GoMails -> GoAccountType],
           pending' = pending \/ pending' \in [GoStates -> GoRowType],
           callback' = callback \/ callback' \in [GoStates -> GoCallbackType],
           issued' \subseteq GoStates,
           binding' \in [GoPeople -> GoStates \cup {GoNone}],
           cookie' \in [GoPeople -> GoMails \cup {GoNone}],
           mine' \in [GoMails -> GoPeople \cup {GoNone}]
    PROVE  GoogleTypeOK'
BY DEF GoogleTypeOK, GoAccountType, GoRowType, GoCallbackType

\* Every step of a browser, of Google and of the operator keeps the types.
LEMMA GoogleTypeStep ==
    ASSUME GoogleInv, [GoNext]_goVars
    PROVE  GoogleTypeOK'
<1> USE GoogleAssumption DEF GoogleInv
<1>1. CASE \E e \in GoMails, b \in GoPeople : RegisterOwner(b, e)
    <2> PICK e \in GoMails, b \in GoPeople : RegisterOwner(b, e)
        BY <1>1
    <2>1. [NoAccount EXCEPT !.role = "admin", !.password = TRUE] \in GoAccountType
        BY DEF NoAccount, GoAccountType
    <2>2. account' \in [GoMails -> GoAccountType]
        BY <2>1 DEF RegisterOwner, GoogleTypeOK, GoAccountType
    <2>3. QED
        BY <2>2, GoTypesBut DEF RegisterOwner, GoogleTypeOK
<1>2. CASE \E e \in GoMails : PasswordLogin(e)
    <2> PICK e \in GoMails : PasswordLogin(e)
        BY <1>2
    <2>1. QED
        BY GoTypesBut DEF PasswordLogin, GoogleTypeOK
<1>3. CASE \E e \in GoMails : OperatorDisables(e)
    <2> PICK e \in GoMails : OperatorDisables(e)
        BY <1>3
    <2>1. account' \in [GoMails -> GoAccountType]
        BY GoAreTyped, GoFieldsTyped DEF OperatorDisables
    <2>2. QED
        BY <2>1, GoTypesBut DEF OperatorDisables, GoogleTypeOK
<1>4. CASE \E b \in GoPeople, s \in GoStates : GoogleLink(b, s)
    <2> PICK b \in GoPeople, s \in GoStates : GoogleLink(b, s)
        BY <1>4
    <2>1. [NoState EXCEPT !.intent = "link_ticket", !.user = cookie[b]] \in GoRowType
        BY DEF NoState, GoRowType, GoogleTypeOK
    <2>2. pending' \in [GoStates -> GoRowType]
        BY <2>1 DEF GoogleLink, GoogleTypeOK, GoRowType
    <2>3. QED
        BY <2>2, GoTypesBut DEF GoogleLink, GoogleTypeOK
<1>5. ASSUME NEW rows \in [GoStates -> GoRowType], NEW b \in GoPeople, NEW s \in GoStates,
             NEW intent \in {"login", "link"}, NEW user \in GoMails \cup {GoNone},
             Starts(rows, b, s, intent, user), UNCHANGED <<account, cookie, callback, mine>>
      PROVE  GoogleTypeOK'
    <2>1. [intent |-> intent, user |-> user, by |-> b, expired |-> FALSE] \in GoRowType
        BY DEF GoRowType
    <2>2. pending' \in [GoStates -> GoRowType]
        BY <1>5, <2>1 DEF Starts
    <2>3. QED
        BY <1>5, <2>2, GoTypesBut DEF Starts, GoogleTypeOK
<1>6. CASE \E b \in GoPeople, s \in GoStates : StartLogin(b, s)
    BY <1>5, <1>6, PurgedTyped DEF StartLogin
<1>7. CASE \E b \in GoPeople, s, t \in GoStates : StartLink(b, t, s)
    <2> PICK b \in GoPeople, s \in GoStates, t \in GoStates : StartLink(b, t, s)
        BY <1>7
    <2> DEFINE rows == [Purged EXCEPT ![t] = NoState]
    <2>1. rows \in [GoStates -> GoRowType] /\ Purged[t].user \in GoMails \cup {GoNone}
        BY PurgedTyped, GoEmptyTyped DEF GoRowType
    <2> HIDE DEF rows
    <2>2. \/ Starts(rows, b, s, "link", Purged[t].user)
          \/ /\ pending' = rows /\ binding' = [binding EXCEPT ![b] = GoNone]
             /\ UNCHANGED issued
        BY DEF StartLink, rows
    <2>3. UNCHANGED <<account, cookie, callback, mine>>
        BY DEF StartLink
    <2>4. QED
        BY <1>5, <2>1, <2>2, <2>3, GoTypesBut DEF GoogleTypeOK
<1>8. CASE \E b \in GoPeople, s \in GoStates : GoogleCallback(b, s)
    <2> PICK b \in GoPeople, s \in GoStates : GoogleCallback(b, s)
        BY <1>8
    <2>1. pending' \in [GoStates -> GoRowType]
        BY GoEmptyTyped DEF GoogleCallback, GoogleTypeOK, GoRowType
    <2>2. Acceptable(b, s) =>
             [stage |-> pending[s].intent, browser |-> b, sub |-> pending[s].by,
              user |-> pending[s].user] \in GoCallbackType
        BY DEF Acceptable, GoogleTypeOK, GoCallbackType
    <2>3. callback' = callback \/ callback' \in [GoStates -> GoCallbackType]
        BY <2>2 DEF GoogleCallback, GoogleTypeOK, GoCallbackType
    <2>4. QED
        BY <2>1, <2>3, GoTypesBut DEF GoogleCallback, GoogleTypeOK
<1>9. CASE \E b \in GoPeople : SessionEnds(b)
    BY <1>9, GoTypesBut DEF SessionEnds, GoogleTypeOK
<1>10. CASE \E s \in GoStates : RowExpires(s)
    <2> PICK s \in GoStates : RowExpires(s)
        BY <1>10
    <2>1. pending' \in [GoStates -> GoRowType]
        BY GoAreTyped, GoFieldsTyped DEF RowExpires
    <2>2. QED
        BY <2>1, GoTypesBut DEF RowExpires, GoogleTypeOK
<1>11. CASE \E s \in GoStates : CallbackFails(s)
    BY <1>11, EndsTyped, GoTypesBut DEF CallbackFails, GoogleTypeOK
<1>12. ASSUME NEW s \in GoStates, NEW stage \in {"create", "linking"},
              callback' = [callback EXCEPT ![s].stage = stage]
       PROVE  callback' \in [GoStates -> GoCallbackType]
    BY <1>12, GoAreTyped, GoFieldsTyped
<1>13. ASSUME NEW s \in GoStates, NEW e \in GoMails,
              callback' = [callback EXCEPT ![s].stage = "session", ![s].user = e]
       PROVE  callback' \in [GoStates -> GoCallbackType]
    <2>1. [[callback[s] EXCEPT !.stage = "session"] EXCEPT !.user = e] \in GoCallbackType
        <3> DEFINE c == [callback[s] EXCEPT !.stage = "session"]
        <3>1. c \in GoCallbackType
            BY GoAreTyped, GoFieldsTyped
        <3> HIDE DEF c
        <3>2. [c EXCEPT !.user = e] \in GoCallbackType
            BY <3>1 DEF GoCallbackType
        <3>3. QED
            BY <3>2 DEF c
    <2>2. QED
        BY <1>13, <2>1, GoAreTyped
<1>14. CASE \E s \in GoStates : LoginMatches(s)
    <2> PICK s \in GoStates : LoginMatches(s)
        BY <1>14
    <2>1. PICK e \in GoMails, role \in {"none", "pending", "admin"} :
             /\ account' = account \/ account' = [account EXCEPT ![e].role = role]
             /\ \/ callback' = [callback EXCEPT ![s].stage = "session", ![s].user = e] /\ UNCHANGED binding
                \/ Ends(s)
             /\ UNCHANGED <<pending, issued, cookie, mine>>
        BY DEF LoginMatches, Matches, OfSub, GoogleTypeOK
    <2>2. account' = account \/ account' \in [GoMails -> GoAccountType]
        <3>1. [account[e] EXCEPT !.role = role] \in GoAccountType
            BY GoAreTyped, GoFieldsTyped
        <3>2. QED
            BY <2>1, <3>1, GoAreTyped
    <2>3. callback' \in [GoStates -> GoCallbackType] /\ binding' \in [GoPeople -> GoStates \cup {GoNone}]
        BY <1>13, <2>1, EndsTyped DEF GoogleTypeOK
    <2>4. QED
        BY <2>1, <2>2, <2>3, GoTypesBut DEF GoogleTypeOK
<1>15. CASE \E s \in GoStates : LoginUnknown(s)
    BY <1>12, <1>15, EndsTyped, GoTypesBut DEF LoginUnknown, GoogleTypeOK
<1>16. CASE \E s \in GoStates : LoginCreates(s)
    <2> PICK s \in GoStates : LoginCreates(s)
        BY <1>16
    <2> DEFINE sub == callback[s].sub
               e == GoMailOf[sub]
               new == [NoAccount EXCEPT !.role = RoleFor(e), !.sub = sub]
    <2>1. sub \in GoPeople /\ e \in GoMails
        BY DEF LoginCreates, CallbacksAreOwn
    <2>2. new \in GoAccountType
        BY <2>1 DEF NoAccount, RoleFor, GoAccountType
    <2> HIDE DEF e, new, sub
    <2>3. /\ account' = account \/ account' = [account EXCEPT ![e] = new]
          /\ mine' = mine \/ mine' = [mine EXCEPT ![e] = sub]
          /\ \/ callback' = [callback EXCEPT ![s].stage = "session", ![s].user = e] /\ UNCHANGED binding
             \/ Ends(s)
          /\ UNCHANGED <<pending, issued, cookie>>
        BY DEF LoginCreates, e, new, sub
    <2>4. account' = account \/ account' \in [GoMails -> GoAccountType]
        BY <2>2, <2>3, GoAreTyped
    <2>5. callback' \in [GoStates -> GoCallbackType] /\ binding' \in [GoPeople -> GoStates \cup {GoNone}]
        BY <1>13, <2>1, <2>3, EndsTyped DEF GoogleTypeOK
    <2>6. QED
        BY <2>1, <2>3, <2>4, <2>5, GoTypesBut DEF GoogleTypeOK
<1>17. CASE \E s \in GoStates : IssueSession(s)
    <2> PICK s \in GoStates : IssueSession(s)
        BY <1>17
    <2>1. cookie' \in [GoPeople -> GoMails \cup {GoNone}]
        BY DEF IssueSession, GoogleTypeOK
    <2>2. QED
        BY <2>1, EndsTyped, GoTypesBut DEF IssueSession, GoogleTypeOK
<1>18. CASE \E s \in GoStates : LinkChecks(s)
    BY <1>12, <1>18, EndsTyped, GoTypesBut DEF LinkChecks, GoogleTypeOK
<1>19. CASE \E s \in GoStates : LinkWrites(s)
    <2> PICK s \in GoStates : LinkWrites(s)
        BY <1>19
    <2>1. account' = account \/ account' \in [GoMails -> GoAccountType]
        <3> DEFINE e == callback[s].user
                   sub == callback[s].sub
        <3>1. e \in GoMails /\ sub \in GoPeople
            BY DEF LinkWrites, CallbacksAreOwn
        <3>2. [account[e] EXCEPT !.sub = sub] \in GoAccountType
            BY <3>1, GoAreTyped, GoFieldsTyped
        <3>3. account' = account \/ account' = [account EXCEPT ![e].sub = sub]
            BY DEF LinkWrites
        <3> HIDE DEF e, sub
        <3>4. QED
            BY <3>1, <3>2, <3>3, GoAreTyped
    <2>2. QED
        BY <2>1, EndsTyped, GoTypesBut DEF LinkWrites, GoogleTypeOK
<1>20. CASE UNCHANGED goVars
    BY <1>20 DEF goVars, GoogleTypeOK
<1>21. QED
    BY <1>1, <1>2, <1>3, <1>4, <1>6, <1>7, <1>8, <1>9, <1>10, <1>11, <1>14, <1>15, <1>16, <1>17,
       <1>18, <1>19, <1>20 DEF GoNext

\* An account keeps the person who made it.
KeepsMakers == \A e \in GoMails : mine[e] # GoNone => mine'[e] = mine[e]

\* Accounts are made once, and linked to nobody but their makers.
LEMMA MakersStep ==
    ASSUME GoogleInv, [GoNext]_goVars
    PROVE  AccountsHaveMakers' /\ KeepsMakers
<1> USE GoogleAssumption DEF GoogleInv
<1>1. ASSUME \A e \in GoMails : /\ HasAccount(e) <=> account'[e].role # "none"
                               /\ account'[e].sub = account[e].sub,
             UNCHANGED mine
      PROVE  AccountsHaveMakers' /\ KeepsMakers
    BY <1>1 DEF AccountsHaveMakers, KeepsMakers, HasAccount
<1>2. ASSUME NEW e \in GoMails, NEW b \in GoPeople, NEW new \in GoAccountType,
             ~HasAccount(e), new.role # "none", new.sub = GoNone \/ new.sub = b,
             account' = [account EXCEPT ![e] = new], mine' = [mine EXCEPT ![e] = b]
      PROVE  AccountsHaveMakers' /\ KeepsMakers
    <2>1. account'[e] = new /\ \A f \in GoMails : f # e => account'[f] = account[f]
        BY <1>2, GoAreTyped
    <2>2. mine'[e] = b /\ \A f \in GoMails : f # e => mine'[f] = mine[f]
        BY <1>2 DEF GoogleTypeOK
    <2>3. KeepsMakers
        BY <1>2, <2>2 DEF KeepsMakers, AccountsHaveMakers
    <2>4. AccountsHaveMakers'
        BY <1>2, <2>1, <2>2 DEF AccountsHaveMakers, HasAccount
    <2>5. QED
        BY <2>3, <2>4
<1>3. CASE \E e \in GoMails, b \in GoPeople : RegisterOwner(b, e)
    <2> PICK e \in GoMails, b \in GoPeople : RegisterOwner(b, e)
        BY <1>3
    <2> DEFINE new == [NoAccount EXCEPT !.role = "admin", !.password = TRUE]
    <2>1. new \in GoAccountType /\ new.role = "admin" /\ new.sub = GoNone
        BY DEF NoAccount, GoAccountType
    <2> HIDE DEF new
    <2>2. ~HasAccount(e) /\ account' = [account EXCEPT ![e] = new] /\ mine' = [mine EXCEPT ![e] = b]
        BY DEF RegisterOwner, new
    <2>3. QED
        BY <1>2, <2>1, <2>2
<1>4. CASE \E e \in GoMails : OperatorDisables(e)
    BY <1>1, <1>4, GoAreTyped DEF OperatorDisables, HasAccount, GoAccountType
<1>5. CASE \E s \in GoStates : LoginMatches(s)
    <2> PICK s \in GoStates : LoginMatches(s)
        BY <1>5
    <2>1. PICK e \in GoMails, role \in {"pending", "admin"} :
             /\ HasAccount(e)
             /\ account' = account \/ account' = [account EXCEPT ![e].role = role]
             /\ UNCHANGED mine
        BY DEF LoginMatches, Matches, OfSub, GoogleTypeOK, HasAccount
    <2>2. QED
        BY <1>1, <2>1, GoAreTyped DEF HasAccount, GoAccountType
<1>6. CASE \E s \in GoStates : LoginCreates(s)
    <2> PICK s \in GoStates : LoginCreates(s)
        BY <1>6
    <2> DEFINE sub == callback[s].sub
               e == GoMailOf[sub]
               new == [NoAccount EXCEPT !.role = RoleFor(e), !.sub = sub]
    <2>1. sub \in GoPeople /\ e \in GoMails
        BY DEF LoginCreates, CallbacksAreOwn
    <2>2. new \in GoAccountType /\ new.role # "none" /\ new.sub = sub
        BY <2>1 DEF NoAccount, RoleFor, GoAccountType
    <2> HIDE DEF e, new, sub
    <2>3. \/ UNCHANGED <<account, mine>>
          \/ ~HasAccount(e) /\ account' = [account EXCEPT ![e] = new] /\ mine' = [mine EXCEPT ![e] = sub]
        BY DEF LoginCreates, e, new, sub
    <2>4. QED
        BY <1>1, <1>2, <2>1, <2>2, <2>3 DEF HasAccount
<1>7. CASE \E s \in GoStates : LinkWrites(s)
    <2> PICK s \in GoStates : LinkWrites(s)
        BY <1>7
    <2> DEFINE e == callback[s].user
               sub == callback[s].sub
    <2>1. e \in GoMails /\ sub \in GoPeople /\ mine[e] = sub
        BY DEF LinkWrites, CallbacksAreOwn
    <2>2. account' = account \/ account' = [account EXCEPT ![e].sub = sub]
        BY DEF LinkWrites
    <2> HIDE DEF e, sub
    <2>3. \A f \in GoMails :
             /\ account'[f].role = account[f].role
             /\ account'[f].sub = account[f].sub \/ (f = e /\ account'[f].sub = sub)
        BY <2>2, GoAreTyped DEF GoAccountType
    <2>4. UNCHANGED mine
        BY DEF LinkWrites
    <2>5. QED
        BY <2>1, <2>3, <2>4 DEF AccountsHaveMakers, KeepsMakers, HasAccount
<1>8. CASE UNCHANGED <<account, mine>>
    BY <1>1, <1>8 DEF HasAccount
<1>9. QED
    BY <1>3, <1>4, <1>5, <1>6, <1>7, <1>8
    DEF GoNext, goVars, PasswordLogin, GoogleLink, StartLogin, Starts, GoogleCallback, StartLink, SessionEnds,
        RowExpires, CallbackFails, LoginUnknown, IssueSession, LinkChecks

\* What the end of a callback leaves.
LEMMA EndsMeans ==
    ASSUME GoogleTypeOK, NEW s \in GoStates, Ends(s)
    PROVE  /\ callback'[s].stage = "none" /\ \A t \in GoStates : t # s => callback'[t] = callback[t]
           /\ \A b \in GoPeople : binding'[b] = binding[b] \/ binding'[b] = GoNone
BY DEF Ends, GoogleTypeOK, NoCallback

\* The rows that a request leaves are those it found, or some of them.
LEMMA PurgedMeans ==
    ASSUME GoogleTypeOK, NEW s \in GoStates
    PROVE  Purged[s] = pending[s] \/ Purged[s] = NoState
BY DEF Purged

\* A callback that ends, or goes on, hands out no secret and binds no browser.
Unbinds ==
    /\ UNCHANGED <<pending, issued>>
    /\ \A b \in GoPeople : binding'[b] = binding[b] \/ binding'[b] = GoNone

LEMMA UnbindSteps ==
    ASSUME GoogleTypeOK, NEW s \in GoStates,
           \/ CallbackFails(s) \/ LoginMatches(s) \/ LoginUnknown(s) \/ LoginCreates(s)
           \/ IssueSession(s) \/ LinkChecks(s) \/ LinkWrites(s)
    PROVE  Unbinds
BY EndsMeans
DEF Unbinds, CallbackFails, LoginMatches, LoginUnknown, LoginCreates, IssueSession, LinkChecks, LinkWrites

\* Every secret is fresh when it is handed out, and stays with the browser that
\* started it.
LEMMA RowsStep ==
    ASSUME GoogleInv, [GoNext]_goVars
    PROVE  SecretsAreFresh' /\ RowsAreOwn'
<1> USE GoogleAssumption DEF GoogleInv
<1>1. KeepsMakers
    BY MakersStep
<1>2. \A s \in GoStates : pending[s].intent = "link" => mine'[pending[s].user] = pending[s].by
    BY <1>1 DEF KeepsMakers, RowsAreOwn
<1>3. ASSUME issued' = issued,
             \A s \in GoStates :
                \/ pending'[s].intent = "none"
                \/ /\ pending'[s].intent = pending[s].intent /\ pending'[s].user = pending[s].user
                   /\ pending'[s].by = pending[s].by,
             \A b \in GoPeople : binding'[b] = binding[b] \/ binding'[b] = GoNone
      PROVE  SecretsAreFresh' /\ RowsAreOwn'
    <2>1. SecretsAreFresh'
        BY <1>3 DEF SecretsAreFresh
    <2>2. RowsAreOwn'
        BY <1>2, <1>3 DEF RowsAreOwn
    <2>3. QED
        BY <2>1, <2>2
<1>4. ASSUME NEW s \in GoStates, s \notin issued, issued' = issued \cup {s},
             \A t \in GoStates : t # s => pending'[t] = pending[t] \/ pending'[t].intent = "none",
             NEW b \in GoPeople,
             \A c \in GoPeople : c # b => binding'[c] = binding[c],
             \/ /\ pending'[s].intent = "link_ticket" /\ pending'[s].user \in GoMails
                /\ binding' = binding
             \/ /\ pending'[s].intent \in {"login", "link"} /\ pending'[s].by = b /\ binding'[b] = s
                /\ pending'[s].intent = "link" =>
                      pending'[s].user \in GoMails /\ mine'[pending'[s].user] = b
      PROVE  SecretsAreFresh' /\ RowsAreOwn'
    <2>1. SecretsAreFresh'
        BY <1>4 DEF SecretsAreFresh
    <2>2. \A c \in GoPeople : binding[c] # s
        BY <1>4 DEF SecretsAreFresh
    <2>3. RowsAreOwn'
        <3> SUFFICES ASSUME NEW t \in GoStates
                     PROVE  /\ pending'[t].intent \in {"login", "link"} =>
                                  /\ pending'[t].by \in GoPeople
                                  /\ \A c \in GoPeople : binding'[c] = t => pending'[t].by = c
                            /\ pending'[t].intent \in {"link", "link_ticket"} => pending'[t].user \in GoMails
                            /\ pending'[t].intent = "link" => mine'[pending'[t].user] = pending'[t].by
            BY DEF RowsAreOwn
        <3>1. CASE t = s
            BY <1>4, <2>2, <3>1
        <3>2. CASE t # s
            BY <1>2, <1>4, <3>2 DEF RowsAreOwn
        <3>3. QED
            BY <3>1, <3>2
    <2>4. QED
        BY <2>1, <2>3
<1>5. CASE \E b \in GoPeople, s \in GoStates : GoogleLink(b, s)
    <2> PICK b \in GoPeople, s \in GoStates : GoogleLink(b, s)
        BY <1>5
    <2>1. cookie[b] \in GoMails
        BY DEF GoogleLink, ActiveUser, GoogleTypeOK
    <2>2. /\ pending'[s] = [NoState EXCEPT !.intent = "link_ticket", !.user = cookie[b]]
          /\ \A t \in GoStates : t # s => pending'[t] = pending[t]
          /\ s \notin issued /\ issued' = issued \cup {s} /\ binding' = binding
        BY DEF GoogleLink, GoogleTypeOK
    <2>3. pending'[s].intent = "link_ticket" /\ pending'[s].user = cookie[b]
        BY <2>2 DEF NoState
    <2>4. QED
        BY <1>4, <2>1, <2>2, <2>3
<1>6. ASSUME NEW rows \in [GoStates -> GoRowType], NEW b \in GoPeople, NEW s \in GoStates,
             NEW intent \in {"login", "link"}, NEW user,
             \A t \in GoStates : rows[t] = pending[t] \/ rows[t].intent = "none",
             Starts(rows, b, s, intent, user), UNCHANGED <<account, cookie, callback, mine>>,
             intent = "link" => user \in GoMails /\ mine[user] = b
      PROVE  SecretsAreFresh' /\ RowsAreOwn'
    <2>1. /\ pending'[s] = [intent |-> intent, user |-> user, by |-> b, expired |-> FALSE]
          /\ \A t \in GoStates : t # s => pending'[t] = rows[t]
          /\ s \notin issued /\ issued' = issued \cup {s}
          /\ binding'[b] = s /\ \A c \in GoPeople : c # b => binding'[c] = binding[c]
        BY <1>6 DEF Starts, GoogleTypeOK
    <2>2. pending'[s].intent = intent /\ pending'[s].by = b /\ pending'[s].user = user
        BY <2>1
    <2>3. QED
        BY <1>4, <1>6, <2>1, <2>2
<1>7. \A s \in GoStates : Purged[s] = pending[s] \/ Purged[s].intent = "none"
    BY PurgedMeans DEF NoState
<1>8. CASE \E b \in GoPeople, s \in GoStates : StartLogin(b, s)
    BY <1>6, <1>7, <1>8, PurgedTyped DEF StartLogin
<1>9. CASE \E b \in GoPeople, s, t \in GoStates : StartLink(b, t, s)
    <2> PICK b \in GoPeople, s \in GoStates, t \in GoStates : StartLink(b, t, s)
        BY <1>9
    <2> DEFINE rows == [Purged EXCEPT ![t] = NoState]
               user == Purged[t].user
    <2>1. /\ rows \in [GoStates -> GoRowType]
          /\ \A u \in GoStates : rows[u] = pending[u] \/ rows[u].intent = "none"
        BY <1>7, PurgedTyped, GoEmptyTyped DEF NoState
    <2>2. UNCHANGED <<account, cookie, callback, mine>>
        BY DEF StartLink
    <2>3. CASE Purged[t].intent = "link_ticket" /\ ActiveUser(b) = user
        <3>1. user \in GoMails /\ mine[user] = b
            BY <1>7, <2>3 DEF RowsAreOwn, ActiveUser, SignedInAsOwn
        <3> HIDE DEF rows, user
        <3>2. Starts(rows, b, s, "link", user)
            BY <2>3 DEF StartLink, rows, user
        <3>3. QED
            BY <1>6, <2>1, <2>2, <3>1, <3>2
    <2>4. CASE ~(Purged[t].intent = "link_ticket" /\ ActiveUser(b) = user)
        <3> HIDE DEF rows
        <3>1. pending' = rows /\ binding' = [binding EXCEPT ![b] = GoNone] /\ issued' = issued
            BY <2>4 DEF StartLink, rows
        <3>2. QED
            BY <1>3, <2>1, <3>1 DEF GoogleTypeOK
    <2>5. QED
        BY <2>3, <2>4
<1>10. CASE \E b \in GoPeople, s \in GoStates : GoogleCallback(b, s)
    BY <1>3, <1>10 DEF GoogleCallback, NoState, GoogleTypeOK
<1>11. CASE \E s \in GoStates : RowExpires(s)
    BY <1>3, <1>11 DEF RowExpires, GoogleTypeOK
<1>12. CASE Unbinds
    BY <1>3, <1>12 DEF Unbinds
<1>13. CASE UNCHANGED <<pending, issued, binding>>
    BY <1>3, <1>13
<1>14. QED
    BY <1>5, <1>8, <1>9, <1>10, <1>11, <1>12, <1>13, UnbindSteps
    DEF GoNext, goVars, RegisterOwner, PasswordLogin, OperatorDisables, SessionEnds

\* A callback keeps to the browser that opened it, from the row it consumed to
\* the session it opens.
LEMMA CallbacksStep ==
    ASSUME GoogleInv, [GoNext]_goVars
    PROVE  CallbacksAreOwn'
<1> USE GoogleAssumption DEF GoogleInv
<1>1. \A e \in GoMails, b \in GoPeople : mine[e] = b => mine'[e] = b
    BY MakersStep DEF KeepsMakers
<1>2. ASSUME NEW s \in GoStates, \A t \in GoStates : t # s => callback'[t] = callback[t],
             \/ callback'[s].stage = "none"
             \/ /\ callback'[s].stage \in {"login", "create", "link", "linking"}
                /\ callback'[s].browser \in GoPeople /\ callback'[s].sub = callback'[s].browser
                /\ callback'[s].stage \in {"link", "linking"} =>
                      /\ callback'[s].user \in GoMails
                      /\ mine'[callback'[s].user] = callback'[s].browser
             \/ /\ callback'[s].stage = "session" /\ callback'[s].browser \in GoPeople
                /\ callback'[s].user \in GoMails /\ mine'[callback'[s].user] = callback'[s].browser
      PROVE  CallbacksAreOwn'
    BY <1>1, <1>2 DEF CallbacksAreOwn
<1>3. ASSUME NEW s \in GoStates, Ends(s) PROVE CallbacksAreOwn'
    BY <1>2, <1>3, EndsMeans
<1>4. ASSUME NEW s \in GoStates, NEW stage \in {"create", "linking"},
             callback' = [callback EXCEPT ![s].stage = stage],
             \/ callback[s].stage = "login" /\ stage = "create"
             \/ callback[s].stage = "link" /\ stage = "linking"
      PROVE  CallbacksAreOwn'
    <2>1. /\ callback'[s].stage = stage /\ callback'[s].browser = callback[s].browser
          /\ callback'[s].sub = callback[s].sub /\ callback'[s].user = callback[s].user
          /\ \A t \in GoStates : t # s => callback'[t] = callback[t]
        BY <1>4, GoAreTyped DEF GoCallbackType
    <2>2. QED
        BY <1>1, <1>2, <1>4, <2>1 DEF CallbacksAreOwn
<1>5. ASSUME NEW s \in GoStates, NEW e \in GoMails,
             callback' = [callback EXCEPT ![s].stage = "session", ![s].user = e],
             callback[s].browser \in GoPeople, mine'[e] = callback[s].browser
      PROVE  CallbacksAreOwn'
    <2>1. /\ callback'[s].stage = "session" /\ callback'[s].browser = callback[s].browser
          /\ callback'[s].user = e
          /\ \A t \in GoStates : t # s => callback'[t] = callback[t]
        BY <1>5, GoAreTyped DEF GoCallbackType
    <2>2. QED
        BY <1>2, <1>5, <2>1
<1>6. CASE \E b \in GoPeople, s \in GoStates : GoogleCallback(b, s)
    <2> PICK b \in GoPeople, s \in GoStates : GoogleCallback(b, s)
        BY <1>6
    <2>1. CASE Acceptable(b, s)
        <3>1. /\ callback'[s] = [stage |-> pending[s].intent, browser |-> b, sub |-> pending[s].by,
                                 user |-> pending[s].user]
              /\ \A t \in GoStates : t # s => callback'[t] = callback[t]
            BY <2>1 DEF GoogleCallback, GoogleTypeOK
        <3>2. pending[s].by = b /\ pending[s].intent \in {"login", "link"}
            BY <2>1 DEF Acceptable, BoundTo, RowsAreOwn
        <3>3. pending[s].intent = "link" => pending[s].user \in GoMails /\ mine[pending[s].user] = b
            BY <3>2 DEF RowsAreOwn
        <3>4. QED
            BY <1>1, <1>2, <3>1, <3>2, <3>3
    <2>2. CASE ~Acceptable(b, s)
        <3>1. callback' = callback
            BY <2>2 DEF GoogleCallback
        <3>2. QED
            BY <1>1, <3>1 DEF CallbacksAreOwn
    <2>3. QED
        BY <2>1, <2>2
<1>7. CASE \E s \in GoStates : CallbackFails(s) \/ IssueSession(s) \/ LinkWrites(s)
    BY <1>3, <1>7 DEF CallbackFails, IssueSession, LinkWrites
<1>8. CASE \E s \in GoStates : LoginMatches(s)
    <2> PICK s \in GoStates : LoginMatches(s)
        BY <1>8
    <2>1. callback[s].sub \in GoPeople /\ callback[s].browser = callback[s].sub
        BY DEF LoginMatches, CallbacksAreOwn
    <2>2. PICK e \in GoMails :
             /\ account[e].sub = callback[s].sub
             /\ \/ callback' = [callback EXCEPT ![s].stage = "session", ![s].user = e]
                \/ Ends(s)
             /\ UNCHANGED mine
        BY DEF LoginMatches, Matches, OfSub
    <2>3. mine'[e] = callback[s].browser
        BY <2>1, <2>2 DEF AccountsHaveMakers
    <2>4. QED
        BY <1>3, <1>5, <2>1, <2>2, <2>3
<1>9. CASE \E s \in GoStates : LoginUnknown(s)
    BY <1>3, <1>4, <1>9 DEF LoginUnknown
<1>10. CASE \E s \in GoStates : LoginCreates(s)
    <2> PICK s \in GoStates : LoginCreates(s)
        BY <1>10
    <2> DEFINE sub == callback[s].sub
               e == GoMailOf[sub]
    <2>1. sub \in GoPeople /\ e \in GoMails /\ callback[s].browser = sub
        BY DEF LoginCreates, CallbacksAreOwn
    <2>2. \/ Ends(s)
          \/ /\ callback' = [callback EXCEPT ![s].stage = "session", ![s].user = e]
             /\ mine' = [mine EXCEPT ![e] = sub]
        BY DEF LoginCreates
    <2> HIDE DEF e, sub
    <2>3. CASE Ends(s)
        BY <1>3, <2>3
    <2>4. CASE /\ callback' = [callback EXCEPT ![s].stage = "session", ![s].user = e]
               /\ mine' = [mine EXCEPT ![e] = sub]
        <3>1. mine'[e] = callback[s].browser
            BY <2>1, <2>4 DEF GoogleTypeOK
        <3>2. callback[s].browser \in GoPeople
            BY <2>1
        <3>3. QED
            BY <1>5, <2>1, <2>4, <3>1, <3>2
    <2>5. QED
        BY <2>2, <2>3, <2>4
<1>11. CASE \E s \in GoStates : LinkChecks(s)
    BY <1>3, <1>4, <1>11 DEF LinkChecks
<1>12. CASE UNCHANGED callback
    BY <1>1, <1>12 DEF CallbacksAreOwn
<1>13. QED
    BY <1>6, <1>7, <1>8, <1>9, <1>10, <1>11, <1>12
    DEF GoNext, goVars, RegisterOwner, PasswordLogin, OperatorDisables, GoogleLink, StartLogin, StartLink,
        SessionEnds, RowExpires

\* A session cookie is only ever set for an account of the browser's own person.
LEMMA SignedInStep ==
    ASSUME GoogleInv, [GoNext]_goVars
    PROVE  SignedInAsOwn'
<1> USE GoogleAssumption DEF GoogleInv
<1>1. \A e \in GoMails, b \in GoPeople : mine[e] = b => mine'[e] = b
    BY MakersStep DEF KeepsMakers
<1>2. ASSUME NEW b \in GoPeople, NEW e \in GoMails \cup {GoNone}, e # GoNone => mine[e] = b,
             cookie' = [cookie EXCEPT ![b] = e]
      PROVE  SignedInAsOwn'
    BY <1>1, <1>2 DEF SignedInAsOwn, GoogleTypeOK
<1>3. CASE \E e \in GoMails : PasswordLogin(e)
    <2> PICK e \in GoMails : PasswordLogin(e)
        BY <1>3
    <2>1. mine[e] \in GoPeople
        BY DEF PasswordLogin, HasAccess, HasAccount, AccountsHaveMakers, GoogleTypeOK
    <2>2. QED
        BY <1>2, <2>1 DEF PasswordLogin
<1>4. CASE \E b \in GoPeople : SessionEnds(b)
    BY <1>2, <1>4 DEF SessionEnds
<1>5. CASE \E s \in GoStates : IssueSession(s)
    BY <1>2, <1>5 DEF IssueSession, CallbacksAreOwn
<1>6. CASE UNCHANGED cookie
    BY <1>1, <1>6 DEF SignedInAsOwn, GoogleTypeOK
<1>7. QED
    BY <1>3, <1>4, <1>5, <1>6
    DEF GoNext, goVars, RegisterOwner, OperatorDisables, GoogleLink, StartLogin, StartLink, GoogleCallback,
        RowExpires, CallbackFails, LoginMatches, LoginUnknown, LoginCreates, LinkChecks, LinkWrites

\* A browser is only ever signed in to an account its own person made, whatever
\* callbacks are opened elsewhere, whichever addresses identities share, and
\* whoever asks for a link (StartLink, GoogleCallback, LoginMatches,
\* LoginCreates, LinkWrites, IssueSession).
THEOREM SignedInAsOwnThroughout == GoSpec => []SignedInAsOwn
<1>1. GoInit => GoogleInv
    <2> SUFFICES ASSUME GoInit PROVE GoogleInv
        OBVIOUS
    <2>1. GoogleTypeOK
        BY GoEmptyTyped DEF GoInit, GoogleTypeOK, GoAccountType, GoRowType, GoCallbackType
    <2>2. AccountsHaveMakers
        BY DEF GoInit, AccountsHaveMakers, HasAccount, NoAccount
    <2>3. SecretsAreFresh /\ RowsAreOwn /\ CallbacksAreOwn /\ SignedInAsOwn
        BY DEF GoInit, SecretsAreFresh, RowsAreOwn, CallbacksAreOwn, SignedInAsOwn, NoState, NoCallback
    <2>4. QED
        BY <2>1, <2>2, <2>3 DEF GoogleInv
<1>2. GoogleInv /\ [GoNext]_goVars => GoogleInv'
    BY GoogleTypeStep, MakersStep, RowsStep, CallbacksStep, SignedInStep DEF GoogleInv
<1>3. GoogleInv => SignedInAsOwn
    BY DEF GoogleInv
<1>4. QED
    BY <1>1, <1>2, <1>3, PTL DEF GoSpec

-----------------------------------------------------------------------------
(* Deterrence                                                              *)

\* Between the acquisition and the commit a request holds the lock, and past
\* the read nobody else has decided about the action.
LockCoversDecision ==
    \A q \in DtRequests :
        /\ dtReq[q].pc \in {"read", "execute", "commit"} => dtLock = q
        /\ dtReq[q].pc \in {"execute", "commit"} => dtStatus = "pending"
        /\ dtReq[q].pc # "idle" => dtStatus # "none"

\* What a request is about to commit or to answer is final, and what it is
\* about to answer is what the row says.
ResultsAreFinal ==
    \A q \in DtRequests :
        /\ dtReq[q].pc \in {"commit", "answer"} => dtReq[q].result \in DtFinal
        /\ dtReq[q].pc = "answer" => dtStatus = dtReq[q].result

\* As long as the row is undecided, every sound but one that is about to be
\* committed was made by a request that died.
SoundsAreAccounted ==
    /\ NoDoubleSiren
    /\ dtStatus \in {"none", "pending"} /\ dtSounded > dtDied =>
         \E q \in DtRequests : dtReq[q].pc = "commit"

ToldTheRow == \A said \in dtTold : dtStatus = said

DeterrenceInv ==
    /\ DeterrenceTypeOK /\ LockCoversDecision /\ ResultsAreFinal
    /\ SoundsAreAccounted /\ ToldTheRow

\* Every step of a request, and time, keeps the types and the holder's phase.
LEMMA DeterrenceTypeStep ==
    ASSUME DeterrenceInv, [DeterrenceNext]_deterrenceVars
    PROVE  DeterrenceTypeOK'
<1> USE DeterrenceAssumption
    DEF DeterrenceInv, DeterrenceTypeOK, DtFinal, DtIdle, deterrenceVars, DtUnlock, DtGoes
<1>1. CASE RequestAction
    BY <1>1 DEF RequestAction
<1>2. CASE DtTick
    BY <1>2 DEF DtTick
<1>3. CASE \E q \in DtRequests, does \in {"confirm", "cancel"} : DtCall(q, does)
    BY <1>3 DEF DtCall
<1>4. CASE \E q \in DtRequests : DtAcquire(q)
    BY <1>4 DEF DtAcquire, LockFree
<1>5. CASE \E q \in DtRequests : DtRead(q)
    BY <1>5 DEF DtRead, LockCoversDecision
<1>6. CASE \E q \in DtRequests : DtExecute(q)
    BY <1>6 DEF DtExecute
<1>7. CASE \E q \in DtRequests : DtCommit(q)
    BY <1>7 DEF DtCommit, LockCoversDecision, ResultsAreFinal
<1>8. CASE \E q \in DtRequests : DtAnswer(q)
    <2> PICK q \in DtRequests : DtAnswer(q)
        BY <1>8
    <2>1. dtTold' \subseteq DtFinal
        BY DEF DtAnswer, ResultsAreFinal
    <2>2. dtLock' # "free" => dtReq'[dtLock'].pc \in {"read", "execute", "commit"}
        BY DEF DtAnswer
    <2>3. QED
        BY <2>1, <2>2 DEF DtAnswer
<1>9. CASE \E q \in DtRequests : DtCrash(q)
    BY <1>9 DEF DtCrash
<1>10. CASE UNCHANGED deterrenceVars
    BY <1>10
<1> QED
    BY <1>1, <1>2, <1>3, <1>4, <1>5, <1>6, <1>7, <1>8, <1>9, <1>10 DEF DeterrenceNext

\* The lock makes every decision one person's: nobody else moves the row
\* between a request's read and its commit.
LEMMA DeterrenceLockStep ==
    ASSUME DeterrenceInv, [DeterrenceNext]_deterrenceVars
    PROVE  LockCoversDecision' /\ ResultsAreFinal'
<1> USE DeterrenceAssumption
    DEF DeterrenceInv, DeterrenceTypeOK, DtFinal, DtIdle, deterrenceVars, DtUnlock, DtGoes,
        LockCoversDecision, ResultsAreFinal
<1>1. CASE RequestAction
    BY <1>1 DEF RequestAction
<1>2. CASE DtTick
    BY <1>2 DEF DtTick
<1>3. CASE \E q \in DtRequests, does \in {"confirm", "cancel"} : DtCall(q, does)
    BY <1>3 DEF DtCall
<1>4. CASE \E q \in DtRequests : DtAcquire(q)
    BY <1>4 DEF DtAcquire, LockFree
<1>5. CASE \E q \in DtRequests : DtRead(q)
    BY <1>5 DEF DtRead
<1>6. CASE \E q \in DtRequests : DtExecute(q)
    BY <1>6 DEF DtExecute
<1>7. CASE \E q \in DtRequests : DtCommit(q)
    BY <1>7 DEF DtCommit
<1>8. CASE \E q \in DtRequests : DtAnswer(q)
    BY <1>8 DEF DtAnswer
<1>9. CASE \E q \in DtRequests : DtCrash(q)
    BY <1>9 DEF DtCrash
<1>10. CASE UNCHANGED deterrenceVars
    BY <1>10
<1> QED
    BY <1>1, <1>2, <1>3, <1>4, <1>5, <1>6, <1>7, <1>8, <1>9, <1>10 DEF DeterrenceNext

\* A second sound takes a death in between: the provider runs under the lock,
\* on an undecided row, and the commit decides the row.
LEMMA DeterrenceSoundStep ==
    ASSUME DeterrenceInv, [DeterrenceNext]_deterrenceVars
    PROVE  SoundsAreAccounted' /\ ToldTheRow'
<1> USE DeterrenceAssumption
    DEF DeterrenceInv, DeterrenceTypeOK, DtFinal, DtIdle, deterrenceVars, DtUnlock, DtGoes,
        LockCoversDecision, ResultsAreFinal, SoundsAreAccounted, NoDoubleSiren, ToldTheRow
<1>1. CASE RequestAction
    BY <1>1 DEF RequestAction
<1>2. CASE DtTick
    BY <1>2 DEF DtTick
<1>3. CASE \E q \in DtRequests, does \in {"confirm", "cancel"} : DtCall(q, does)
    BY <1>3 DEF DtCall
<1>4. CASE \E q \in DtRequests : DtAcquire(q)
    BY <1>4 DEF DtAcquire, LockFree
<1>5. CASE \E q \in DtRequests : DtRead(q)
    BY <1>5 DEF DtRead
<1>6. CASE \E q \in DtRequests : DtExecute(q)
    BY <1>6 DEF DtExecute
<1>7. CASE \E q \in DtRequests : DtCommit(q)
    BY <1>7 DEF DtCommit
<1>8. CASE \E q \in DtRequests : DtAnswer(q)
    BY <1>8 DEF DtAnswer
<1>9. CASE \E q \in DtRequests : DtCrash(q)
    BY <1>9 DEF DtCrash
<1>10. CASE UNCHANGED deterrenceVars
    BY <1>10
<1> QED
    BY <1>1, <1>2, <1>3, <1>4, <1>5, <1>6, <1>7, <1>8, <1>9, <1>10 DEF DeterrenceNext

\* The inductive invariant of one deterrence action holds throughout.
LEMMA DeterrenceInvariant == DeterrenceSpec => []DeterrenceInv
<1>1. DeterrenceInit => DeterrenceInv
    BY DeterrenceAssumption
    DEF DeterrenceInit, DeterrenceInv, DeterrenceTypeOK, LockCoversDecision, ResultsAreFinal,
        SoundsAreAccounted, NoDoubleSiren, ToldTheRow, DtIdle, DtFinal
<1>2. DeterrenceInv /\ [DeterrenceNext]_deterrenceVars => DeterrenceInv'
    BY DeterrenceTypeStep, DeterrenceLockStep, DeterrenceSoundStep DEF DeterrenceInv
<1>3. QED
    BY <1>1, <1>2, PTL DEF DeterrenceSpec

\* The siren does what the last person was told it does: requests of several
\* replicas, however many of them die, never sound it twice without a death in
\* between, and what somebody was told stays true (DtAcquire, DtExecute, DtCommit).
THEOREM SirenObeysThroughout == DeterrenceSpec => []SirenObeys
<1>1. DeterrenceInv => SirenObeys
    BY DEF DeterrenceInv, DeterrenceTypeOK, SirenObeys, ToldIsFinal, ToldTheRow, SoundsAreAccounted,
           LockCoversDecision, DtFinal
<1>2. QED
    BY <1>1, DeterrenceInvariant, PTL
-----------------------------------------------------------------------------
(* Notify                                                                  *)

\* A task that is between its claim and the end of its send is at one channel.
AtOneChannel ==
    \A t \in NtJobs :
        tasks[t].pc \in {"count", "send", "finish"} => \E c \in NtChannels : tasks[t].at = {c}

Sends(t, c) == tasks[t].pc \in {"count", "send", "finish"} /\ c \in tasks[t].at

NtTaskType == [pc : {"idle", "policy", "selected", "next", "count", "send", "finish", "over"},
               specs : SUBSET NtChannels, at : SUBSET NtChannels]

\* Every variable has its type, that of the history included.
NotifyTypes ==
    /\ NotifyTypeOK /\ AtOneChannel /\ IsFiniteSet(deliveries)
    /\ sent \subseteq [channel : NtChannels, by : NtJobs, alert : NtAlerts,
                       claimed : 1..NtClock, life : 0..NtMishaps]

\* A task that moves on stays a task.
LEMMA MovesTyped ==
    ASSUME NotifyTypes, NEW t \in NtJobs,
           NEW pc \in {"idle", "policy", "selected", "next", "count", "send", "finish", "over"}
    PROVE  [tasks EXCEPT ![t].pc = pc] \in [NtJobs -> NtTaskType]
<1>1. tasks \in [NtJobs -> NtTaskType] /\ tasks[t] \in NtTaskType
    BY DEF NotifyTypes, NotifyTypeOK, NtTaskType
<1>2. [tasks[t] EXCEPT !.pc = pc] \in NtTaskType
    BY <1>1 DEF NtTaskType
<1>3. QED
    BY <1>1, <1>2

\* A task that tried a channel goes on to the next one, or has claimed it.
LEMMA PastTyped ==
    ASSUME NotifyTypes, NEW t \in NtJobs, NEW c \in NtChannels
    PROVE  /\ Past(t, c) \in [NtJobs -> NtTaskType]
           /\ \A u \in NtJobs :
                 Past(t, c)[u] = IF u = t THEN [pc |-> "next", specs |-> tasks[t].specs \ {c}, at |-> {}]
                                 ELSE tasks[u]
<1> DEFINE v == [pc |-> "next", specs |-> tasks[t].specs \ {c}, at |-> {}]
<1>1. tasks \in [NtJobs -> NtTaskType] /\ tasks[t] \in NtTaskType
    BY DEF NotifyTypes, NotifyTypeOK, NtTaskType
<1>2. v \in NtTaskType
    BY <1>1 DEF NtTaskType
<1>3. Past(t, c) = [tasks EXCEPT ![t] = v]
    BY <1>1 DEF Past, NtTaskType
<1>4. QED
    BY <1>1, <1>2, <1>3

LEMMA PastOthers ==
    ASSUME NotifyTypes, NEW t \in NtJobs, NEW c \in NtChannels, tasks' = Past(t, c)
    PROVE  \A u \in NtJobs : tasks'[u].pc = "next" \/ tasks'[u] = tasks[u]
<1>1. ASSUME NEW u \in NtJobs
      PROVE  tasks'[u].pc = "next" \/ tasks'[u] = tasks[u]
    <2>1. tasks'[u] = IF u = t THEN [pc |-> "next", specs |-> tasks[t].specs \ {c}, at |-> {}]
                      ELSE tasks[u]
        BY PastTyped
    <2>2. QED
        BY <2>1
<1>2. QED
    BY <1>1

\* What was typed stays typed when a task goes on to the next channel.
LEMMA PastStep ==
    ASSUME NotifyTypes, NEW t \in NtJobs, NEW c \in NtChannels, tasks' = Past(t, c)
    PROVE  tasks' \in [NtJobs -> NtTaskType] /\ AtOneChannel'
<1>1. tasks' \in [NtJobs -> NtTaskType]
    BY PastTyped
<1>2. ASSUME NEW u \in NtJobs, tasks'[u].pc \in {"count", "send", "finish"}
      PROVE  \E d \in NtChannels : tasks'[u].at = {d}
    <2>1. tasks'[u] = IF u = t THEN [pc |-> "next", specs |-> tasks[t].specs \ {c}, at |-> {}]
                     ELSE tasks[u]
        BY PastTyped
    <2>2. u # t
        BY <1>2, <2>1
    <2>3. QED
        BY <1>2, <2>1, <2>2 DEF NotifyTypes, AtOneChannel
<1>3. QED
    BY <1>1, <1>2 DEF AtOneChannel

\* Finishing a row changes nothing but its status.
LEMMA FinishedTyped ==
    ASSUME NotifyTypes, NEW c, NEW a, NEW status \in {"done", "rate_limited"}
    PROVE  Finished(c, a, status) \subseteq [channel : NtChannels, alert : NtAlerts, at : 1..NtClock,
                                             status : {"pending", "done", "rate_limited"}]
BY DEF NotifyTypes, NotifyTypeOK, Finished

\* The frame of a step that leaves the rows' neighbours alone.
LEMMA TypesBut ==
    ASSUME NotifyTypes, tasks' \in [NtJobs -> NtTaskType], AtOneChannel',
           deliveries' \subseteq [channel : NtChannels, alert : NtAlerts, at : 1..NtClock,
                                  status : {"pending", "done", "rate_limited"}],
           UNCHANGED <<ntNow, channelState, onSince, noneUntil, ntMishaps>>
    PROVE  NotifyTypeOK' /\ AtOneChannel'
BY DEF NotifyTypes, NotifyTypeOK, NtTaskType

\* Every step of a dispatch, of the administrator and of time keeps the types.
LEMMA NotifyTypeStep ==
    ASSUME NotifyTypes, [NotifyNext]_notifyVars
    PROVE  NotifyTypeOK' /\ AtOneChannel'
<1> USE NotifyAssumption
    DEF NotifyTypes, NotifyTypeOK, AtOneChannel, notifyVars, NtIdle, NtAlert, NtTaskType
<1>1. CASE \E t \in NtJobs, quiet \in BOOLEAN : NtNotify(t, quiet)
    <2> PICK t \in NtJobs, quiet \in BOOLEAN : NtNotify(t, quiet)
        BY <1>1
    <2>1. tasks' \in [NtJobs -> NtTaskType]
        BY MovesTyped DEF NtNotify
    <2>2. AtOneChannel'
        BY <2>1 DEF NtNotify
    <2>3. QED
        BY <2>1, <2>2 DEF NtNotify
<1>2. CASE \E t \in NtJobs : NtSelect(t)
    BY <1>2 DEF NtSelect, Enabled
<1>3. CASE \E t \in NtJobs : NtRemember(t)
    <2> PICK t \in NtJobs : NtRemember(t)
        BY <1>3
    <2>1. tasks' \in [NtJobs -> NtTaskType]
        BY MovesTyped DEF NtRemember
    <2>2. AtOneChannel'
        BY <2>1 DEF NtRemember
    <2>3. RememberUntil(tasks[t].specs) \in 0..(NtClock + NtCacheTTL)
        BY DEF RememberUntil
    <2>4. noneUntil' \in [NtReplicas -> 0..(NtClock + NtCacheTTL)]
        BY <2>3 DEF NtRemember
    <2>5. UNCHANGED <<ntNow, channelState, onSince, deliveries, ntMishaps>>
        BY DEF NtRemember
    <2>6. QED
        BY <2>1, <2>2, <2>4, <2>5
<1>4. CASE \E t \in NtJobs : NtReturn(t)
    <2> PICK t \in NtJobs : NtReturn(t)
        BY <1>4
    <2>1. tasks' \in [NtJobs -> NtTaskType]
        BY MovesTyped DEF NtReturn
    <2>2. AtOneChannel'
        BY <2>1 DEF NtReturn
    <2>3. QED
        BY <2>1, <2>2 DEF NtReturn
<1>5. CASE \E t \in NtJobs, c \in NtChannels : BelowFloor(t, c)
    BY <1>5, PastStep, TypesBut DEF BelowFloor
<1>6. CASE \E t \in NtJobs, c \in NtChannels : NtClaim(t, c)
    <2> PICK t \in NtJobs, c \in NtChannels : NtClaim(t, c)
        BY <1>6
    <2>1. CASE Taken(c, NtAlert(t))
        BY <2>1, PastStep, TypesBut DEF NtClaim
    <2>2. CASE ~Taken(c, NtAlert(t))
        <3>1. tasks' = [tasks EXCEPT ![t] = [tasks[t] EXCEPT !.pc = "count", !.at = {c}]]
            BY <2>2 DEF NtClaim
        <3>2. tasks' \in [NtJobs -> NtTaskType] /\ AtOneChannel'
            <4>1. tasks' \in [NtJobs -> NtTaskType]
                <5>1. tasks[t] \in NtTaskType
                    OBVIOUS
                <5>2. [tasks[t] EXCEPT !.pc = "count", !.at = {c}] \in NtTaskType
                    BY <5>1
                <5>3. QED
                    BY <3>1, <5>2
            <4>2. \A u \in NtJobs : u # t => tasks'[u] = tasks[u]
                BY <3>1
            <4>3. tasks'[t].at = {c}
                BY <3>1
            <4>4. ASSUME NEW u \in NtJobs, tasks'[u].pc \in {"count", "send", "finish"}
                  PROVE  \E d \in NtChannels : tasks'[u].at = {d}
                <5>1. CASE u = t
                    BY <4>3, <5>1
                <5>2. CASE u # t
                    <6>1. tasks'[u] = tasks[u]
                        BY <4>2, <5>2
                    <6>2. QED
                        BY <4>4, <6>1
                <5>3. QED
                    BY <5>1, <5>2
            <4>5. QED
                BY <4>1, <4>4
        <3>3. deliveries' \subseteq [channel : NtChannels, alert : NtAlerts, at : 1..NtClock,
                                     status : {"pending", "done", "rate_limited"}]
            BY <2>2 DEF NtClaim
        <3>4. QED
            BY <3>2, <3>3, TypesBut DEF NtClaim
    <2>3. QED
        BY <2>1, <2>2
<1>7. CASE \E t \in NtJobs, c \in NtChannels : NtCount(t, c)
    <2> PICK t \in NtJobs, c \in NtChannels : NtCount(t, c)
        BY <1>7
    <2>1. CASE Recent(c, NtAlert(t)) >= NtLimit
        <3>1. deliveries' = Finished(c, NtAlert(t), "rate_limited") /\ tasks' = Past(t, c)
            BY <2>1 DEF NtCount
        <3>2. QED
            BY <3>1, PastStep, FinishedTyped, TypesBut DEF NtCount
    <2>2. CASE ~(Recent(c, NtAlert(t)) >= NtLimit)
        <3>1. tasks' = [tasks EXCEPT ![t].pc = "send"] /\ UNCHANGED deliveries
            BY <2>2 DEF NtCount
        <3>2. tasks' \in [NtJobs -> NtTaskType]
            BY <3>1
        <3>3. AtOneChannel'
            BY <3>1 DEF NtCount
        <3>4. QED
            BY <3>1, <3>2, <3>3, TypesBut DEF NtCount
    <2>3. QED
        BY <2>1, <2>2
<1>8. CASE \E t \in NtJobs, c \in NtChannels : NtSend(t, c)
    <2> PICK t \in NtJobs, c \in NtChannels : NtSend(t, c)
        BY <1>8
    <2>1. tasks' \in [NtJobs -> NtTaskType]
        BY MovesTyped DEF NtSend
    <2>2. AtOneChannel'
        BY <2>1 DEF NtSend
    <2>3. QED
        BY <2>1, <2>2 DEF NtSend
<1>9. CASE \E t \in NtJobs, c \in NtChannels : NtFinish(t, c)
    BY <1>9, PastStep, FinishedTyped, TypesBut DEF NtFinish
<1>10. CASE \E r \in NtReplicas, c \in NtChannels, s \in {"on", "off", "deleted"} : SetChannel(r, c, s)
    BY <1>10 DEF SetChannel
<1>11. CASE \E r \in NtReplicas : NtCrash(r)
    BY <1>11 DEF NtCrash
<1>12. CASE NtTick
    BY <1>12 DEF NtTick
<1>13. CASE UNCHANGED notifyVars
    BY <1>13
<1> QED
    BY <1>1, <1>2, <1>3, <1>4, <1>5, <1>6, <1>7, <1>8, <1>9, <1>10, <1>11, <1>12,
       <1>13
    DEF NotifyNext, NtStep

\* Each alert has one row at a channel: the insert is refused otherwise.
OneRow ==
    \A d1, d2 \in deliveries : d1.channel = d2.channel /\ d1.alert = d2.alert => d1 = d2

Remains(c) == channelState[c] # "deleted"

\* At a channel that remains, a task that sends owns the row it claimed: the
\* row is there, of this tick until it was counted, no other task sends the
\* same alert, and nothing was sent on the row before.
ClaimIsOwn ==
    \A t \in NtJobs, c \in NtChannels :
        Sends(t, c) /\ Remains(c) =>
            /\ \E d \in deliveries :
                  /\ d.channel = c /\ d.alert = NtAlert(t)
                  /\ tasks[t].pc = "count" => d.at = ntNow
            /\ \A u \in NtJobs : Sends(u, c) /\ NtAlert(u) = NtAlert(t) => u = t
            /\ tasks[t].pc \in {"count", "send"} =>
                  \A s \in sent : ~(s.channel = c /\ s.alert = NtAlert(t))

\* What was sent to a channel that remains was sent on a row that is there.
SentHasRow ==
    \A s \in sent :
        Remains(s.channel) =>
            \E d \in deliveries : d.channel = s.channel /\ d.alert = s.alert /\ d.at = s.claimed

OnceInv == NotifyTypes /\ OneRow /\ ClaimIsOwn /\ SentHasRow /\ SentOnce

\* The alerts that passed the count at a channel, with a claim in one hour.
Passed(c, a) ==
    \/ \E s \in sent : s.channel = c /\ s.alert = a
    \/ \E t \in NtJobs : tasks[t].pc = "send" /\ c \in tasks[t].at /\ NtAlert(t) = a

HourAlerts(c, from) ==
    {a \in NtAlerts :
        /\ Passed(c, a)
        /\ \E d \in deliveries :
              d.channel = c /\ d.alert = a /\ d.at \in from..(from + NtHour)}

\* What passed the count within an hour is never more than the limit.
HourIsLimited ==
    \A c \in NtChannels, from \in 1..NtClock :
        Remains(c) => Cardinality(HourAlerts(c, from)) <= NtLimit

\* A replica believes there is no channel for no longer than the time to live
\* after the last one was enabled, and reads the channels of this tick.
BeliefIsYoung ==
    /\ \A r \in NtReplicas : noneUntil[r] <= ntNow + NtCacheTTL
    /\ \A c \in NtChannels :
          channelState[c] = "on" =>
              /\ \A r \in NtReplicas : noneUntil[r] <= onSince[c] + NtCacheTTL
              /\ \A t \in NtJobs :
                    tasks[t].pc = "selected" /\ tasks[t].specs = {} => onSince[c] >= ntNow

\* The rows of the channels that remain are kept, up to their status.
KeptRows ==
    \A d \in deliveries :
        Remains(d.channel)' =>
            \E e \in deliveries' : e.channel = d.channel /\ e.alert = d.alert /\ e.at = d.at

\* A task that claims nothing goes no further than it was.
GoesOn(t, c) ==
    Sends(t, c)' =>
        /\ Sends(t, c)
        /\ tasks'[t].pc = "count" => tasks[t].pc = "count" /\ ntNow' = ntNow
        /\ tasks'[t].pc = "send" => tasks[t].pc \in {"count", "send"}

\* Finishing a row keeps the rows, and leaves one for each alert.
LEMMA FinishedRows ==
    ASSUME NotifyTypes, OneRow, NEW c, NEW a, NEW status \in {"done", "rate_limited"},
           deliveries' = Finished(c, a, status)
    PROVE  OneRow' /\ KeptRows /\ IsFiniteSet(deliveries')
<1> DEFINE f == [d \in deliveries |->
                   IF d.channel = c /\ d.alert = a THEN [d EXCEPT !.status = status] ELSE d]
<1>1. deliveries' = {f[d] : d \in deliveries}
    BY DEF Finished
<1>2. ASSUME NEW d \in deliveries
      PROVE  f[d].channel = d.channel /\ f[d].alert = d.alert /\ f[d].at = d.at
    BY DEF NotifyTypes, NotifyTypeOK
<1>3. KeptRows
    BY <1>1, <1>2 DEF KeptRows
<1>4. ASSUME NEW e1 \in deliveries', NEW e2 \in deliveries',
             e1.channel = e2.channel, e1.alert = e2.alert
      PROVE  e1 = e2
    <2>1. PICK d1 \in deliveries, d2 \in deliveries : e1 = f[d1] /\ e2 = f[d2]
        BY <1>1
    <2>2. d1 = d2
        BY <1>2, <1>4, <2>1 DEF OneRow
    <2>3. QED
        BY <2>1, <2>2
<1>5. f \in Surjection(deliveries, deliveries')
    BY <1>1 DEF Surjection
<1>6. IsFiniteSet(deliveries')
    BY <1>5, FS_Surjection DEF NotifyTypes
<1>7. QED
    BY <1>3, <1>4, <1>6 DEF OneRow

\* A step in which nobody claims and nothing is sent keeps what is claimed and sent.
LEMMA OnceFrame ==
    ASSUME OnceInv, OneRow', KeptRows, UNCHANGED sent,
           \A c \in NtChannels : Remains(c)' => Remains(c),
           \A t \in NtJobs, c \in NtChannels : GoesOn(t, c)
    PROVE  ClaimIsOwn' /\ SentHasRow' /\ SentOnce'
<1> USE DEF OnceInv, Remains
<1>1. ClaimIsOwn'
    BY DEF ClaimIsOwn, KeptRows, GoesOn, Sends
<1>2. SentHasRow'
    BY DEF SentHasRow, KeptRows, NotifyTypes
<1>3. SentOnce'
    BY DEF SentOnce, NotifyTypes
<1>4. QED
    BY <1>1, <1>2, <1>3

\* A claim is a new row, and the task that made it the only one on it.
LEMMA ClaimStep ==
    ASSUME OnceInv, NEW t \in NtJobs, NEW c \in NtChannels, NtClaim(t, c), ~Taken(c, NtAlert(t))
    PROVE  OneRow' /\ ClaimIsOwn' /\ SentHasRow' /\ SentOnce' /\ IsFiniteSet(deliveries')
<1> DEFINE a == NtAlert(t)
           new == [channel |-> c, alert |-> a, at |-> ntNow, status |-> "pending"]
<1> USE DEF OnceInv
<1>1. /\ deliveries' = deliveries \union {new}
      /\ tasks' = [tasks EXCEPT ![t] = [tasks[t] EXCEPT !.pc = "count", !.at = {c}]]
      /\ UNCHANGED <<ntNow, channelState, sent>>
    BY DEF NtClaim
<1>2. /\ tasks'[t].pc = "count" /\ tasks'[t].at = {c}
      /\ \A u \in NtJobs : u # t => tasks'[u] = tasks[u]
    BY <1>1 DEF NotifyTypes, NotifyTypeOK
<1>3. \A d \in deliveries : ~(d.channel = c /\ d.alert = a)
    BY DEF Taken
<1>4. OneRow'
    BY <1>1, <1>3 DEF OneRow
<1>5. \A u \in NtJobs, b \in NtChannels : u # t => (Sends(u, b)' <=> Sends(u, b))
    BY <1>2 DEF Sends
<1>6. \A b \in NtChannels : Sends(t, b)' => b = c
    BY <1>2 DEF Sends
<1>7. Remains(c) => /\ \A u \in NtJobs : ~(Sends(u, c) /\ NtAlert(u) = a)
                    /\ \A s \in sent : ~(s.channel = c /\ s.alert = a)
    BY <1>3 DEF ClaimIsOwn, SentHasRow
<1>8. ClaimIsOwn'
    <2> SUFFICES ASSUME NEW u \in NtJobs, NEW b \in NtChannels, Sends(u, b)', Remains(b)'
                 PROVE  /\ \E d \in deliveries' :
                              /\ d.channel = b /\ d.alert = NtAlert(u)
                              /\ tasks'[u].pc = "count" => d.at = ntNow'
                        /\ \A w \in NtJobs : Sends(w, b)' /\ NtAlert(w) = NtAlert(u) => w = u
                        /\ tasks'[u].pc \in {"count", "send"} =>
                              \A s \in sent' : ~(s.channel = b /\ s.alert = NtAlert(u))
        BY DEF ClaimIsOwn, NtAlert
    <2>1. Remains(b)
        BY <1>1 DEF Remains
    <2>2. CASE u = t
        <3>1. b = c
            BY <1>6, <2>2
        <3>2. new \in deliveries' /\ new.channel = b /\ new.alert = NtAlert(u) /\ new.at = ntNow'
            BY <1>1, <2>2, <3>1
        <3>3. \A w \in NtJobs : Sends(w, b)' /\ NtAlert(w) = NtAlert(u) => w = u
            BY <1>5, <1>7, <2>1, <2>2, <3>1
        <3>4. \A s \in sent' : ~(s.channel = b /\ s.alert = NtAlert(u))
            BY <1>1, <1>7, <2>1, <2>2, <3>1
        <3>5. QED
            BY <3>2, <3>3, <3>4
    <2>3. CASE u # t
        BY <1>1, <1>2, <1>5, <1>6, <1>7, <2>1, <2>3 DEF ClaimIsOwn
    <2>4. QED
        BY <2>2, <2>3
<1>9. SentHasRow' /\ SentOnce'
    BY <1>1 DEF SentHasRow, SentOnce, Remains
<1>10. IsFiniteSet(deliveries')
    BY <1>1, FS_AddElement DEF NotifyTypes
<1>11. QED
    BY <1>4, <1>8, <1>9, <1>10

\* A send is the first of its alert at a channel that remains, on the row that
\* was claimed for it.
LEMMA SendStep ==
    ASSUME OnceInv, NEW t \in NtJobs, NEW c \in NtChannels, NtSend(t, c)
    PROVE  /\ ClaimIsOwn' /\ SentHasRow' /\ SentOnce'
           /\ sent' \subseteq [channel : NtChannels, by : NtJobs, alert : NtAlerts,
                              claimed : 1..NtClock, life : 0..NtMishaps]
<1> DEFINE a == NtAlert(t)
<1> USE DEF OnceInv
<1>1. PICK d \in deliveries \union {[channel |-> c, alert |-> a, at |-> ntNow, status |-> "pending"]} :
         /\ d.channel = c /\ d.alert = a
         /\ Taken(c, a) => d \in deliveries
         /\ sent' = sent \union {[channel |-> c, by |-> t, alert |-> a, claimed |-> d.at,
                                   life |-> ntMishaps]}
    BY DEF NtSend
<1> DEFINE new == [channel |-> c, by |-> t, alert |-> a, claimed |-> d.at, life |-> ntMishaps]
<1>2. /\ tasks[t].pc = "send" /\ c \in tasks[t].at
      /\ tasks' = [tasks EXCEPT ![t].pc = "finish"]
      /\ UNCHANGED <<ntNow, channelState, deliveries, ntMishaps>>
    BY DEF NtSend
<1>3. /\ tasks'[t].pc = "finish" /\ tasks'[t].at = tasks[t].at
      /\ \A u \in NtJobs : u # t => tasks'[u] = tasks[u]
    BY <1>2 DEF NotifyTypes, NotifyTypeOK
<1>4. \A u \in NtJobs, b \in NtChannels : Sends(u, b)' <=> Sends(u, b)
    BY <1>2, <1>3 DEF Sends
<1>5. tasks[t].at = {c}
    BY <1>2 DEF NotifyTypes, AtOneChannel
<1>6. Sends(t, c)
    BY <1>2 DEF Sends
<1>7. Remains(c) => /\ \A s \in sent : ~(s.channel = c /\ s.alert = a)
                    /\ d \in deliveries
    BY <1>1, <1>2, <1>6 DEF ClaimIsOwn, Taken
<1>8. \A b \in NtChannels : Remains(b)' <=> Remains(b)
    BY <1>2 DEF Remains
<1>9. ClaimIsOwn'
    <2> SUFFICES ASSUME NEW u \in NtJobs, NEW b \in NtChannels, Sends(u, b)', Remains(b)'
                 PROVE  /\ \E e \in deliveries' :
                              /\ e.channel = b /\ e.alert = NtAlert(u)
                              /\ tasks'[u].pc = "count" => e.at = ntNow'
                        /\ \A w \in NtJobs : Sends(w, b)' /\ NtAlert(w) = NtAlert(u) => w = u
                        /\ tasks'[u].pc \in {"count", "send"} =>
                              \A s \in sent' : ~(s.channel = b /\ s.alert = NtAlert(u))
        BY DEF ClaimIsOwn, NtAlert
    <2>1. Remains(b) /\ Sends(u, b)
        BY <1>4, <1>8
    <2>2. /\ \E e \in deliveries :
                /\ e.channel = b /\ e.alert = NtAlert(u)
                /\ tasks[u].pc = "count" => e.at = ntNow
          /\ \A w \in NtJobs : Sends(w, b) /\ NtAlert(w) = NtAlert(u) => w = u
          /\ tasks[u].pc \in {"count", "send"} =>
                \A s \in sent : ~(s.channel = b /\ s.alert = NtAlert(u))
        BY <2>1 DEF ClaimIsOwn
    <2>3. CASE u = t
        BY <1>2, <1>3, <1>4, <2>2, <2>3
    <2>4. CASE u # t
        <3>1. ~(b = c /\ NtAlert(u) = a)
            BY <1>6, <2>2, <2>4
        <3>2. QED
            BY <1>1, <1>2, <1>3, <1>4, <2>2, <2>4, <3>1
    <2>5. QED
        BY <2>3, <2>4
<1>10. SentHasRow'
    BY <1>1, <1>2, <1>7, <1>8 DEF SentHasRow, NotifyTypes
<1>11. SentOnce'
    BY <1>1, <1>7, <1>8 DEF SentOnce, Remains, NotifyTypes
<1>12. new \in [channel : NtChannels, by : NtJobs, alert : NtAlerts,
                claimed : 1..NtClock, life : 0..NtMishaps]
    BY <1>1, NotifyAssumption DEF NotifyTypes, NotifyTypeOK, NtAlert
<1>13. QED
    BY <1>1, <1>9, <1>10, <1>11, <1>12 DEF NotifyTypes

\* No step, of however many replicas and whenever they crash, sends an alert twice.
LEMMA OnceStep ==
    ASSUME OnceInv, [NotifyNext]_notifyVars
    PROVE  OnceInv'
<1> DEFINE Goal == /\ OneRow' /\ ClaimIsOwn' /\ SentHasRow' /\ SentOnce' /\ IsFiniteSet(deliveries')
                   /\ sent' \subseteq [channel : NtChannels, by : NtJobs, alert : NtAlerts,
                                      claimed : 1..NtClock, life : 0..NtMishaps]
<1> SUFFICES Goal
    BY NotifyTypeStep DEF OnceInv, NotifyTypes
<1>1. ASSUME UNCHANGED <<channelState, sent, ntNow, deliveries>>,
             \A t \in NtJobs, c \in NtChannels : GoesOn(t, c)
      PROVE  Goal
    <2>1. OneRow' /\ KeptRows /\ \A c \in NtChannels : Remains(c)' => Remains(c)
        BY <1>1 DEF OnceInv, OneRow, KeptRows, Remains
    <2>2. QED
        BY <1>1, <2>1, OnceFrame DEF OnceInv, NotifyTypes
<1>2. ASSUME NEW t \in NtJobs, NEW c \in NtChannels, tasks' = Past(t, c), UNCHANGED ntNow
      PROVE  \A u \in NtJobs, b \in NtChannels : GoesOn(u, b)
    <2>1. \A u \in NtJobs : tasks'[u].pc = "next" \/ tasks'[u] = tasks[u]
        BY <1>2, PastOthers DEF OnceInv
    <2>2. QED
        BY <1>2, <2>1 DEF GoesOn, Sends
<1>3. ASSUME NEW t \in NtJobs, NEW pc \in {"idle", "policy", "selected", "next", "over"},
             tasks'[t].pc = pc, \A u \in NtJobs : u # t => tasks'[u] = tasks[u], UNCHANGED ntNow
      PROVE  \A u \in NtJobs, b \in NtChannels : GoesOn(u, b)
    BY <1>3 DEF GoesOn, Sends
<1>4. CASE \E t \in NtJobs, quiet \in BOOLEAN : NtNotify(t, quiet)
    BY <1>1, <1>3, <1>4 DEF NtNotify, OnceInv, NotifyTypes, NotifyTypeOK
<1>5. CASE \E t \in NtJobs : NtSelect(t)
    BY <1>1, <1>3, <1>5 DEF NtSelect, OnceInv, NotifyTypes, NotifyTypeOK
<1>6. CASE \E t \in NtJobs : NtRemember(t)
    BY <1>1, <1>3, <1>6 DEF NtRemember, OnceInv, NotifyTypes, NotifyTypeOK
<1>7. CASE \E t \in NtJobs : NtReturn(t)
    BY <1>1, <1>3, <1>7 DEF NtReturn, OnceInv, NotifyTypes, NotifyTypeOK
<1>8. CASE \E t \in NtJobs, c \in NtChannels : BelowFloor(t, c)
    BY <1>1, <1>2, <1>8 DEF BelowFloor
<1>9. CASE \E t \in NtJobs, c \in NtChannels : NtClaim(t, c)
    <2> PICK t \in NtJobs, c \in NtChannels : NtClaim(t, c)
        BY <1>9
    <2>1. CASE Taken(c, NtAlert(t))
        BY <1>1, <1>2, <2>1 DEF NtClaim
    <2>2. CASE ~Taken(c, NtAlert(t))
        BY <2>2, ClaimStep DEF NtClaim, OnceInv, NotifyTypes
    <2>3. QED
        BY <2>1, <2>2
<1>10. ASSUME NEW t \in NtJobs, NEW c \in NtChannels, NEW status \in {"done", "rate_limited"},
              tasks' = Past(t, c), deliveries' = Finished(c, NtAlert(t), status),
              UNCHANGED <<channelState, sent, ntNow>>
       PROVE  Goal
    <2>1. \A u \in NtJobs, b \in NtChannels : GoesOn(u, b)
        BY <1>2, <1>10
    <2>2. OneRow' /\ KeptRows /\ IsFiniteSet(deliveries')
        BY <1>10, FinishedRows DEF OnceInv
    <2>3. \A b \in NtChannels : Remains(b)' => Remains(b)
        BY <1>10 DEF Remains
    <2>4. QED
        BY <1>10, <2>1, <2>2, <2>3, OnceFrame DEF OnceInv, NotifyTypes
<1>11. CASE \E t \in NtJobs, c \in NtChannels : NtCount(t, c)
    <2> PICK t \in NtJobs, c \in NtChannels : NtCount(t, c)
        BY <1>11
    <2>1. CASE Recent(c, NtAlert(t)) >= NtLimit
        BY <1>10, <2>1 DEF NtCount
    <2>2. CASE ~(Recent(c, NtAlert(t)) >= NtLimit)
        <3>1. /\ tasks[t].pc = "count" /\ tasks' = [tasks EXCEPT ![t].pc = "send"]
              /\ UNCHANGED <<channelState, sent, ntNow, deliveries>>
            BY <2>2 DEF NtCount
        <3>2. /\ tasks'[t].pc = "send" /\ tasks'[t].at = tasks[t].at
              /\ \A u \in NtJobs : u # t => tasks'[u] = tasks[u]
            BY <3>1 DEF OnceInv, NotifyTypes, NotifyTypeOK
        <3>3. \A u \in NtJobs, b \in NtChannels : GoesOn(u, b)
            BY <3>1, <3>2 DEF GoesOn, Sends
        <3>4. QED
            BY <1>1, <3>1, <3>3
    <2>3. QED
        BY <2>1, <2>2
<1>12. CASE \E t \in NtJobs, c \in NtChannels : NtSend(t, c)
    <2> PICK t \in NtJobs, c \in NtChannels : NtSend(t, c)
        BY <1>12
    <2>1. OneRow' /\ IsFiniteSet(deliveries')
        BY DEF NtSend, OnceInv, OneRow, NotifyTypes
    <2>2. QED
        BY <2>1, SendStep
<1>13. CASE \E t \in NtJobs, c \in NtChannels : NtFinish(t, c)
    BY <1>10, <1>13 DEF NtFinish
<1>14. CASE \E r \in NtReplicas, c \in NtChannels, s \in {"on", "off", "deleted"} : SetChannel(r, c, s)
    <2> PICK r \in NtReplicas, c \in NtChannels, s \in {"on", "off", "deleted"} : SetChannel(r, c, s)
        BY <1>14
    <2>1. OneRow' /\ KeptRows
        BY DEF SetChannel, OneRow, KeptRows, Remains, OnceInv, NotifyTypes, NotifyTypeOK
    <2>2. \A b \in NtChannels : Remains(b)' => Remains(b)
        BY DEF SetChannel, Remains, OnceInv, NotifyTypes, NotifyTypeOK
    <2>3. \A u \in NtJobs, b \in NtChannels : GoesOn(u, b)
        BY DEF SetChannel, GoesOn, Sends
    <2>4. IsFiniteSet(deliveries')
        BY FS_Subset DEF SetChannel, OnceInv, NotifyTypes
    <2>5. QED
        BY <2>1, <2>2, <2>3, <2>4, OnceFrame DEF SetChannel, OnceInv, NotifyTypes
<1>15. CASE \E r \in NtReplicas : NtCrash(r)
    <2>1. \A u \in NtJobs, b \in NtChannels : GoesOn(u, b)
        BY <1>15 DEF NtCrash, GoesOn, Sends, NtIdle
    <2>2. QED
        BY <1>1, <1>15, <2>1 DEF NtCrash
<1>16. CASE NtTick
    <2>1. \A u \in NtJobs, b \in NtChannels : GoesOn(u, b)
        BY <1>16 DEF NtTick, GoesOn, Sends
    <2>2. OneRow' /\ KeptRows /\ \A c \in NtChannels : Remains(c)' => Remains(c)
        BY <1>16 DEF NtTick, OnceInv, OneRow, KeptRows, Remains
    <2>3. QED
        BY <1>16, <2>1, <2>2, OnceFrame DEF NtTick, OnceInv, NotifyTypes
<1>17. CASE UNCHANGED notifyVars
    <2>1. \A u \in NtJobs, b \in NtChannels : GoesOn(u, b)
        BY <1>17 DEF notifyVars, GoesOn, Sends
    <2>2. QED
        BY <1>1, <1>17, <2>1 DEF notifyVars
<1>18. QED
    BY <1>4, <1>5, <1>6, <1>7, <1>8, <1>9, <1>11, <1>12, <1>13, <1>14, <1>15, <1>16, <1>17
    DEF NotifyNext, NtStep

\* An hour has no more alerts at a channel than there are rows.
LEMMA HourFinite ==
    ASSUME NotifyTypes, NEW c, NEW from
    PROVE  IsFiniteSet(HourAlerts(c, from))
<1> DEFINE R == {d \in deliveries : d.alert \in HourAlerts(c, from)}
           f == [d \in R |-> d.alert]
<1>1. IsFiniteSet(R)
    BY FS_Subset DEF NotifyTypes
<1>2. f \in Surjection(R, HourAlerts(c, from))
    BY DEF Surjection, HourAlerts
<1>3. QED
    BY <1>1, <1>2, FS_Surjection

\* A step in which nothing passes the count that had not, and no row of what
\* passed is new, keeps the limit.
LEMMA HourFrame ==
    ASSUME OnceInv, HourIsLimited,
           \A c \in NtChannels : Remains(c)' => Remains(c),
           \A c \in NtChannels, a \in NtAlerts :
              Remains(c)' /\ Passed(c, a)' =>
                 /\ Passed(c, a)
                 /\ \A e \in deliveries' :
                       e.channel = c /\ e.alert = a =>
                          \E d \in deliveries : d.channel = c /\ d.alert = a /\ d.at = e.at
    PROVE  HourIsLimited'
<1> SUFFICES ASSUME NEW c \in NtChannels, NEW from \in 1..NtClock, Remains(c)'
             PROVE  Cardinality(HourAlerts(c, from)') <= NtLimit
    BY DEF HourIsLimited
<1>1. HourAlerts(c, from)' \subseteq HourAlerts(c, from)
    BY DEF HourAlerts
<1>2. IsFiniteSet(HourAlerts(c, from)) /\ Cardinality(HourAlerts(c, from)) <= NtLimit
    BY HourFinite DEF OnceInv, HourIsLimited
<1>3. /\ IsFiniteSet(HourAlerts(c, from)')
      /\ Cardinality(HourAlerts(c, from)') <= Cardinality(HourAlerts(c, from))
    BY <1>1, <1>2, FS_Subset
<1>4. Cardinality(HourAlerts(c, from)') \in Nat /\ Cardinality(HourAlerts(c, from)) \in Nat
    BY <1>2, <1>3, FS_CardinalityType
<1>5. QED
    BY <1>2, <1>3, <1>4, NotifyAssumption

\* Of the alerts that passed within an hour of now, but for one's own, each has
\* a row that the count sees.
LEMMA HourIsRecent ==
    ASSUME OnceInv, NEW c \in NtChannels, NEW from \in 1..NtClock, NEW a, ntNow <= from + NtHour
    PROVE  Cardinality(HourAlerts(c, from) \ {a}) <= Recent(c, a)
<1> DEFINE D == {d \in deliveries : d.channel = c /\ d.alert # a /\ d.at >= ntNow - NtHour}
           T == HourAlerts(c, from) \ {a}
           R == {d \in D : d.alert \in T}
           f == [d \in R |-> d.alert]
<1>1. IsFiniteSet(D) /\ IsFiniteSet(R) /\ Cardinality(R) <= Cardinality(D)
    <2>1. IsFiniteSet(D)
        BY FS_Subset DEF OnceInv, NotifyTypes
    <2>2. QED
        BY <2>1, FS_Subset
<1>2. \A b \in T : \E d \in R : d.alert = b
    <2> SUFFICES ASSUME NEW b \in T PROVE \E d \in R : d.alert = b
        OBVIOUS
    <2>1. PICK d \in deliveries :
             d.channel = c /\ d.alert = b /\ d.at \in from..(from + NtHour)
        BY DEF HourAlerts
    <2>2. d.at >= ntNow - NtHour
        BY <2>1, NotifyAssumption DEF OnceInv, NotifyTypes, NotifyTypeOK
    <2>3. QED
        BY <2>1, <2>2
<1>3. f \in Surjection(R, T)
    BY <1>2 DEF Surjection
<1>4. IsFiniteSet(T) /\ Cardinality(T) <= Cardinality(R)
    BY <1>1, <1>3, FS_Surjection
<1>5. Cardinality(T) \in Nat /\ Cardinality(R) \in Nat /\ Cardinality(D) \in Nat
    BY <1>1, <1>4, FS_CardinalityType
<1>6. QED
    BY <1>1, <1>4, <1>5 DEF Recent

\* The count lets one more alert pass, claimed in this tick, where the hours
\* that reach this tick had room for it.
LEMMA CountStep ==
    ASSUME OnceInv, HourIsLimited, NEW t \in NtJobs, NEW c \in NtChannels, NtCount(t, c),
           ~(Recent(c, NtAlert(t)) >= NtLimit)
    PROVE  HourIsLimited'
<1> DEFINE a == NtAlert(t)
<1>1. /\ tasks[t].pc = "count" /\ c \in tasks[t].at /\ tasks' = [tasks EXCEPT ![t].pc = "send"]
      /\ UNCHANGED <<ntNow, channelState, deliveries, sent>>
    BY DEF NtCount
<1>2. /\ tasks'[t].pc = "send" /\ tasks'[t].at = {c}
      /\ \A u \in NtJobs : u # t => tasks'[u] = tasks[u]
    BY <1>1 DEF OnceInv, NotifyTypes, NotifyTypeOK, AtOneChannel
<1>3. \A b, x : Passed(b, x)' => Passed(b, x) \/ (b = c /\ x = a)
    BY <1>1, <1>2 DEF Passed, NtAlert
<1> SUFFICES ASSUME NEW b \in NtChannels, NEW from \in 1..NtClock, Remains(b)'
             PROVE  Cardinality(HourAlerts(b, from)') <= NtLimit
    BY DEF HourIsLimited
<1>4. Remains(b)
    BY <1>1 DEF Remains
<1>5. /\ IsFiniteSet(HourAlerts(b, from)) /\ Cardinality(HourAlerts(b, from)) <= NtLimit
      /\ Cardinality(HourAlerts(b, from)) \in Nat
    BY <1>4, HourFinite, FS_CardinalityType DEF OnceInv, HourIsLimited
<1>6. CASE HourAlerts(b, from)' \subseteq HourAlerts(b, from)
    <2>1. /\ Cardinality(HourAlerts(b, from)') <= Cardinality(HourAlerts(b, from))
          /\ Cardinality(HourAlerts(b, from)') \in Nat
        BY <1>5, <1>6, FS_Subset, FS_CardinalityType
    <2>2. QED
        BY <1>5, <2>1, NotifyAssumption
<1>7. CASE ~(HourAlerts(b, from)' \subseteq HourAlerts(b, from))
    <2>1. PICK x \in HourAlerts(b, from)' : x \notin HourAlerts(b, from)
        BY <1>7
    <2>2. b = c /\ x = a
        BY <1>1, <1>3, <2>1 DEF HourAlerts
    <2>3. PICK d \in deliveries : d.channel = c /\ d.alert = a /\ d.at \in from..(from + NtHour)
        BY <1>1, <2>1, <2>2 DEF HourAlerts
    <2>4. Sends(t, c)
        BY <1>1 DEF Sends
    <2>5. d.at = ntNow
        BY <1>1, <1>4, <2>2, <2>3, <2>4 DEF OnceInv, ClaimIsOwn, OneRow
    <2>6. Cardinality(HourAlerts(c, from) \ {a}) <= Recent(c, a)
        BY <2>3, <2>5, HourIsRecent, NotifyAssumption DEF NotifyTypes, NotifyTypeOK, OnceInv
    <2>7. HourAlerts(b, from)' \subseteq (HourAlerts(c, from) \ {a}) \union {a}
        BY <1>1, <1>3, <2>2 DEF HourAlerts
    <2> DEFINE T == HourAlerts(c, from) \ {a}
    <2>8. IsFiniteSet(T) /\ Cardinality(T) \in Nat
        BY <1>5, <2>2, FS_Subset, FS_CardinalityType
    <2>9. IsFiniteSet(T \union {a}) /\ Cardinality(T \union {a}) = Cardinality(T) + 1
        BY <2>8, FS_AddElement
    <2>10. /\ Cardinality(HourAlerts(b, from)') <= Cardinality(T) + 1
           /\ Cardinality(HourAlerts(b, from)') \in Nat
        BY <2>7, <2>9, FS_Subset, FS_CardinalityType
    <2>11. Recent(c, a) \in Nat
        <3>1. IsFiniteSet({d1 \in deliveries :
                  d1.channel = c /\ d1.alert # a /\ d1.at >= ntNow - NtHour})
            BY FS_Subset DEF OnceInv, NotifyTypes
        <3>2. QED
            BY <3>1, FS_CardinalityType DEF Recent
    <2>12. QED
        BY <2>6, <2>8, <2>10, <2>11, NotifyAssumption
<1>8. QED
    BY <1>6, <1>7

\* No step lets more alerts pass within an hour than the limit.
LEMMA HourStep ==
    ASSUME OnceInv, HourIsLimited, [NotifyNext]_notifyVars
    PROVE  HourIsLimited'
<1>1. ASSUME UNCHANGED <<channelState, sent, deliveries>>,
             \A u \in NtJobs : \/ tasks'[u].pc # "send"
                               \/ tasks'[u].pc = tasks[u].pc /\ tasks'[u].at = tasks[u].at
      PROVE  HourIsLimited'
    <2>1. \A c, a : Passed(c, a)' => Passed(c, a)
        BY <1>1 DEF Passed, NtAlert
    <2>2. QED
        BY <1>1, <2>1, HourFrame DEF Remains
<1>2. ASSUME NEW t \in NtJobs, NEW c \in NtChannels, tasks' = Past(t, c)
      PROVE  \A u \in NtJobs : tasks'[u].pc = "next" \/ tasks'[u] = tasks[u]
    BY <1>2, PastOthers DEF OnceInv
<1>3. CASE \E t \in NtJobs, quiet \in BOOLEAN : NtNotify(t, quiet)
    BY <1>1, <1>3 DEF NtNotify, OnceInv, NotifyTypes, NotifyTypeOK
<1>4. CASE \E t \in NtJobs : NtSelect(t)
    BY <1>1, <1>4 DEF NtSelect, OnceInv, NotifyTypes, NotifyTypeOK
<1>5. CASE \E t \in NtJobs : NtRemember(t)
    BY <1>1, <1>5 DEF NtRemember, OnceInv, NotifyTypes, NotifyTypeOK
<1>6. CASE \E t \in NtJobs : NtReturn(t)
    BY <1>1, <1>6 DEF NtReturn, OnceInv, NotifyTypes, NotifyTypeOK
<1>7. CASE \E t \in NtJobs, c \in NtChannels : BelowFloor(t, c)
    BY <1>1, <1>2, <1>7 DEF BelowFloor
<1>8. CASE \E t \in NtJobs, c \in NtChannels : NtClaim(t, c)
    <2> PICK t \in NtJobs, c \in NtChannels : NtClaim(t, c)
        BY <1>8
    <2>1. CASE Taken(c, NtAlert(t))
        BY <1>1, <1>2, <2>1 DEF NtClaim
    <2>2. CASE ~Taken(c, NtAlert(t))
        <3>1. /\ deliveries' = deliveries \union
                   {[channel |-> c, alert |-> NtAlert(t), at |-> ntNow, status |-> "pending"]}
              /\ tasks' = [tasks EXCEPT ![t] = [tasks[t] EXCEPT !.pc = "count", !.at = {c}]]
              /\ UNCHANGED <<ntNow, channelState, sent>>
            BY <2>2 DEF NtClaim
        <3>2. tasks'[t].pc = "count" /\ \A u \in NtJobs : u # t => tasks'[u] = tasks[u]
            BY <3>1 DEF OnceInv, NotifyTypes, NotifyTypeOK
        <3>3. \A b, a : Passed(b, a)' => Passed(b, a)
            BY <3>1, <3>2 DEF Passed, NtAlert
        <3>4. Remains(c) => ~Passed(c, NtAlert(t))
            BY <2>2 DEF Passed, OnceInv, SentHasRow, ClaimIsOwn, Sends, Taken
        <3>5. QED
            BY <3>1, <3>3, <3>4, HourFrame DEF Remains
    <2>3. QED
        BY <2>1, <2>2
<1>9. ASSUME NEW t \in NtJobs, NEW c \in NtChannels, NEW status \in {"done", "rate_limited"},
             tasks' = Past(t, c), deliveries' = Finished(c, NtAlert(t), status),
             UNCHANGED <<channelState, sent>>
      PROVE  HourIsLimited'
    <2>1. \A u \in NtJobs : tasks'[u].pc = "next" \/ tasks'[u] = tasks[u]
        BY <1>2, <1>9
    <2>2. \A b, a : Passed(b, a)' => Passed(b, a)
        BY <1>9, <2>1 DEF Passed, NtAlert
    <2>3. \A e \in deliveries' : \E d \in deliveries :
             d.channel = e.channel /\ d.alert = e.alert /\ d.at = e.at
        BY <1>9 DEF Finished, OnceInv, NotifyTypes, NotifyTypeOK
    <2>4. QED
        BY <1>9, <2>2, <2>3, HourFrame DEF Remains
<1>10. CASE \E t \in NtJobs, c \in NtChannels : NtCount(t, c)
    <2> PICK t \in NtJobs, c \in NtChannels : NtCount(t, c)
        BY <1>10
    <2>1. CASE Recent(c, NtAlert(t)) >= NtLimit
        BY <1>9, <2>1 DEF NtCount
    <2>2. CASE ~(Recent(c, NtAlert(t)) >= NtLimit)
        BY <2>2, CountStep
    <2>3. QED
        BY <2>1, <2>2
<1>11. CASE \E t \in NtJobs, c \in NtChannels : NtSend(t, c)
    <2> PICK t \in NtJobs, c \in NtChannels : NtSend(t, c)
        BY <1>11
    <2>1. /\ tasks[t].pc = "send" /\ c \in tasks[t].at
          /\ tasks' = [tasks EXCEPT ![t].pc = "finish"]
          /\ UNCHANGED <<channelState, deliveries>>
          /\ \A s \in sent' : s \in sent \/ (s.channel = c /\ s.alert = NtAlert(t))
        BY DEF NtSend
    <2>2. tasks'[t].pc = "finish" /\ \A u \in NtJobs : u # t => tasks'[u] = tasks[u]
        BY <2>1 DEF OnceInv, NotifyTypes, NotifyTypeOK
    <2>3. \A b, a : Passed(b, a)' => Passed(b, a)
        BY <2>1, <2>2 DEF Passed, NtAlert
    <2>4. QED
        BY <2>1, <2>3, HourFrame DEF Remains
<1>12. CASE \E t \in NtJobs, c \in NtChannels : NtFinish(t, c)
    BY <1>9, <1>12 DEF NtFinish
<1>13. CASE \E r \in NtReplicas, c \in NtChannels, s \in {"on", "off", "deleted"} : SetChannel(r, c, s)
    <2> PICK r \in NtReplicas, c \in NtChannels, s \in {"on", "off", "deleted"} : SetChannel(r, c, s)
        BY <1>13
    <2>1. deliveries' \subseteq deliveries /\ UNCHANGED <<tasks, sent>>
        BY DEF SetChannel
    <2>2. \A b \in NtChannels : Remains(b)' => Remains(b)
        BY DEF SetChannel, Remains, OnceInv, NotifyTypes, NotifyTypeOK
    <2>3. \A b, a : Passed(b, a)' => Passed(b, a)
        BY <2>1 DEF Passed, NtAlert
    <2>4. QED
        BY <2>1, <2>2, <2>3, HourFrame
<1>14. CASE \E r \in NtReplicas : NtCrash(r)
    BY <1>1, <1>14 DEF NtCrash, NtIdle
<1>15. CASE NtTick
    BY <1>1, <1>15 DEF NtTick
<1>16. CASE UNCHANGED notifyVars
    BY <1>1, <1>16 DEF notifyVars
<1>17. QED
    BY <1>3, <1>4, <1>5, <1>6, <1>7, <1>8, <1>10, <1>11, <1>12, <1>13, <1>14, <1>15, <1>16
    DEF NotifyNext, NtStep

\* A replica that remembers that there is no channel looked after the last one
\* was switched off, or before this one was switched on.
LEMMA BeliefStep ==
    ASSUME NotifyTypes, BeliefIsYoung, [NotifyNext]_notifyVars
    PROVE  BeliefIsYoung'
<1> USE NotifyAssumption DEF NotifyTypes, NotifyTypeOK, BeliefIsYoung
<1>1. ASSUME UNCHANGED <<ntNow, channelState, onSince, noneUntil>>,
             \A u \in NtJobs : tasks'[u].pc # "selected" \/ tasks'[u] = tasks[u]
      PROVE  BeliefIsYoung'
    BY <1>1
<1>2. ASSUME NEW t \in NtJobs, NEW c \in NtChannels, tasks' = Past(t, c)
      PROVE  \A u \in NtJobs : tasks'[u].pc # "selected" \/ tasks'[u] = tasks[u]
    <2>1. \A u \in NtJobs : tasks'[u].pc = "next" \/ tasks'[u] = tasks[u]
        BY <1>2, PastOthers
    <2>2. QED
        BY <2>1
<1>3. CASE \E t \in NtJobs, quiet \in BOOLEAN : NtNotify(t, quiet)
    BY <1>1, <1>3 DEF NtNotify
<1>4. CASE \E t \in NtJobs : NtSelect(t)
    BY <1>4 DEF NtSelect, Enabled
<1>5. CASE \E t \in NtJobs : NtRemember(t)
    BY <1>5 DEF NtRemember, RememberUntil
<1>6. CASE \E t \in NtJobs : NtReturn(t)
    BY <1>1, <1>6 DEF NtReturn
<1>7. CASE \E t \in NtJobs, c \in NtChannels : BelowFloor(t, c)
    BY <1>1, <1>2, <1>7 DEF BelowFloor
<1>8. CASE \E t \in NtJobs, c \in NtChannels : NtClaim(t, c)
    <2> PICK t \in NtJobs, c \in NtChannels : NtClaim(t, c)
        BY <1>8
    <2>1. CASE Taken(c, NtAlert(t))
        BY <1>1, <1>2, <2>1 DEF NtClaim
    <2>2. CASE ~Taken(c, NtAlert(t))
        <3>1. tasks' = [tasks EXCEPT ![t] = [tasks[t] EXCEPT !.pc = "count", !.at = {c}]]
            BY <2>2 DEF NtClaim
        <3>2. tasks'[t].pc = "count" /\ \A u \in NtJobs : u # t => tasks'[u] = tasks[u]
            BY <3>1
        <3>3. QED
            BY <1>1, <3>2 DEF NtClaim
    <2>3. QED
        BY <2>1, <2>2
<1>9. CASE \E t \in NtJobs, c \in NtChannels : NtCount(t, c)
    BY <1>1, <1>2, <1>9 DEF NtCount
<1>10. CASE \E t \in NtJobs, c \in NtChannels : NtSend(t, c)
    BY <1>1, <1>10 DEF NtSend
<1>11. CASE \E t \in NtJobs, c \in NtChannels : NtFinish(t, c)
    BY <1>1, <1>2, <1>11 DEF NtFinish
<1>12. CASE \E r \in NtReplicas, c \in NtChannels, s \in {"on", "off", "deleted"} : SetChannel(r, c, s)
    BY <1>12 DEF SetChannel
<1>13. CASE \E r \in NtReplicas : NtCrash(r)
    BY <1>13 DEF NtCrash, NtIdle
<1>14. CASE NtTick
    BY <1>14 DEF NtTick
<1>15. CASE UNCHANGED notifyVars
    BY <1>1, <1>15 DEF notifyVars
<1>16. QED
    BY <1>3, <1>4, <1>5, <1>6, <1>7, <1>8, <1>9, <1>10, <1>11, <1>12, <1>13, <1>14, <1>15
    DEF NotifyNext, NtStep

NotifyInv == OnceInv /\ HourIsLimited /\ BeliefIsYoung

\* The inductive invariant of dispatch holds throughout.
LEMMA NotifyInvariant == NotifySpec => []NotifyInv
<1>1. NotifyInit => NotifyInv
    <2> SUFFICES ASSUME NotifyInit PROVE NotifyInv
        OBVIOUS
    <2>1. NotifyTypes
        BY NotifyAssumption, FS_EmptySet
        DEF NotifyInit, NotifyTypes, NotifyTypeOK, AtOneChannel, NtIdle
    <2>2. OneRow /\ ClaimIsOwn /\ SentHasRow /\ SentOnce
        BY DEF NotifyInit, OneRow, ClaimIsOwn, Sends, NtIdle, SentHasRow, SentOnce
    <2>3. HourIsLimited
        <3>1. \A c, from : HourAlerts(c, from) = {}
            BY DEF NotifyInit, HourAlerts
        <3>2. Cardinality({}) = 0 /\ 0 <= NtLimit
            BY FS_EmptySet, NotifyAssumption
        <3>3. QED
            BY <3>1, <3>2 DEF HourIsLimited
    <2>4. BeliefIsYoung
        BY NotifyAssumption DEF NotifyInit, BeliefIsYoung, NtIdle
    <2>5. QED
        BY <2>1, <2>2, <2>3, <2>4 DEF NotifyInv, OnceInv
<1>2. NotifyInv /\ [NotifyNext]_notifyVars => NotifyInv'
    BY OnceStep, HourStep, BeliefStep DEF NotifyInv, OnceInv
<1>3. QED
    BY <1>1, <1>2, PTL DEF NotifySpec

\* What was claimed within an hour and sent is what passed the count, once each.
LEMMA SentWithinLimit ==
    ASSUME NotifyInv
    PROVE  HourlyLimit
<1> SUFFICES ASSUME NEW c \in NtChannels, NEW from \in 1..NtClock, Remains(c)
             PROVE  Cardinality({s \in sent : s.channel = c /\ s.claimed \in from..(from + NtHour)}) <= NtLimit
    BY DEF HourlyLimit, Remains
<1> DEFINE S == {s \in sent : s.channel = c /\ s.claimed \in from..(from + NtHour)}
           f == [s \in S |-> s.alert]
<1>1. ASSUME NEW s \in S PROVE s.alert \in HourAlerts(c, from)
    BY DEF NotifyInv, OnceInv, SentHasRow, NotifyTypes, HourAlerts, Passed
<1>2. f \in Injection(S, HourAlerts(c, from))
    BY <1>1 DEF Injection, IsInjective, NotifyInv, OnceInv, SentOnce, Remains
<1>3. /\ IsFiniteSet(HourAlerts(c, from)) /\ Cardinality(HourAlerts(c, from)) <= NtLimit
    BY HourFinite DEF NotifyInv, OnceInv, HourIsLimited
<1>4. IsFiniteSet(S) /\ Cardinality(S) <= Cardinality(HourAlerts(c, from))
    BY <1>2, <1>3, FS_Injection
<1>5. Cardinality(S) \in Nat /\ Cardinality(HourAlerts(c, from)) \in Nat
    BY <1>3, <1>4, FS_CardinalityType
<1>6. QED
    BY <1>3, <1>4, <1>5, NotifyAssumption

\* The household is told of each alert once at a channel, never of more than
\* the limit claimed within an hour, and over a channel that was just set up,
\* whichever replicas raise an alert, crash or are asked to change a channel
\* (NtClaim, NtCount, NtSend, NtRemember, SetChannel).
THEOREM AlertsAreRationedThroughout == NotifySpec => []AlertsAreRationed
<1>1. NotifyInv => AlertsAreRationed
    <2> SUFFICES ASSUME NotifyInv PROVE AlertsAreRationed
        OBVIOUS
    <2>1. SentOnce /\ HourlyLimit
        BY SentWithinLimit DEF NotifyInv, OnceInv
    <2>2. ChannelNoticed
        BY NotifyAssumption
        DEF NotifyInv, OnceInv, NotifyTypes, NotifyTypeOK, BeliefIsYoung, ChannelNoticed, Remembered
    <2>3. QED
        BY <2>1, <2>2 DEF AlertsAreRationed
<1>2. QED
    BY <1>1, NotifyInvariant, PTL

-------------------------------------------------------------------------------
(* Persons                                                                 *)

Identities == [row : {TRUE}, named : BOOLEAN, samples : Seq(Visits), count : Nat,
               cover : Visits \union {Nobody}]
Rows       == Visits \X Persons \X BOOLEAN
States     == [person : [Persons -> Identities \union {NoRow}],
               who : [Visits -> Persons \union {Nobody}], sightings : SUBSET Rows]

\* What the edits leave alone: which events are stored, and which were assigned too early.
Context == [early : SUBSET Visits, stored : [Visits -> {"new", "live", "purged"}]]
Around  == [early |-> early, stored |-> stored]

\* A sighting with a vector, and one without.
Shown(S, v, q) == <<v, q, TRUE>> \in S
Bare(S, v, q)  == <<v, q, FALSE>> \in S

\* The sightings are the assignments, of events that there are to identities that there
\* are. Only an event that was assigned too early has others, without a vector.
SightedAsAssigned(s, c) ==
    \A v \in Visits, q \in Persons :
        /\ Shown(s.sightings, v, q) => s.who[v] = q /\ c.stored[v] # "new"
        /\ Bare(s.sightings, v, q) => (s.who[v] = q /\ c.stored[v] = "live") \/ v \in c.early
        /\ Shown(s.sightings, v, q) \/ Bare(s.sightings, v, q) => Exists(s.person, q) /\ c.stored[v] # "purged"
        /\ s.who[v] = q => Shown(s.sightings, v, q) \/ Bare(s.sightings, v, q)

\* What the identities were taught is what their sightings have, with an exception that
\* an assignment makes on its way: the new identity p knows the event v that it will get.
TaughtOwn(s, p, v, c) ==
    \A q \in Persons, w \in Visits :
        Exists(s.person, q) /\ w \in ToSet(s.person[q].samples)
            => Shown(s.sightings, w, q) \/ c.stored[w] = "purged" \/ (q = p /\ w = v)
CoversOwn(s, c) ==
    \A q \in Persons : Exists(s.person, q) /\ s.person[q].cover # Nobody =>
        s.who[s.person[q].cover] = q \/ s.person[q].cover \in c.early
Capped(s) == \A q \in Persons : Exists(s.person, q) => Len(s.person[q].samples) <= MaxSamples

Own(s, p, v, c) ==
    /\ s \in States /\ SightedAsAssigned(s, c) /\ TaughtOwn(s, p, v, c) /\ CoversOwn(s, c) /\ Capped(s)
Sound(s, c) == Own(s, Nobody, Nobody, c)

MatchesAreOfNew ==
    /\ DOMAIN matching \subseteq {v \in Visits : stored[v] = "new"}
    /\ \A v \in DOMAIN matching : /\ matching[v].person \in Persons \union {Nobody}
                                  /\ matching[v].person # Nobody => matching[v].read \in Identities

PersonsInv == Sound(Now, Around) /\ MatchesAreOfNew /\ Around \in Context

\* What is left of samples is some of them, without those that go.
LEMMA WithoutIsLess ==
    ASSUME NEW samples \in Seq(Visits), NEW gone
    PROVE  /\ SamplesWithout(samples, gone) \in Seq(Visits)
           /\ ToSet(SamplesWithout(samples, gone)) \subseteq ToSet(samples) \ gone
           /\ Len(SamplesWithout(samples, gone)) <= Len(samples)
<1> DEFINE n == Len(samples)
           Step(i, x) == IF samples[i] \in gone THEN x ELSE Append(x, samples[i])
           kept[i \in 0..n] == IF i = 0 THEN <<>> ELSE Step(i, kept[i - 1])
           G == [i \in 0..n |-> {x \in Seq(Visits) : /\ ToSet(x) \subseteq ToSet(samples) \ gone
                                                     /\ Len(x) <= i}]
           F == [i \in 1..n |-> [x \in G[i - 1] |-> Step(i, x)]]
<1>1. n \in Nat /\ DOMAIN samples = 1..n /\ \A i \in 1..n : samples[i] \in Visits
    OBVIOUS
<1>2. <<>> \in G[0]
    <2>1. <<>> \in Seq(Visits) /\ ToSet(<<>>) = {} /\ Len(<<>>) = 0 /\ 0 \in 0..n
        BY <1>1 DEF ToSet
    <2>2. QED
        BY <2>1
<1>3. ASSUME NEW i \in 1..n, NEW x \in G[i - 1] PROVE Step(i, x) \in G[i]
    <2>1. /\ i - 1 \in 0..n /\ i \in 0..n /\ x \in Seq(Visits) /\ Len(x) <= i - 1 /\ Len(x) \in Nat
          /\ ToSet(x) \subseteq ToSet(samples) \ gone
        BY <1>1, <1>3
    <2>2. CASE samples[i] \in gone
        BY <2>1, <2>2
    <2>3. CASE samples[i] \notin gone
        <3> DEFINE y == Append(x, samples[i])
        <3>1. y \in Seq(Visits) /\ Len(y) = Len(x) + 1 /\ Len(y) <= i
            BY <1>1, <2>1
        <3>2. ToSet(y) \subseteq ToSet(x) \union {samples[i]}
            BY <1>1, <2>1 DEF ToSet
        <3>3. samples[i] \in ToSet(samples)
            BY <1>1 DEF ToSet
        <3> HIDE DEF y
        <3>4. y \in G[i]
            BY <2>1, <2>3, <3>1, <3>2, <3>3
        <3>5. QED
            BY <2>3, <3>4 DEF y
    <2>4. QED
        BY <2>2, <2>3
<1>10. DOMAIN G = 0..n /\ DOMAIN F = 1..n
    OBVIOUS
<1> HIDE DEF G, Step
<1>4. kept = [i \in 0..n |-> IF i = 0 THEN <<>> ELSE Step(i, kept[i - 1])]
    <2>1. \A i \in 1..n : \A x \in G[i - 1] : F[i][x] = Step(i, x)
        OBVIOUS
    <2> HIDE DEF F
    <2>2. \A i \in 1..n : \A x \in G[i - 1] : F[i][x] \in G[i]
        BY <1>3, <2>1
    <2> HIDE DEF n
    <2> DEFINE start == <<>>
    <2>6. n \in Nat /\ start \in G[0]
        BY <1>1, <1>2
    <2> HIDE DEF start
    <2>8. \E run : /\ run = [i \in 0..n |-> run[i]] /\ run[0] = start
                   /\ \A i \in 1..n : run[i] = F[i][run[i - 1]]
                   /\ \A i \in 0..n : run[i] \in G[i]
        BY <2>6, <2>2, <1>10, RunExists
    <2>3. PICK run : /\ run = [i \in 0..n |-> run[i]] /\ run[0] = <<>>
                     /\ \A i \in 1..n : run[i] = F[i][run[i - 1]]
                     /\ \A i \in 0..n : run[i] \in G[i]
        BY <2>8 DEF start
    <2>4. \A i \in 1..n : run[i] = Step(i, run[i - 1])
        <3>1. \A i \in 1..n : i - 1 \in 0..n
            BY <1>1
        <3>2. QED
            BY <2>1, <2>3, <3>1
    <2>5. run = [i \in 0..n |-> IF i = 0 THEN <<>> ELSE Step(i, run[i - 1])]
        <3>1. \A i \in 0..n : run[i] = (IF i = 0 THEN <<>> ELSE Step(i, run[i - 1]))
            <4>1. \A i \in 0..n : i # 0 => i \in 1..n
                BY <1>1
            <4>2. QED
                BY <2>3, <2>4, <4>1
        <3>2. QED
            BY <2>3, <3>1
    <2>7. QED
        BY <2>5
<1> HIDE DEF kept
<1>5. kept[0] = <<>> /\ \A i \in 1..n : kept[i] = Step(i, kept[i - 1])
    BY <1>1, <1>4
<1>6. \A i \in 0..n : kept[i] \in G[i]
    <2> DEFINE T == {i \in 0..n : kept[i] \in G[i]}
    <2>1. 0 \in T
        BY <1>1, <1>2, <1>5
    <2>2. \A i \in 1..n : i - 1 \in T => i \in T
        BY <1>1, <1>3, <1>5
    <2> HIDE DEF T
    <2>3. \A i \in 0..n : i \in T
        BY <1>1, <2>1, <2>2, NumbersUpTo
    <2>4. QED
        BY <2>3 DEF T
<1>7. kept[n] \in G[n] /\ n \in 0..n
    BY <1>1, <1>6
<1>8. SamplesWithout(samples, gone) = kept[n]
    BY DEF SamplesWithout, kept, Step
<1>9. QED
    BY <1>7, <1>8 DEF G

\* The last few of samples are some of them, no more than are allowed.
LEMMA LastOfIsLess ==
    ASSUME NEW samples \in Seq(Visits)
    PROVE  /\ LastOf(samples) \in Seq(Visits) /\ ToSet(LastOf(samples)) \subseteq ToSet(samples)
           /\ Len(LastOf(samples)) <= MaxSamples
<1>1. Len(samples) \in Nat /\ MaxSamples \in Nat \ {0} /\ DOMAIN samples = 1..Len(samples)
    BY PersonsAssumption
<1>2. CASE Len(samples) > MaxSamples
    <2> DEFINE k == Len(samples) - MaxSamples + 1
               e == SubSeq(samples, k, Len(samples))
    <2>1. k \in 1..Len(samples) /\ Len(samples) - k + 1 = MaxSamples
        BY <1>1, <1>2
    <2> HIDE DEF k
    <2>2. e = [i \in 1..MaxSamples |-> samples[k + i - 1]]
        BY <1>1, <2>1
    <2>3. \A i \in 1..MaxSamples : k + i - 1 \in 1..Len(samples)
        BY <1>1, <2>1
    <2>4. e \in Seq(Visits) /\ Len(e) = MaxSamples
        BY <1>1, <2>1
    <2>5. ToSet(e) \subseteq ToSet(samples)
        BY <1>1, <2>2, <2>3 DEF ToSet
    <2>6. LastOf(samples) = e
        BY <1>2 DEF LastOf, k
    <2> HIDE DEF e
    <2>7. QED
        BY <1>1, <2>4, <2>5, <2>6
<1>3. CASE ~(Len(samples) > MaxSamples)
    <2>1. LastOf(samples) = samples
        BY <1>3 DEF LastOf
    <2>2. QED
        BY <1>1, <1>3, <2>1
<1>4. QED
    BY <1>2, <1>3

LEMMA BothAreSamples ==
    ASSUME NEW s \in Seq(Visits), NEW t \in Seq(Visits)
    PROVE  s \o t \in Seq(Visits) /\ ToSet(s \o t) \subseteq ToSet(s) \union ToSet(t)
<1> DEFINE u == s \o t
<1>1. /\ Len(s) \in Nat /\ Len(t) \in Nat /\ Len(u) = Len(s) + Len(t) /\ u \in Seq(Visits)
      /\ \A i \in 1..Len(s) : u[i] = s[i]
      /\ \A i \in 1..Len(u) : i > Len(s) => u[i] = t[i - Len(s)]
      /\ DOMAIN s = 1..Len(s) /\ DOMAIN t = 1..Len(t) /\ DOMAIN u = 1..Len(u)
    OBVIOUS
<1> HIDE DEF u
<1>2. ASSUME NEW i \in 1..Len(u) PROVE u[i] \in ToSet(s) \union ToSet(t)
    <2>1. CASE i <= Len(s)
        <3>1. i \in 1..Len(s) /\ u[i] = s[i]
            BY <1>1, <2>1
        <3>2. QED
            BY <1>1, <3>1 DEF ToSet
    <2>2. CASE i > Len(s)
        <3>1. i - Len(s) \in 1..Len(t) /\ u[i] = t[i - Len(s)]
            BY <1>1, <2>2
        <3>2. QED
            BY <1>1, <3>1 DEF ToSet
    <2>3. QED
        BY <1>1, <2>1, <2>2
<1>3. QED
    BY <1>1, <1>2 DEF ToSet, u

\* An identity that there is has the fields of one, and only then.
LEMMA RowsAreIdentities ==
    ASSUME NEW P \in [Persons -> Identities \union {NoRow}], NEW p \in Persons
    PROVE  Exists(P, p) <=> P[p] \in Identities
<1>1. P[p] \in Identities \/ P[p] = NoRow
    OBVIOUS
<1>2. CASE P[p] \in Identities
    <2>1. P[p].row = TRUE
        BY <1>2 DEF Identities
    <2>2. QED
        BY <1>2, <2>1 DEF Exists
<1>3. CASE P[p] = NoRow
    <2>1. P[p].row = FALSE
        BY <1>3 DEF NoRow
    <2>2. \A x \in Identities : x.row = TRUE
        BY DEF Identities
    <2>3. QED
        BY <2>1, <2>2 DEF Exists
<1>4. QED
    BY <1>1, <1>2, <1>3

\* A merge moves all that is the one's to the other.
LEMMA MergedIsSound ==
    ASSUME NEW c, NEW s, Sound(s, c), NEW to \in Persons, NEW from \in Persons, to # from,
           Exists(s.person, to), Exists(s.person, from)
    PROVE  /\ Sound(Merged(s, to, from), c) /\ Exists(Merged(s, to, from).person, to)
           /\ \A q \in Persons : q \notin {to, from} /\ Exists(s.person, q) =>
                 Exists(Merged(s, to, from).person, q)
<1> DEFINE a == s.person[to]
           b == s.person[from]
           more == SamplesWithout(b.samples, ToSet(a.samples))
           row == [a EXCEPT !.samples = LastOf(@ \o more), !.count = @ + b.count,
                            !.cover = IF @ = Nobody THEN b.cover ELSE @]
           P == [s.person EXCEPT ![to] = row, ![from] = NoRow]
           W == [v \in Visits |-> IF s.who[v] = from THEN to ELSE s.who[v]]
           S == {IF x[2] = from THEN <<x[1], to, x[3]>> ELSE x : x \in s.sightings}
<1>1. Merged(s, to, from) = [person |-> P, who |-> W, sightings |-> S]
    BY DEF Merged
<1>2. /\ s.person \in [Persons -> Identities \union {NoRow}] /\ a \in Identities /\ b \in Identities
      /\ s.who \in [Visits -> Persons \union {Nobody}]
      /\ SightedAsAssigned(s, c) /\ TaughtOwn(s, Nobody, Nobody, c) /\ CoversOwn(s, c) /\ Capped(s)
      /\ s.sightings \subseteq Rows
      /\ Nobody \notin Persons /\ Nobody \notin Visits
    <2>1. s.person \in [Persons -> Identities \union {NoRow}]
        BY DEF Sound, Own, States
    <2>2. QED
        BY <2>1, RowsAreIdentities, PersonsAssumption DEF Sound, Own, States, Nobody
<1> HIDE DEF a, b
<1>3. /\ row \in Identities /\ Len(row.samples) <= MaxSamples
      /\ ToSet(row.samples) \subseteq ToSet(a.samples) \union ToSet(b.samples)
      /\ row.cover = (IF a.cover = Nobody THEN b.cover ELSE a.cover)
    <2>1. more \in Seq(Visits) /\ ToSet(more) \subseteq ToSet(b.samples)
        BY <1>2, WithoutIsLess DEF Identities
    <2>2. a.samples \in Seq(Visits)
        BY <1>2 DEF Identities
    <2> HIDE DEF more
    <2>3. /\ a.samples \o more \in Seq(Visits)
          /\ ToSet(a.samples \o more) \subseteq ToSet(a.samples) \union ToSet(more)
        BY <2>1, <2>2, BothAreSamples
    <2> DEFINE kept == LastOf(a.samples \o more)
    <2>4. /\ kept \in Seq(Visits) /\ Len(kept) <= MaxSamples
          /\ ToSet(kept) \subseteq ToSet(a.samples) \union ToSet(b.samples)
        BY <2>1, <2>3, LastOfIsLess
    <2>5. row = [a EXCEPT !.samples = kept, !.count = a.count + b.count,
                          !.cover = IF a.cover = Nobody THEN b.cover ELSE a.cover]
        BY <1>2 DEF Identities
    <2> HIDE DEF kept, row
    <2>6. a.count + b.count \in Nat
        BY <1>2 DEF Identities
    <2>7. QED
        BY <1>2, <2>4, <2>5, <2>6 DEF Identities
<1> HIDE DEF row
<1>4. /\ P \in [Persons -> Identities \union {NoRow}] /\ P[to] = row /\ P[from] = NoRow
      /\ \A q \in Persons \ {to, from} : P[q] = s.person[q]
      /\ W \in [Visits -> Persons \union {Nobody}]
      /\ \A v \in Visits : W[v] = IF s.who[v] = from THEN to ELSE s.who[v]
    BY <1>2, <1>3
<1>5. /\ Exists(P, to) /\ ~Exists(P, from)
      /\ \A q \in Persons \ {to, from} : Exists(P, q) <=> Exists(s.person, q)
    BY <1>3, <1>4 DEF Exists, Identities, NoRow
<1>6. /\ S \subseteq Rows
      /\ \A v \in Visits, q \in Persons \ {to, from} : /\ Shown(S, v, q) <=> Shown(s.sightings, v, q)
                                                       /\ Bare(S, v, q) <=> Bare(s.sightings, v, q)
      /\ \A v \in Visits : /\ Shown(S, v, to) <=> Shown(s.sightings, v, to) \/ Shown(s.sightings, v, from)
                           /\ Bare(S, v, to) <=> Bare(s.sightings, v, to) \/ Bare(s.sightings, v, from)
                           /\ ~Shown(S, v, from) /\ ~Bare(S, v, from)
    <2> DEFINE moved(x) == IF x[2] = from THEN <<x[1], to, x[3]>> ELSE x
    <2>1. S = {moved(x) : x \in s.sightings}
        OBVIOUS
    <2>2. \A x \in Rows : /\ moved(x) \in Rows /\ moved(x)[1] = x[1] /\ moved(x)[3] = x[3]
                          /\ moved(x)[2] = IF x[2] = from THEN to ELSE x[2]
        BY DEF Rows
    <2>3. \A x \in Rows : x = <<x[1], x[2], x[3]>> /\ x[1] \in Visits /\ x[2] \in Persons /\ x[3] \in BOOLEAN
        BY DEF Rows
    <2>4. \A v \in Visits, q \in Persons, told \in BOOLEAN :
              <<v, q, told>> \in Rows /\ moved(<<v, q, told>>) = <<v, IF q = from THEN to ELSE q, told>>
        BY DEF Rows
    <2> HIDE DEF S, moved
    <2>5. S \subseteq Rows
        BY <1>2, <2>1, <2>2
    <2>6. ASSUME NEW v \in Visits, NEW q \in Persons, NEW told \in BOOLEAN
          PROVE  <<v, q, told>> \in S <=> \E r \in Persons : <<v, r, told>> \in s.sightings /\ q = IF r = from THEN to ELSE r
        <3>1. ASSUME <<v, q, told>> \in S
              PROVE  \E r \in Persons : <<v, r, told>> \in s.sightings /\ q = IF r = from THEN to ELSE r
            <4>1. PICK x \in s.sightings : <<v, q, told>> = moved(x)
                BY <2>1, <3>1
            <4>2. x \in Rows
                BY <1>2, <4>1
            <4>3. v = x[1] /\ told = x[3] /\ q = (IF x[2] = from THEN to ELSE x[2])
                <5>1. <<v, q, told>>[1] = v /\ <<v, q, told>>[2] = q /\ <<v, q, told>>[3] = told
                    OBVIOUS
                <5>2. QED
                    BY <2>2, <4>1, <4>2, <5>1
            <4>4. <<v, x[2], told>> = x /\ x[2] \in Persons
                BY <2>3, <4>2, <4>3
            <4>5. QED
                BY <4>1, <4>3, <4>4
        <3>2. ASSUME NEW r \in Persons, <<v, r, told>> \in s.sightings, q = IF r = from THEN to ELSE r
              PROVE  <<v, q, told>> \in S
            <4>1. moved(<<v, r, told>>) = <<v, q, told>>
                BY <2>4, <3>2
            <4>2. QED
                BY <2>1, <3>2, <4>1
        <3>3. QED
            BY <3>1, <3>2
    <2>7. QED
        BY <2>5, <2>6 DEF Shown, Bare
<1> HIDE DEF P, W, S
<1> DEFINE m == [person |-> P, who |-> W, sightings |-> S]
<1>7. m \in States /\ m.person = P /\ m.who = W /\ m.sightings = S
    BY <1>4, <1>6 DEF States
<1> HIDE DEF m
<1>8. SightedAsAssigned(m, c)
    <2> SUFFICES ASSUME NEW v \in Visits, NEW q \in Persons
                 PROVE  /\ Shown(S, v, q) => W[v] = q /\ c.stored[v] # "new"
                        /\ Bare(S, v, q) => (W[v] = q /\ c.stored[v] = "live") \/ v \in c.early
                        /\ Shown(S, v, q) \/ Bare(S, v, q) => Exists(P, q) /\ c.stored[v] # "purged"
                        /\ W[v] = q => Shown(S, v, q) \/ Bare(S, v, q)
        BY <1>7 DEF SightedAsAssigned
    <2>1. \A r \in Persons :
              /\ Shown(s.sightings, v, r) => s.who[v] = r /\ c.stored[v] # "new"
              /\ Bare(s.sightings, v, r) => (s.who[v] = r /\ c.stored[v] = "live") \/ v \in c.early
              /\ Shown(s.sightings, v, r) \/ Bare(s.sightings, v, r) =>
                    Exists(s.person, r) /\ c.stored[v] # "purged"
              /\ s.who[v] = r => Shown(s.sightings, v, r) \/ Bare(s.sightings, v, r)
        BY <1>2 DEF SightedAsAssigned
    <2>2. CASE q = to
        BY <1>4, <1>5, <1>6, <2>1, <2>2
    <2>3. CASE q = from
        BY <1>2, <1>4, <1>5, <1>6, <2>1, <2>3
    <2>4. CASE q \notin {to, from}
        BY <1>4, <1>5, <1>6, <2>1, <2>4
    <2>5. QED
        BY <2>2, <2>3, <2>4
<1>9. TaughtOwn(m, Nobody, Nobody, c)
    <2> SUFFICES ASSUME NEW q \in Persons, NEW w \in Visits, Exists(P, q), w \in ToSet(P[q].samples)
                 PROVE  Shown(S, w, q) \/ c.stored[w] = "purged"
        BY <1>7 DEF TaughtOwn
    <2>1. CASE q = to
        <3>1. w \in ToSet(a.samples) \/ w \in ToSet(b.samples)
            BY <1>3, <1>4, <2>1
        <3>2. Shown(s.sightings, w, to) \/ Shown(s.sightings, w, from) \/ c.stored[w] = "purged"
            BY <1>2, <3>1 DEF TaughtOwn, a, b
        <3>3. QED
            BY <1>6, <2>1, <3>2
    <2>2. CASE q \notin {to, from}
        <3>1. Exists(s.person, q) /\ w \in ToSet(s.person[q].samples)
            BY <1>4, <1>5, <2>2
        <3>2. Shown(s.sightings, w, q) \/ c.stored[w] = "purged"
            BY <1>2, <3>1 DEF TaughtOwn
        <3>3. QED
            BY <1>6, <2>2, <3>2
    <2>3. QED
        BY <1>5, <2>1, <2>2
<1>10. CoversOwn(m, c)
    <2> SUFFICES ASSUME NEW q \in Persons, Exists(P, q), P[q].cover # Nobody
                 PROVE  W[P[q].cover] = q \/ P[q].cover \in c.early
        BY <1>7 DEF CoversOwn
    <2>1. CASE q = to
        <3>1. P[q].cover = a.cover \/ P[q].cover = b.cover
            BY <1>3, <1>4, <2>1
        <3>2. P[q].cover \in Visits /\ (s.who[P[q].cover] \in {to, from} \/ P[q].cover \in c.early)
            BY <1>2, <2>1, <3>1 DEF CoversOwn, a, b, Identities
        <3>3. QED
            BY <1>4, <2>1, <3>2
    <2>2. CASE q \notin {to, from}
        <3>1. s.person[q] \in Identities /\ s.person[q].cover \in Visits
            <4>1. Exists(s.person, q) /\ P[q] = s.person[q]
                BY <1>4, <1>5, <2>2
            <4>2. s.person[q] \in Identities
                BY <1>2, <4>1, RowsAreIdentities
            <4>3. QED
                BY <4>1, <4>2 DEF Identities
        <3>2. s.who[P[q].cover] = q \/ P[q].cover \in c.early
            BY <1>2, <1>4, <1>5, <2>2 DEF CoversOwn
        <3>3. QED
            BY <1>4, <2>2, <3>1, <3>2
    <2>3. QED
        BY <1>5, <2>1, <2>2
<1>11. Capped(m)
    <2> SUFFICES ASSUME NEW q \in Persons, Exists(P, q) PROVE Len(P[q].samples) <= MaxSamples
        BY <1>7 DEF Capped
    <2>1. QED
        BY <1>2, <1>3, <1>4, <1>5 DEF Capped
<1>12. QED
    BY <1>1, <1>5, <1>7, <1>8, <1>9, <1>10, <1>11 DEF Sound, Own, m

\* What a merge keeps, merges one after another keep.
LEMMA GatheredIsSound ==
    ASSUME NEW c, NEW s, Sound(s, c), NEW p \in Persons, Exists(s.person, p), NEW order \in SetToSeqs(Duplicates(s, p))
    PROVE  Sound(Gathered(s, p, order), c)
<1> DEFINE n == Len(order)
           merged[i \in 0..n] == IF i = 0 THEN s ELSE Merged(merged[i - 1], p, order[i])
           Ready(i, x) == /\ Sound(x, c) /\ Exists(x.person, p)
                          /\ \A j \in 1..n : j > i => Exists(x.person, order[j])
           G == [i \in 0..n |-> {x \in States : Ready(i, x)}]
           F == [i \in 1..n |-> [x \in G[i - 1] |-> Merged(x, p, order[i])]]
<1>1. /\ n \in Nat /\ \A i \in 1..n : order[i] \in Persons \ {p} /\ Exists(s.person, order[i])
      /\ \A i, j \in 1..n : i # j => order[i] # order[j]
    <2>1. Duplicates(s, p) \subseteq Persons \ {p} /\ \A q \in Duplicates(s, p) : Exists(s.person, q)
        BY DEF Duplicates
    <2>2. IsFiniteSet(Duplicates(s, p))
        BY <2>1, PersonsAssumption, FS_Subset
    <2> DEFINE k == Cardinality(Duplicates(s, p))
    <2>3. k \in Nat
        BY <2>2, FS_CardinalityType
    <2>4. order \in [1..k -> Duplicates(s, p)] /\ \A i, j \in 1..k : i # j => order[i] # order[j]
        BY DEF SetToSeqs
    <2> HIDE DEF k
    <2>5. Len(order) = k
        BY <2>3, <2>4
    <2>6. QED
        BY <2>1, <2>3, <2>4, <2>5
<1>2. s \in G[0]
    <2>1. s \in States
        BY DEF Sound, Own
    <2>2. Ready(0, s)
        BY <1>1
    <2> HIDE DEF Ready
    <2>3. QED
        BY <1>1, <2>1, <2>2
<1>3. ASSUME NEW i \in 1..n, NEW x \in G[i - 1] PROVE Merged(x, p, order[i]) \in G[i]
    <2> DEFINE m == Merged(x, p, order[i])
    <2>1. i - 1 \in 0..n /\ i \in 0..n /\ i > i - 1
        BY <1>1
    <2>2. Ready(i - 1, x)
        <3> HIDE DEF Ready
        <3>1. QED
            BY <1>3, <2>1
    <2>3. /\ Sound(m, c) /\ Exists(m.person, p)
          /\ \A q \in Persons : q \notin {p, order[i]} /\ Exists(x.person, q) => Exists(m.person, q)
        BY <1>1, <2>1, <2>2, MergedIsSound
    <2> HIDE DEF m
    <2>4. Ready(i, m)
        <3> SUFFICES ASSUME NEW j \in 1..n, j > i PROVE Exists(m.person, order[j])
            BY <2>3
        <3>1. order[j] \in Persons /\ order[j] \notin {p, order[i]} /\ j > i - 1
            BY <1>1
        <3>2. QED
            BY <2>2, <2>3, <3>1
    <2>5. m \in States
        BY <2>3 DEF Sound, Own
    <2> HIDE DEF Ready
    <2>6. m \in G[i]
        BY <2>1, <2>4, <2>5
    <2>7. QED
        BY <2>6 DEF m
<1>4. DOMAIN G = 0..n /\ DOMAIN F = 1..n
    OBVIOUS
<1> HIDE DEF G
<1>5. merged = [i \in 0..n |-> IF i = 0 THEN s ELSE Merged(merged[i - 1], p, order[i])]
    <2>1. \A i \in 1..n : \A x \in G[i - 1] : F[i][x] = Merged(x, p, order[i])
        OBVIOUS
    <2> HIDE DEF F
    <2>2. \A i \in 1..n : \A x \in G[i - 1] : F[i][x] \in G[i]
        BY <1>3, <2>1
    <2> HIDE DEF n
    <2>3. PICK run : /\ run = [i \in 0..n |-> run[i]] /\ run[0] = s
                     /\ \A i \in 1..n : run[i] = F[i][run[i - 1]]
                     /\ \A i \in 0..n : run[i] \in G[i]
        BY <1>1, <1>2, <1>4, <2>2, RunExists
    <2>4. \A i \in 1..n : run[i] = Merged(run[i - 1], p, order[i])
        <3>1. \A i \in 1..n : i - 1 \in 0..n
            BY <1>1
        <3>2. QED
            BY <2>1, <2>3, <3>1
    <2>5. run = [i \in 0..n |-> IF i = 0 THEN s ELSE Merged(run[i - 1], p, order[i])]
        <3>1. \A i \in 0..n : run[i] = (IF i = 0 THEN s ELSE Merged(run[i - 1], p, order[i]))
            <4>1. \A i \in 0..n : i # 0 => i \in 1..n
                BY <1>1
            <4>2. QED
                BY <2>3, <2>4, <4>1
        <3>2. QED
            BY <2>3, <3>1
    <2>6. QED
        BY <2>5
<1> HIDE DEF merged
<1>6. merged[0] = s /\ \A i \in 1..n : merged[i] = Merged(merged[i - 1], p, order[i])
    BY <1>1, <1>5
<1>7. \A i \in 0..n : merged[i] \in G[i]
    <2> DEFINE T == {i \in 0..n : merged[i] \in G[i]}
    <2>1. 0 \in T
        BY <1>1, <1>2, <1>6
    <2>2. \A i \in 1..n : i - 1 \in T => i \in T
        BY <1>1, <1>3, <1>6
    <2> HIDE DEF T
    <2>3. \A i \in 0..n : i \in T
        BY <1>1, <2>1, <2>2, NumbersUpTo
    <2>4. QED
        BY <2>3 DEF T
<1>8. merged[n] \in G[n] /\ n \in 0..n
    BY <1>1, <1>7
<1>9. Sound(merged[n], c)
    <2> HIDE DEF Ready
    <2>1. Ready(n, merged[n])
        BY <1>8 DEF G
    <2>2. QED
        BY <2>1 DEF Ready
<1>10. Gathered(s, p, order) = merged[n]
    BY DEF Gathered, merged
<1>11. QED
    BY <1>9, <1>10

LEMMA ConsolidatedIsSound ==
    ASSUME NEW c, NEW s, Sound(s, c), NEW p \in Persons, Exists(s.person, p), NEW t \in Consolidated(s, p)
    PROVE  Sound(t, c)
BY GatheredIsSound DEF Consolidated

\* A row that is one's own may replace another.
LEMMA RowIsOwn ==
    ASSUME NEW c, NEW s, NEW p, NEW v, Own(s, p, v, c), NEW q \in Persons, NEW row \in Identities,
           Len(row.samples) <= MaxSamples,
           \A w \in ToSet(row.samples) :
               Shown(s.sightings, w, q) \/ c.stored[w] = "purged" \/ (q = p /\ w = v),
           row.cover # Nobody => s.who[row.cover] = q \/ row.cover \in c.early
    PROVE  /\ Own([s EXCEPT !.person[q] = row], p, v, c)
           /\ [s EXCEPT !.person[q] = row].who = s.who /\ [s EXCEPT !.person[q] = row].person[q] = row
           /\ Exists([s EXCEPT !.person[q] = row].person, q)
<1> DEFINE P == [s.person EXCEPT ![q] = row]
           t == [s EXCEPT !.person = P]
<1>1. /\ s \in States /\ s.person \in [Persons -> Identities \union {NoRow}]
      /\ SightedAsAssigned(s, c) /\ TaughtOwn(s, p, v, c) /\ CoversOwn(s, c) /\ Capped(s)
    BY DEF Own, States
<1>2. [s EXCEPT !.person[q] = row] = t
    OBVIOUS
<1>3. /\ P \in [Persons -> Identities \union {NoRow}] /\ P[q] = row
      /\ \A r \in Persons \ {q} : P[r] = s.person[r]
    BY <1>1
<1> HIDE DEF P
<1>4. t \in States /\ t.person = P /\ t.who = s.who /\ t.sightings = s.sightings
    BY <1>1, <1>3 DEF States
<1> HIDE DEF t
<1>5. /\ Exists(P, q) /\ \A r \in Persons : Exists(s.person, r) => Exists(P, r)
      /\ \A r \in Persons \ {q} : Exists(P, r) <=> Exists(s.person, r)
    BY <1>1, <1>3, RowsAreIdentities DEF Exists
<1>6. SightedAsAssigned(t, c)
    BY <1>1, <1>4, <1>5 DEF SightedAsAssigned
<1>7. TaughtOwn(t, p, v, c)
    BY <1>1, <1>3, <1>4, <1>5 DEF TaughtOwn
<1>8. CoversOwn(t, c)
    BY <1>1, <1>3, <1>4, <1>5 DEF CoversOwn
<1>9. Capped(t)
    BY <1>1, <1>3, <1>4, <1>5 DEF Capped
<1>10. QED
    BY <1>2, <1>3, <1>4, <1>5, <1>6, <1>7, <1>8, <1>9 DEF Own

Given(s, v, p, row, b) ==
    [person |-> [s.person EXCEPT ![p] = row], who |-> [s.who EXCEPT ![v] = p],
     sightings |-> s.sightings \union {<<v, p, b>>}]

\* An event that is nobody else's may be given to an identity, with what it teaches it.
LEMMA GivenIsOwn ==
    ASSUME NEW c, NEW s, NEW v \in Visits, NEW p \in Persons, NEW b \in BOOLEAN, NEW e \in {p, Nobody},
           Own(s, e, v, c), c.stored[v] # "purged", e = p => b, b => c.stored[v] # "new",
           c.stored[v] = "live" \/ v \in c.early,
           \A q \in Persons \ {p} : ~Shown(s.sightings, v, q),
           \A q \in Persons \ {p} : Bare(s.sightings, v, q) => v \in c.early,
           NEW row \in Identities, Len(row.samples) <= MaxSamples,
           \A w \in ToSet(row.samples) :
               Shown(s.sightings, w, p) \/ c.stored[w] = "purged" \/ (w = v /\ b),
           row.cover # Nobody => s.who[row.cover] = p \/ row.cover = v \/ row.cover \in c.early
    PROVE  Sound(Given(s, v, p, row, b), c) /\ Exists(Given(s, v, p, row, b).person, p)
<1> DEFINE P == [s.person EXCEPT ![p] = row]
           W == [s.who EXCEPT ![v] = p]
           S == s.sightings \union {<<v, p, b>>}
           t == [person |-> P, who |-> W, sightings |-> S]
<1>1. /\ s.person \in [Persons -> Identities \union {NoRow}] /\ s.who \in [Visits -> Persons \union {Nobody}]
      /\ SightedAsAssigned(s, c) /\ TaughtOwn(s, e, v, c) /\ CoversOwn(s, c) /\ Capped(s)
      /\ s.sightings \subseteq Rows /\ Nobody \notin Persons /\ Nobody \notin Visits
    BY PersonsAssumption DEF Own, States, Nobody
<1>3. /\ P \in [Persons -> Identities \union {NoRow}] /\ P[p] = row
      /\ \A r \in Persons \ {p} : P[r] = s.person[r]
    BY <1>1
<1>4. /\ W \in [Visits -> Persons \union {Nobody}] /\ W[v] = p /\ \A w \in Visits \ {v} : W[w] = s.who[w]
    BY <1>1
<1> HIDE DEF P, W
<1>5. /\ Exists(P, p) /\ \A r \in Persons : Exists(s.person, r) => Exists(P, r)
      /\ \A r \in Persons \ {p} : Exists(P, r) <=> Exists(s.person, r)
    BY <1>1, <1>3, RowsAreIdentities DEF Exists
<1>6. /\ S \subseteq Rows
      /\ \A w \in Visits, q \in Persons :
            /\ Shown(S, w, q) <=> Shown(s.sightings, w, q) \/ (w = v /\ q = p /\ b)
            /\ Bare(S, w, q) <=> Bare(s.sightings, w, q) \/ (w = v /\ q = p /\ ~b)
    <2>1. <<v, p, b>> \in Rows
        BY DEF Rows
    <2>2. \A w, q, d : <<w, q, d>> = <<v, p, b>> <=> w = v /\ q = p /\ d = b
        OBVIOUS
    <2>3. QED
        BY <1>1, <2>1, <2>2 DEF Shown, Bare
<1>7. t \in States /\ t.person = P /\ t.who = W /\ t.sightings = S
    <2> HIDE DEF S
    <2>2. QED
        BY <1>3, <1>4, <1>6 DEF States
<1>8. Given(s, v, p, row, b) = t
    BY DEF Given, P, W
<1> HIDE DEF t, S
<1>9. SightedAsAssigned(t, c)
    <2> SUFFICES ASSUME NEW w \in Visits, NEW q \in Persons
                 PROVE  /\ Shown(S, w, q) => W[w] = q /\ c.stored[w] # "new"
                        /\ Bare(S, w, q) => (W[w] = q /\ c.stored[w] = "live") \/ w \in c.early
                        /\ Shown(S, w, q) \/ Bare(S, w, q) => Exists(P, q) /\ c.stored[w] # "purged"
                        /\ W[w] = q => Shown(S, w, q) \/ Bare(S, w, q)
        BY <1>7 DEF SightedAsAssigned
    <2>1. /\ Shown(s.sightings, w, q) => s.who[w] = q /\ c.stored[w] # "new"
          /\ Bare(s.sightings, w, q) => (s.who[w] = q /\ c.stored[w] = "live") \/ w \in c.early
          /\ Shown(s.sightings, w, q) \/ Bare(s.sightings, w, q) =>
                Exists(s.person, q) /\ c.stored[w] # "purged"
          /\ s.who[w] = q => Shown(s.sightings, w, q) \/ Bare(s.sightings, w, q)
        BY <1>1 DEF SightedAsAssigned
    <2>2. CASE w # v
        BY <1>4, <1>5, <1>6, <2>1, <2>2
    <2>3. CASE w = v /\ q = p
        BY <1>4, <1>5, <1>6, <2>1, <2>3
    <2>4. CASE w = v /\ q # p
        BY <1>4, <1>5, <1>6, <2>1, <2>4
    <2>5. QED
        BY <2>2, <2>3, <2>4
<1>10. TaughtOwn(t, Nobody, Nobody, c)
    <2> SUFFICES ASSUME NEW q \in Persons, NEW w \in Visits, Exists(P, q), w \in ToSet(P[q].samples)
                 PROVE  Shown(S, w, q) \/ c.stored[w] = "purged"
        BY <1>7 DEF TaughtOwn
    <2>1. CASE q = p
        <3>1. Shown(s.sightings, w, p) \/ c.stored[w] = "purged" \/ (w = v /\ b)
            BY <1>3, <2>1
        <3>2. QED
            BY <1>6, <2>1, <3>1
    <2>2. CASE q # p
        <3>1. Shown(s.sightings, w, q) \/ c.stored[w] = "purged"
            BY <1>1, <1>3, <1>5, <2>2 DEF TaughtOwn
        <3>2. QED
            BY <1>6, <3>1
    <2>3. QED
        BY <2>1, <2>2
<1>11. CoversOwn(t, c)
    <2> SUFFICES ASSUME NEW q \in Persons, Exists(P, q), P[q].cover # Nobody
                 PROVE  W[P[q].cover] = q \/ P[q].cover \in c.early
        BY <1>7 DEF CoversOwn
    <2>1. CASE q = p
        <3>1. P[q].cover \in Visits
            BY <1>3, <2>1 DEF Identities
        <3>2. QED
            BY <1>3, <1>4, <2>1, <3>1
    <2>2. CASE q # p
        <3>1. Exists(s.person, q) /\ P[q] = s.person[q]
            BY <1>3, <1>5, <2>2
        <3>2. s.person[q] \in Identities
            BY <1>1, <3>1, RowsAreIdentities
        <3>3. P[q].cover \in Visits /\ (s.who[P[q].cover] = q \/ P[q].cover \in c.early)
            BY <1>1, <3>1, <3>2 DEF CoversOwn, Identities
        <3>4. P[q].cover = v /\ s.who[v] = q => v \in c.early
            <4>1. s.who[v] = q => Shown(s.sightings, v, q) \/ Bare(s.sightings, v, q)
                BY <1>1 DEF SightedAsAssigned
            <4>2. QED
                BY <2>2, <4>1
        <3>5. QED
            BY <1>4, <3>3, <3>4
    <2>3. QED
        BY <2>1, <2>2
<1>12. Capped(t)
    BY <1>1, <1>3, <1>5, <1>7 DEF Capped
<1>13. QED
    BY <1>5, <1>7, <1>8, <1>9, <1>10, <1>11, <1>12 DEF Sound, Own

\* A correction takes an event from whom it was given to, with what it taught and
\* the photo it gave, and no one else loses anything.
LEMMA DetachedIsOwn ==
    ASSUME NEW k, NEW base, NEW p \in Persons, NEW v \in Visits, NEW e \in {p, Nobody},
           Own(base, e, v, k), Exists(base.person, p),
           base.who[v] # p, NEW s \in Detached(base, v),
           \A x \in s.sightings : Exists(s.person, x[2])
    PROVE  Own(s, e, v, k) /\ s.who[v] = Nobody /\ Exists(s.person, p)
<1> DEFINE o == base.who[v]
<1>1. /\ base.person \in [Persons -> Identities \union {NoRow}]
      /\ base.who \in [Visits -> Persons \union {Nobody}] /\ base.sightings \subseteq Rows
      /\ SightedAsAssigned(base, k) /\ TaughtOwn(base, e, v, k) /\ CoversOwn(base, k) /\ Capped(base)
      /\ Nobody \notin Persons /\ Nobody \notin Visits
    BY PersonsAssumption DEF Own, States, Nobody
<1>2. CASE o = Nobody
    <2>1. s = base
        BY <1>2 DEF Detached
    <2>2. QED
        BY <1>2, <2>1
<1>3. CASE o # Nobody
    <2> DEFINE old == base.person[o]
               left == {x \in base.sightings : ~(x[1] = v /\ x[2] = o)}
               stale == IF <<v, o, TRUE>> \in base.sightings THEN {v} ELSE {}
               others == SeenOf([base EXCEPT !.sightings = left], o)
               row(c) == [old EXCEPT !.samples = SamplesWithout(@, stale),
                                     !.count = IF @ > 0 THEN @ - 1 ELSE 0, !.cover = c]
               gone(c) == row(c).samples = <<>> /\ row(c).count = 0 /\ ~row(c).named
               W == [base.who EXCEPT ![v] = Nobody]
    <2>1. o \in Persons /\ o # p /\ Exists(base.person, o) /\ old \in Identities
        BY <1>1, <1>3, RowsAreIdentities DEF SightedAsAssigned
    <2>2. PICK c \in NextCover(old.cover, others, v) :
              s = [person |-> [base.person EXCEPT ![o] = IF gone(c) THEN NoRow ELSE row(c)],
                   who |-> W, sightings |-> left]
        BY <1>3, <2>1 DEF Detached
    <2> DEFINE new == IF gone(c) THEN NoRow ELSE row(c)
               P == [base.person EXCEPT ![o] = new]
    <2>3. /\ left \subseteq Rows
          /\ \A w \in Visits, q \in Persons :
                /\ Shown(left, w, q) <=> Shown(base.sightings, w, q) /\ ~(w = v /\ q = o)
                /\ Bare(left, w, q) <=> Bare(base.sightings, w, q) /\ ~(w = v /\ q = o)
        <3>1. \A w, q, b : <<w, q, b>>[1] = w /\ <<w, q, b>>[2] = q
            OBVIOUS
        <3>2. QED
            BY <1>1, <3>1 DEF Shown, Bare
    <2>4. c # Nobody => c \in Visits \ {v} /\ (base.who[c] = o \/ c \in k.early)
        <3>1. CASE old.cover # v
            <4>1. c = old.cover
                BY <3>1 DEF NextCover
            <4>2. c # Nobody => c \in Visits
                BY <2>1, <4>1 DEF Identities
            <4>3. QED
                BY <1>1, <2>1, <3>1, <4>1, <4>2 DEF CoversOwn
        <3>2. CASE old.cover = v
            <4>1. c # Nobody => c \in others
                BY <3>2 DEF NextCover
            <4>2. others = {w \in Visits : \E b \in BOOLEAN : <<w, o, b>> \in left}
                BY DEF SeenOf
            <4> HIDE DEF others, left
            <4>3. ASSUME NEW w \in Visits, NEW b \in BOOLEAN, <<w, o, b>> \in left
                  PROVE  w # v /\ (base.who[w] = o \/ w \in k.early)
                <5>1. Shown(left, w, o) \/ Bare(left, w, o)
                    BY <4>3 DEF Shown, Bare
                <5>2. w # v /\ (Shown(base.sightings, w, o) \/ Bare(base.sightings, w, o))
                    BY <2>1, <2>3, <5>1
                <5>3. QED
                    BY <1>1, <2>1, <5>2 DEF SightedAsAssigned
            <4>4. QED
                BY <4>1, <4>2, <4>3
        <3>3. QED
            BY <3>1, <3>2
    <2>5. /\ row(c) \in Identities /\ row(c).cover = c /\ Len(row(c).samples) <= MaxSamples
          /\ ToSet(row(c).samples) \subseteq ToSet(old.samples) \ stale
        <3> DEFINE kept == SamplesWithout(old.samples, stale)
                   n == IF old.count > 0 THEN old.count - 1 ELSE 0
        <3>1. /\ kept \in Seq(Visits) /\ ToSet(kept) \subseteq ToSet(old.samples) \ stale
              /\ Len(kept) <= Len(old.samples) /\ Len(kept) \in Nat /\ Len(old.samples) \in Nat
            <4>1. old.samples \in Seq(Visits)
                BY <2>1 DEF Identities
            <4>2. kept \in Seq(Visits)
                BY <4>1, WithoutIsLess
            <4>3. QED
                BY <4>1, <4>2, WithoutIsLess
        <3>2. n \in Nat
            <4>1. old.count \in Nat
                BY <2>1 DEF Identities
            <4> HIDE DEF old
            <4>2. QED
                BY <4>1
        <3>3. c \in Visits \union {Nobody}
            BY <2>4
        <3>4. Len(old.samples) <= MaxSamples /\ MaxSamples \in Nat
            BY <1>1, <2>1, PersonsAssumption DEF Capped
        <3>5. row(c) = [old EXCEPT !.samples = kept, !.count = n, !.cover = c]
            BY <2>1 DEF Identities
        <3> HIDE DEF kept, n, row, old, stale
        <3>6. row(c) \in Identities /\ row(c).cover = c /\ row(c).samples = kept
            BY <2>1, <3>1, <3>2, <3>3, <3>5 DEF Identities
        <3>7. QED
            BY <3>1, <3>4, <3>6
    <2> HIDE DEF row, left, others, stale
    <2>6. /\ P \in [Persons -> Identities \union {NoRow}] /\ P[o] = new
          /\ \A r \in Persons \ {o} : P[r] = base.person[r] /\ (Exists(P, r) <=> Exists(base.person, r))
        <3>1. new \in Identities \union {NoRow}
            BY <2>5
        <3> HIDE DEF new
        <3>2. QED
            BY <1>1, <2>1, <3>1 DEF Exists
    <2>7. Exists(P, o) => P[o] = row(c)
        <3>1. ~NoRow.row
            BY DEF NoRow
        <3>2. QED
            BY <2>6, <3>1 DEF Exists
    <2>8. /\ W \in [Visits -> Persons \union {Nobody}] /\ W[v] = Nobody
          /\ \A w \in Visits \ {v} : W[w] = base.who[w]
        BY <1>1
    <2> HIDE DEF P, W
    <2>10. s = [person |-> P, who |-> W, sightings |-> left]
        BY <2>2 DEF P
    <2>11. s \in States /\ s.person = P /\ s.who = W /\ s.sightings = left
        BY <2>3, <2>6, <2>8, <2>10 DEF States
    <2>12. SightedAsAssigned(s, k)
        <3> SUFFICES ASSUME NEW w \in Visits, NEW q \in Persons
                     PROVE  /\ Shown(left, w, q) => W[w] = q /\ k.stored[w] # "new"
                            /\ Bare(left, w, q) => (W[w] = q /\ k.stored[w] = "live") \/ w \in k.early
                            /\ Shown(left, w, q) \/ Bare(left, w, q) => Exists(P, q) /\ k.stored[w] # "purged"
                            /\ W[w] = q => Shown(left, w, q) \/ Bare(left, w, q)
            BY <2>11 DEF SightedAsAssigned
        <3>1. /\ Shown(base.sightings, w, q) => base.who[w] = q /\ k.stored[w] # "new"
              /\ Bare(base.sightings, w, q) => (base.who[w] = q /\ k.stored[w] = "live") \/ w \in k.early
              /\ Shown(base.sightings, w, q) \/ Bare(base.sightings, w, q) =>
                    Exists(base.person, q) /\ k.stored[w] # "purged"
              /\ base.who[w] = q => Shown(base.sightings, w, q) \/ Bare(base.sightings, w, q)
            BY <1>1 DEF SightedAsAssigned
        <3>2. Shown(left, w, q) \/ Bare(left, w, q) => Exists(P, q)
            <4>1. \A b : <<w, q, b>> \in left => Exists(P, <<w, q, b>>[2])
                BY <2>11
            <4>2. \A b : <<w, q, b>>[2] = q
                OBVIOUS
            <4>3. QED
                BY <4>1, <4>2 DEF Shown, Bare
        <3>3. CASE w # v
            BY <2>3, <2>8, <3>1, <3>2, <3>3
        <3>4. CASE w = v
            BY <1>1, <2>3, <2>8, <3>1, <3>2, <3>4
        <3>5. QED
            BY <3>3, <3>4
    <2>13. TaughtOwn(s, e, v, k)
        <3> SUFFICES ASSUME NEW q \in Persons, NEW w \in Visits, Exists(P, q), w \in ToSet(P[q].samples)
                     PROVE  Shown(left, w, q) \/ k.stored[w] = "purged" \/ (q = e /\ w = v)
            BY <2>11 DEF TaughtOwn
        <3>1. CASE q = o
            <4>1. w \in ToSet(old.samples) /\ w \notin stale
                BY <2>5, <2>7, <3>1
            <4>2. Shown(base.sightings, w, q) \/ k.stored[w] = "purged"
                BY <1>1, <2>1, <3>1, <4>1 DEF TaughtOwn
            <4>3. Shown(base.sightings, w, q) => w # v
                BY <3>1, <4>1 DEF Shown, stale
            <4>4. QED
                BY <2>3, <4>2, <4>3
        <3>2. CASE q # o
            <4>1. Shown(base.sightings, w, q) \/ k.stored[w] = "purged" \/ (q = e /\ w = v)
                BY <1>1, <2>6, <3>2 DEF TaughtOwn
            <4>2. QED
                BY <2>3, <3>2, <4>1
        <3>3. QED
            BY <3>1, <3>2
    <2>14. CoversOwn(s, k)
        <3> SUFFICES ASSUME NEW q \in Persons, Exists(P, q), P[q].cover # Nobody
                     PROVE  W[P[q].cover] = q \/ P[q].cover \in k.early
            BY <2>11 DEF CoversOwn
        <3>1. CASE q = o
            BY <2>4, <2>5, <2>7, <2>8, <3>1
        <3>2. CASE q # o
            <4>1. P[q] = base.person[q] /\ Exists(base.person, q)
                BY <2>6, <3>2
            <4>2. base.who[P[q].cover] = q \/ P[q].cover \in k.early
                BY <1>1, <4>1 DEF CoversOwn
            <4>3. P[q].cover \in Visits
                <5>1. P[q] \in Identities
                    BY <1>1, <4>1, RowsAreIdentities
                <5>2. QED
                    BY <3>2, <5>1 DEF Identities
            <4>4. QED
                <5>1. P[q].cover = v => base.who[v] # q
                    BY <3>2
                <5>2. QED
                    BY <2>8, <4>2, <4>3, <5>1
        <3>3. QED
            BY <3>1, <3>2
    <2>15. Capped(s)
        BY <1>1, <2>5, <2>6, <2>7, <2>11 DEF Capped
    <2>16. Exists(P, p)
        BY <2>1, <2>6
    <2>17. QED
        BY <2>8, <2>11, <2>12, <2>13, <2>14, <2>15, <2>16 DEF Own
<1>4. QED
    BY <1>2, <1>3

\* What a human leaves behind is all of the invariant that an edit can disturb.
LEMMA LaterKeeps ==
    ASSUME PersonsInv, NEW s, NEW c \in Context, c = Around', Sound(s, c), Later(s)
    PROVE  PersonsInv'
<1>1. Now' = s
    <2>1. s = [person |-> s.person, who |-> s.who, sightings |-> s.sightings]
        BY DEF Sound, Own, States
    <2>2. QED
        BY <2>1 DEF Later, Now
<1>2. stored' = stored /\ matching' = matching
    BY DEF Later
<1>3. Sound(Now, Around)'
    BY <1>1 DEF Sound, Own
<1>4. QED
    BY <1>2, <1>3 DEF PersonsInv, MatchesAreOfNew

\* An event that was assigned too early stays one.
LEMMA EarlierStays ==
    ASSUME PersonsInv, NEW c \in Context, c.stored = stored, early \subseteq c.early
    PROVE  Sound(Now, c)
<1>1. Sound(Now, Around) /\ Around.early = early /\ Around.stored = stored
    BY DEF PersonsInv, Around
<1>2. SightedAsAssigned(Now, c)
    BY <1>1 DEF Sound, Own, SightedAsAssigned
<1>3. TaughtOwn(Now, Nobody, Nobody, c)
    BY <1>1 DEF Sound, Own, TaughtOwn
<1>4. CoversOwn(Now, c)
    BY <1>1 DEF Sound, Own, CoversOwn
<1>5. QED
    BY <1>1, <1>2, <1>3, <1>4 DEF Sound, Own

\* The samples of an identity are of events whose sightings it has.
LEMMA SamplesAreShown ==
    ASSUME NEW c, NEW s, NEW e, NEW v, Own(s, e, v, c), NEW p \in Persons, Exists(s.person, p)
    PROVE  /\ s.person[p] \in Identities /\ Len(s.person[p].samples) <= MaxSamples
           /\ s.person[p].samples \in Seq(Visits) /\ s.person[p].count \in Nat
           /\ s.person[p].cover \in Visits \union {Nobody}
           /\ \A w \in ToSet(s.person[p].samples) :
                 Shown(s.sightings, w, p) \/ c.stored[w] = "purged" \/ (p = e /\ w = v)
           /\ s.person[p].cover # Nobody =>
                 s.who[s.person[p].cover] = p \/ s.person[p].cover \in c.early
<1>1. s.person[p] \in Identities
    BY RowsAreIdentities DEF Own, States
<1>2. /\ s.person[p].samples \in Seq(Visits) /\ s.person[p].count \in Nat
      /\ s.person[p].cover \in Visits \union {Nobody}
    BY <1>1 DEF Identities
<1>3. \A w \in ToSet(s.person[p].samples) : w \in Visits
    BY <1>2 DEF ToSet
<1>4. QED
    BY <1>1, <1>2, <1>3 DEF Own, TaughtOwn, CoversOwn, Capped

LEMMA UpdatePersonKeeps ==
    ASSUME PersonsInv, NEW p \in Persons, NEW named \in BOOLEAN, UpdatePerson(p, named)
    PROVE  PersonsInv'
<1> DEFINE row == [person[p] EXCEPT !.named = named]
           t == [Now EXCEPT !.person[p] = row]
<1>1. /\ Own(Now, Nobody, Nobody, Around) /\ Now.person = person /\ Exists(Now.person, p)
      /\ Around \in Context /\ Around' = Around
    BY DEF PersonsInv, Sound, UpdatePerson, Now, Around, Later
<1>2. /\ person[p] \in Identities /\ Len(person[p].samples) <= MaxSamples
      /\ \A w \in ToSet(person[p].samples) :
            Shown(Now.sightings, w, p) \/ Around.stored[w] = "purged" \/ (p = Nobody /\ w = Nobody)
      /\ person[p].cover # Nobody => Now.who[person[p].cover] = p \/ person[p].cover \in Around.early
    BY <1>1, SamplesAreShown
<1>3. /\ row \in Identities /\ row.samples = person[p].samples /\ row.cover = person[p].cover
    BY <1>2 DEF Identities
<1>4. [Now EXCEPT !.person[p].named = named] = t
    BY DEF Now
<1> HIDE DEF row
<1>5. Own(t, Nobody, Nobody, Around) /\ Exists(t.person, p)
    BY <1>1, <1>2, <1>3, RowIsOwn
<1> HIDE DEF t
<1>6. PICK s \in Consolidated(t, p) : Later(s)
    BY <1>4 DEF UpdatePerson
<1>7. Sound(t, Around)
    BY <1>5 DEF Sound
<1>8. Sound(s, Around)
    BY <1>5, <1>7, <1>6, ConsolidatedIsSound
<1>9. QED
    BY <1>1, <1>6, <1>8, LaterKeeps

LEMMA MergePersonsKeeps ==
    ASSUME PersonsInv, NEW to \in Persons, NEW from \in Persons, MergePersons(to, from)
    PROVE  PersonsInv'
<1>1. /\ Sound(Now, Around) /\ Now.person = person /\ Around \in Context /\ Around' = Around
    BY DEF PersonsInv, Now, MergePersons, Around, Later
<1>2. Sound(Merged(Now, to, from), Around)
    BY <1>1, MergedIsSound DEF MergePersons
<1>3. QED
    BY <1>1, <1>2, LaterKeeps DEF MergePersons

\* What an identity is taught by an event is that event.
LEMMA TaughtIsOfEvent ==
    ASSUME NEW t \in Identities, Len(t.samples) <= MaxSamples, NEW v \in Visits
    PROVE  /\ Taught(t, v) \in Identities /\ Taught(t, v).cover = t.cover
           /\ Len(Taught(t, v).samples) <= MaxSamples
           /\ ToSet(Taught(t, v).samples) \subseteq ToSet(t.samples) \union {v}
<1>1. t.samples \in Seq(Visits) /\ <<v>> \in Seq(Visits)
    BY DEF Identities
<1> DEFINE more == Append(t.samples, v)
           k == LastOf(more)
<1>2. more \in Seq(Visits) /\ ToSet(more) \subseteq ToSet(t.samples) \union {v}
    <2>1. more = t.samples \o <<v>> /\ ToSet(<<v>>) = {v}
        BY <1>1 DEF ToSet
    <2>2. QED
        BY <1>1, <2>1, BothAreSamples
<1> HIDE DEF more
<1>3. k \in Seq(Visits) /\ ToSet(k) \subseteq ToSet(t.samples) \union {v} /\ Len(k) <= MaxSamples
    BY <1>2, LastOfIsLess
<1>4. Taught(t, v) = IF v \in ToSet(t.samples) THEN t ELSE [t EXCEPT !.samples = k]
    BY DEF Taught, more, Identities
<1> HIDE DEF k
<1>5. QED
    BY <1>3, <1>4 DEF Identities

\* An event whose latest row has a vector is not new.
LEMMA SeenIsStored ==
    ASSUME PersonsInv, NEW v \in Visits, WasSeen(v)
    PROVE  stored[v] # "new" /\ \E q \in Persons : Shown(sightings, v, q)
BY DEF PersonsInv, Sound, Own, SightedAsAssigned, WasSeen, Shown, Around, Now

LEMMA WithPersonIsOwn ==
    ASSUME PersonsInv, NEW v \in Visits, NEW p \in Persons, NEW named \in BOOLEAN,
           NEW c \in Context, Sound(Now, c)
    PROVE  LET base == WithPerson(v, p, named)
           IN  /\ Own(base, IF WasSeen(v) THEN p ELSE Nobody, v, c)
               /\ base.who = who /\ Exists(base.person, p)
<1> DEFINE samples == IF WasSeen(v) THEN <<v>> ELSE <<>>
           row == IF Exists(person, p) THEN person[p] ELSE Row(samples)
           new == [row EXCEPT !.named = @ \/ named]
           e == IF WasSeen(v) THEN p ELSE Nobody
<1>1. /\ Now.person = person /\ Now.who = who /\ Nobody \notin Persons /\ Nobody \notin Visits
      /\ Own(Now, Nobody, Nobody, c)
    BY PersonsAssumption DEF Now, Nobody, Sound
<1>2. Own(Now, e, v, c)
    BY <1>1 DEF Own, TaughtOwn
<1>3. /\ row \in Identities /\ Len(row.samples) <= MaxSamples
      /\ \A w \in ToSet(row.samples) :
            Shown(Now.sightings, w, p) \/ c.stored[w] = "purged" \/ (p = e /\ w = v)
      /\ row.cover # Nobody => Now.who[row.cover] = p \/ row.cover \in c.early
    <2>1. CASE Exists(person, p)
        <3>1. /\ person[p] \in Identities /\ Len(person[p].samples) <= MaxSamples
              /\ \A w \in ToSet(person[p].samples) :
                    Shown(Now.sightings, w, p) \/ c.stored[w] = "purged" \/ (p = e /\ w = v)
              /\ person[p].cover # Nobody => Now.who[person[p].cover] = p \/ person[p].cover \in c.early
            BY <1>1, <1>2, <2>1, SamplesAreShown
        <3>2. row = person[p]
            BY <2>1
        <3> HIDE DEF row, e
        <3>3. QED
            BY <3>1, <3>2
    <2>2. CASE ~Exists(person, p)
        <3>1. samples \in Seq(Visits) /\ ToSet(samples) \subseteq {v} /\ Len(samples) <= MaxSamples
            BY PersonsAssumption DEF ToSet
        <3>4. ToSet(samples) # {} => p = e
            BY DEF ToSet
        <3> HIDE DEF samples
        <3>2. Row(samples) \in Identities /\ Row(samples).samples = samples /\ Row(samples).cover = Nobody
            BY <3>1 DEF Row, Identities
        <3>3. row = Row(samples)
            BY <2>2
        <3> HIDE DEF row, e
        <3>5. QED
            BY <3>1, <3>2, <3>3, <3>4
    <2>3. QED
        BY <2>1, <2>2
<1>4. WithPerson(v, p, named) = [Now EXCEPT !.person[p] = new]
    BY DEF WithPerson
<1> HIDE DEF row, e
<1>5. new \in Identities /\ new.samples = row.samples /\ new.cover = row.cover
    BY <1>3 DEF Identities
<1> HIDE DEF new
<1>9. /\ new \in Identities /\ Len(new.samples) <= MaxSamples
      /\ \A w \in ToSet(new.samples) :
            Shown(Now.sightings, w, p) \/ c.stored[w] = "purged" \/ (p = e /\ w = v)
      /\ new.cover # Nobody => Now.who[new.cover] = p \/ new.cover \in c.early
    BY <1>3, <1>5
<1>6. /\ Own([Now EXCEPT !.person[p] = new], e, v, c) /\ [Now EXCEPT !.person[p] = new].who = Now.who
      /\ Exists([Now EXCEPT !.person[p] = new].person, p)
    BY <1>2, <1>9, RowIsOwn
<1>7. [Now EXCEPT !.person[p] = new].who = who /\ Exists([Now EXCEPT !.person[p] = new].person, p)
    BY <1>1, <1>6
<1>8. QED
    BY <1>4, <1>6, <1>7 DEF e

\* The event is given to the identity with the vector of its sighting.
LEMMA AssignedIsSound ==
    ASSUME PersonsInv, NEW v \in Visits, NEW p \in Persons, stored[v] # "purged",
           NEW c \in Context, c.stored = stored, early \subseteq c.early,
           stored[v] = "live" \/ v \in c.early,
           NEW s, Own(s, IF WasSeen(v) THEN p ELSE Nobody, v, c), s.who[v] \in {Nobody, p},
           Exists(s.person, p)
    PROVE  Sound(Assigned(s, v, p), c) /\ Exists(Assigned(s, v, p).person, p)
<1> DEFINE row == s.person[p]
           n == IF who[v] = p THEN row.count ELSE row.count + 1
           d == IF row.cover = Nobody THEN v ELSE row.cover
           t == [row EXCEPT !.count = IF who[v] = p THEN @ ELSE @ + 1, !.cover = IF @ = Nobody THEN v ELSE @]
           new == IF WasSeen(v) THEN Taught(t, v) ELSE t
           e == IF WasSeen(v) THEN p ELSE Nobody
           b == WasSeen(v)
<1>1. /\ row \in Identities /\ Len(row.samples) <= MaxSamples /\ row.samples \in Seq(Visits)
      /\ row.count \in Nat /\ row.cover \in Visits \union {Nobody}
      /\ \A w \in ToSet(row.samples) : Shown(s.sightings, w, p) \/ c.stored[w] = "purged" \/ (p = e /\ w = v)
      /\ row.cover # Nobody => s.who[row.cover] = p \/ row.cover \in c.early
    BY SamplesAreShown
<1>2. Assigned(s, v, p) = Given(s, v, p, new, b)
    BY DEF Assigned, Given
<1>3. /\ b \in BOOLEAN /\ (b => stored[v] # "new") /\ Nobody \notin Persons /\ e \in {p, Nobody}
      /\ (p = e <=> b) /\ Own(s, e, v, c)
    BY SeenIsStored, PersonsAssumption DEF WasSeen, Nobody
<1> HIDE DEF row, e
<1>4. n \in Nat /\ d \in Visits \union {Nobody}
    BY <1>1
<1>5. t = [row EXCEPT !.count = n, !.cover = d]
    BY <1>1 DEF Identities
<1>6. d = v \/ (row.cover # Nobody /\ d = row.cover)
    OBVIOUS
<1> HIDE DEF t, n, d
<1>7. t \in Identities /\ t.samples = row.samples /\ t.cover = d
    BY <1>1, <1>4, <1>5 DEF Identities
<1>8. /\ new \in Identities /\ Len(new.samples) <= MaxSamples /\ new.cover = d
      /\ ToSet(new.samples) \subseteq ToSet(row.samples) \union (IF b THEN {v} ELSE {})
    <2>1. CASE b
        BY <1>1, <1>7, <2>1, TaughtIsOfEvent
    <2>2. CASE ~b
        BY <1>1, <1>7, <2>2
    <2>3. QED
        BY <2>1, <2>2
<1> HIDE DEF new, b
<1>9. /\ \A w \in ToSet(new.samples) : Shown(s.sightings, w, p) \/ c.stored[w] = "purged" \/ (w = v /\ b)
      /\ new.cover # Nobody => s.who[new.cover] = p \/ new.cover = v \/ new.cover \in c.early
    BY <1>1, <1>3, <1>6, <1>8
<1>10. /\ \A q \in Persons \ {p} : ~Shown(s.sightings, v, q)
       /\ \A q \in Persons \ {p} : Bare(s.sightings, v, q) => v \in c.early
    BY <1>3 DEF Own, SightedAsAssigned
<1>11. Sound(Given(s, v, p, new, b), c) /\ Exists(Given(s, v, p, new, b).person, p)
    BY <1>3, <1>8, <1>9, <1>10, GivenIsOwn
<1>12. QED
    BY <1>2, <1>11

LEMMA AssignPersonKeeps ==
    ASSUME PersonsInv, NEW v \in Visits, NEW p \in Persons, NEW named \in BOOLEAN, AssignPerson(v, p, named)
    PROVE  PersonsInv'
<1> DEFINE base == WithPerson(v, p, named)
           e == IF WasSeen(v) THEN p ELSE Nobody
<1>0. PICK s \in (IF who[v] = p THEN {base} ELSE Detached(base, v)) :
          /\ \A x \in s.sightings : Exists(s.person, x[2])
          /\ \E u \in (IF named THEN Consolidated(Assigned(s, v, p), p) ELSE {Assigned(s, v, p)}) : Later(u)
    BY DEF AssignPerson
<1>1. PICK c : c = Around'
    OBVIOUS
<1>2. /\ stored[v] # "purged" /\ c.stored = stored /\ early \subseteq c.early /\ c \in Context
      /\ stored[v] = "live" \/ v \in c.early
    <2>1. /\ early' = (IF stored[v] = "new" THEN early \union {v} ELSE early) /\ stored[v] # "purged"
          /\ stored' = stored
        BY DEF AssignPerson, Later
    <2>2. early \subseteq Visits /\ stored \in [Visits -> {"new", "live", "purged"}]
        BY DEF PersonsInv, Around, Context
    <2>3. c = [early |-> early', stored |-> stored]
        BY <1>1, <2>1 DEF Around
    <2>4. QED
        BY <2>1, <2>2, <2>3 DEF Context
<1>3. Own(base, e, v, c) /\ base.who = who /\ Exists(base.person, p)
    <2>1. Sound(Now, c)
        BY <1>2, EarlierStays
    <2>2. QED
        BY <1>2, <2>1, WithPersonIsOwn
<1> HIDE DEF base
<1>4. Own(s, e, v, c) /\ s.who[v] \in {Nobody, p} /\ Exists(s.person, p)
    <2>1. CASE who[v] = p
        BY <1>0, <1>3, <2>1
    <2>2. CASE who[v] # p
        <3>1. e \in {p, Nobody} /\ s \in Detached(base, v)
            BY <1>0, <2>2
        <3> HIDE DEF e
        <3>2. QED
            BY <1>0, <1>3, <2>2, <3>1, DetachedIsOwn
    <2>3. QED
        BY <2>1, <2>2
<1>5. Sound(Assigned(s, v, p), c) /\ Exists(Assigned(s, v, p).person, p)
    BY <1>2, <1>4, AssignedIsSound
<1>6. PICK u \in (IF named THEN Consolidated(Assigned(s, v, p), p) ELSE {Assigned(s, v, p)}) : Later(u)
    BY <1>0
<1>7. Sound(u, c)
    BY <1>5, <1>6, ConsolidatedIsSound
<1>8. QED
    BY <1>1, <1>2, <1>6, <1>7, LaterKeeps

LEMMA RateEventPhotoKeeps ==
    ASSUME PersonsInv, NEW v \in Visits, RateEventPhoto(v)
    PROVE  PersonsInv'
<1> DEFINE p == who[v]
           row == [person[p] EXCEPT !.cover = v]
<1>1. /\ Own(Now, Nobody, Nobody, Around) /\ Now.person = person /\ Now.who = who
      /\ Around \in Context /\ Around' = Around
    BY DEF PersonsInv, Sound, Now, RateEventPhoto, Later, Around
<1>2. p \in Persons /\ Exists(Now.person, p)
    BY <1>1 DEF Own, States, RateEventPhoto
<1>3. /\ person[p] \in Identities /\ Len(person[p].samples) <= MaxSamples
      /\ \A w \in ToSet(person[p].samples) :
            Shown(Now.sightings, w, p) \/ Around.stored[w] = "purged" \/ (p = Nobody /\ w = Nobody)
    BY <1>1, <1>2, SamplesAreShown
<1>4. row \in Identities /\ row.samples = person[p].samples /\ row.cover = v
    BY <1>3 DEF Identities
<1>5. [Now EXCEPT !.person[p].cover = v] = [Now EXCEPT !.person[p] = row]
    BY <1>1
<1>6. Later([Now EXCEPT !.person[p] = row])
    BY <1>5 DEF RateEventPhoto
<1> HIDE DEF row
<1>10. /\ Len(row.samples) <= MaxSamples
       /\ \A w \in ToSet(row.samples) :
             Shown(Now.sightings, w, p) \/ Around.stored[w] = "purged" \/ (p = Nobody /\ w = Nobody)
       /\ row.cover # Nobody => Now.who[row.cover] = p \/ row.cover \in Around.early
    BY <1>1, <1>3, <1>4
<1> HIDE DEF p
<1>7. Own([Now EXCEPT !.person[p] = row], Nobody, Nobody, Around)
    BY <1>1, <1>2, <1>4, <1>10, RowIsOwn
<1>8. Sound([Now EXCEPT !.person[p] = row], Around)
    BY <1>7 DEF Sound
<1>9. QED
    BY <1>1, <1>6, <1>8, LaterKeeps

LEMMA MatchKeeps ==
    ASSUME PersonsInv, NEW v \in Visits, Match(v)
    PROVE  PersonsInv'
<1>1. Now' = Now /\ Around' = Around /\ stored' = stored
    BY DEF Match, Now, Around
<1>2. Sound(Now, Around)'
    BY <1>1 DEF PersonsInv, Sound, Own
<1>3. PICK p \in {q \in Persons : Exists(person, q) /\ CloseTo(person[q].samples, v)} \union {Nobody} :
          matching' = [w \in DOMAIN matching \union {v} |->
                          IF w = v THEN [person |-> p, read |-> IF p = Nobody THEN NoRow ELSE person[p]]
                          ELSE matching[w]]
    BY DEF Match
<1>4. p # Nobody => person[p] \in Identities
    BY <1>3, RowsAreIdentities DEF PersonsInv, Sound, Own, States, Now
<1> DEFINE m == [person |-> p, read |-> IF p = Nobody THEN NoRow ELSE person[p]]
<1>5. m.person \in Persons \union {Nobody} /\ (m.person # Nobody => m.read \in Identities)
    BY <1>3, <1>4
<1> HIDE DEF m
<1>6. /\ DOMAIN matching' = DOMAIN matching \union {v} /\ matching'[v] = m
      /\ \A w \in DOMAIN matching : w # v => matching'[w] = matching[w]
    BY <1>3 DEF m
<1>7. MatchesAreOfNew'
    BY <1>1, <1>5, <1>6 DEF PersonsInv, MatchesAreOfNew, Match
<1>8. QED
    BY <1>1, <1>2, <1>7 DEF PersonsInv

\* The recognition is stored. If the event is given to someone, that is as by hand,
\* except that another may have been given it before.
LEMMA RecordSightingKeeps ==
    ASSUME PersonsInv, NEW v \in Visits, RecordSighting(v)
    PROVE  PersonsInv'
<1> DEFINE m == matching[v]
<1>1. /\ Sound(Now, Around) /\ Now.person = person /\ Now.who = who /\ Now.sightings = sightings
      /\ Nobody \notin Persons /\ Nobody \notin Visits /\ v \in DOMAIN matching /\ stored[v] = "new"
      /\ Around \in Context /\ Around.stored = stored /\ Around.early = early
    BY PersonsAssumption DEF PersonsInv, Now, Nobody, MatchesAreOfNew, RecordSighting, Around
<1>2. /\ stored' \in [Visits -> {"new", "live", "purged"}] /\ stored'[v] = "live" /\ early' = early
      /\ \A w \in Visits \ {v} : stored'[w] = stored[w]
    BY <1>1 DEF Context, RecordSighting
<1>3. MatchesAreOfNew'
    <2>1. DOMAIN matching' = DOMAIN matching \ {v} /\ \A w \in DOMAIN matching \ {v} : matching'[w] = matching[w]
        BY DEF RecordSighting, Forget
    <2>2. QED
        BY <1>2, <2>1 DEF PersonsInv, MatchesAreOfNew
<1> DEFINE c == [early |-> early, stored |-> stored']
<1>4. c \in Context /\ Around' = c /\ c.early = early /\ c.stored = stored' /\ Around' \in Context
    BY <1>1, <1>2 DEF Context, Around
<1> HIDE DEF c
<1>5. /\ Own(Now, Nobody, Nobody, c)
      /\ \A q \in Persons : ~Shown(sightings, v, q) /\ (Bare(sightings, v, q) => v \in c.early)
    <2>1. SightedAsAssigned(Now, Around) /\ TaughtOwn(Now, Nobody, Nobody, Around) /\ CoversOwn(Now, Around)
        BY <1>1 DEF Sound, Own
    <2>2. \A w \in Visits : stored'[w] = "purged" <=> stored[w] = "purged"
        BY <1>1, <1>2
    <2>3. SightedAsAssigned(Now, c)
        BY <1>1, <1>2, <1>4, <2>1, <2>2 DEF SightedAsAssigned
    <2>4. TaughtOwn(Now, Nobody, Nobody, c)
        BY <1>1, <1>4, <2>1, <2>2 DEF TaughtOwn
    <2>5. CoversOwn(Now, c)
        BY <1>1, <1>4, <2>1 DEF CoversOwn
    <2>6. \A q \in Persons : ~Shown(sightings, v, q) /\ (Bare(sightings, v, q) => v \in c.early)
        BY <1>1, <1>4, <2>1 DEF SightedAsAssigned
    <2>7. QED
        BY <1>1, <2>3, <2>4, <2>5, <2>6 DEF Sound, Own
<1>6. ASSUME NEW p \in Persons, NEW row \in Identities, Now' = Given(Now, v, p, row, TRUE),
             Len(row.samples) <= MaxSamples,
             \A w \in ToSet(row.samples) : Shown(sightings, w, p) \/ c.stored[w] = "purged" \/ w = v,
             row.cover # Nobody => who[row.cover] = p \/ row.cover = v \/ row.cover \in c.early
      PROVE  PersonsInv'
    <2>0. /\ c.stored[v] = "live" /\ \A q \in Persons \ {p} : ~Shown(Now.sightings, v, q)
          /\ \A q \in Persons \ {p} : Bare(Now.sightings, v, q) => v \in c.early
          /\ \A w \in ToSet(row.samples) :
                Shown(Now.sightings, w, p) \/ c.stored[w] = "purged" \/ (w = v /\ TRUE)
          /\ row.cover # Nobody => Now.who[row.cover] = p \/ row.cover = v \/ row.cover \in c.early
        BY <1>1, <1>2, <1>4, <1>5, <1>6
    <2>1. Sound(Given(Now, v, p, row, TRUE), c)
        <3> DEFINE b == TRUE
                   e == Nobody
        <3>1. /\ b \in BOOLEAN /\ e \in {p, Nobody} /\ (e = p => b) /\ (b => c.stored[v] # "new")
              /\ c.stored[v] # "purged"
            BY <1>1, <2>0
        <3>4. \A w \in ToSet(row.samples) :
                  Shown(Now.sightings, w, p) \/ c.stored[w] = "purged" \/ (w = v /\ b)
            BY <2>0
        <3>5. Own(Now, e, v, c)
            <4>1. TaughtOwn(Now, Nobody, v, c)
                BY <1>1, <1>5 DEF Own, TaughtOwn
            <4>2. QED
                BY <1>5, <4>1 DEF Own
        <3> HIDE DEF b, e
        <3>2. Sound(Given(Now, v, p, row, b), c)
            BY <1>6, <2>0, <3>1, <3>4, <3>5, GivenIsOwn
        <3>3. QED
            BY <3>2 DEF b
    <2>2. Sound(Now', Around')
        BY <1>4, <1>6, <2>1
    <2>3. QED
        BY <1>3, <1>4, <2>2 DEF PersonsInv
<1>7. \/ /\ m.person # Nobody /\ Exists(person, m.person)
         /\ person' = [person EXCEPT ![m.person].count = m.read.count + 1,
                          ![m.person].cover = IF m.read.cover = Nobody THEN v ELSE @]
         /\ who' = [who EXCEPT ![v] = m.person]
         /\ sightings' = sightings \union {<<v, m.person, TRUE>>}
      \/ UNCHANGED <<person, who, sightings>>
      \/ \E p \in FreeIds(person) :
            /\ person' = [person EXCEPT ![p] = [Row(<<v>>) EXCEPT !.count = 1, !.cover = v]]
            /\ who' = [who EXCEPT ![v] = p]
            /\ sightings' = sightings \union {<<v, p, TRUE>>}
    BY DEF RecordSighting
<1>8. person \in [Persons -> Identities \union {NoRow}]
    BY <1>1 DEF Sound, Own, States
<1>9. CASE /\ m.person # Nobody /\ Exists(person, m.person)
           /\ person' = [person EXCEPT ![m.person].count = m.read.count + 1,
                            ![m.person].cover = IF m.read.cover = Nobody THEN v ELSE @]
           /\ who' = [who EXCEPT ![v] = m.person]
           /\ sightings' = sightings \union {<<v, m.person, TRUE>>}
    <2> DEFINE p == m.person
               old == person[p]
               n == m.read.count + 1
               d == IF m.read.cover = Nobody THEN v ELSE old.cover
               row == [old EXCEPT !.count = n, !.cover = d]
    <2>1. p \in Persons /\ m.read \in Identities /\ Exists(Now.person, p)
        BY <1>1, <1>9 DEF PersonsInv, MatchesAreOfNew
    <2>2. /\ old \in Identities /\ Len(old.samples) <= MaxSamples /\ old.cover \in Visits \union {Nobody}
          /\ \A w \in ToSet(old.samples) :
                Shown(Now.sightings, w, p) \/ c.stored[w] = "purged" \/ (p = Nobody /\ w = Nobody)
          /\ old.cover # Nobody => Now.who[old.cover] = p \/ old.cover \in c.early
        BY <1>1, <1>5, <2>1, SamplesAreShown
    <2>3. n \in Nat
        <3>1. m.read.count \in Nat
            BY <2>1 DEF Identities
        <3>2. QED
            BY <3>1
    <2>4. row \in Identities /\ row.samples = old.samples /\ row.cover = d
        <3> HIDE DEF n, old
        <3>1. d \in Visits \union {Nobody}
            BY <2>2
        <3> HIDE DEF d
        <3>2. QED
            BY <2>2, <2>3, <3>1 DEF Identities
    <2>5. person' = [person EXCEPT ![p] = row]
        BY <1>8, <1>9, <2>1
    <2> HIDE DEF row, n
    <2>6. Now' = Given(Now, v, p, row, TRUE)
        BY <1>1, <1>9, <2>5 DEF Now, Given
    <2>7. row.cover # Nobody => who[row.cover] = p \/ row.cover = v \/ row.cover \in c.early
        BY <1>1, <2>2, <2>4
    <2>8. /\ Len(row.samples) <= MaxSamples
          /\ \A w \in ToSet(row.samples) : Shown(sightings, w, p) \/ c.stored[w] = "purged" \/ w = v
        BY <1>1, <2>1, <2>2, <2>4
    <2> HIDE DEF p
    <2>9. QED
        BY <1>6, <2>1, <2>4, <2>6, <2>7, <2>8
<1>10. CASE UNCHANGED <<person, who, sightings>>
    <2>1. Now' = Now
        BY <1>10 DEF Now
    <2>2. Sound(Now', Around')
        BY <1>4, <1>5, <2>1 DEF Sound
    <2>3. QED
        BY <1>3, <1>4, <2>2 DEF PersonsInv
<1>11. ASSUME NEW p \in FreeIds(person),
              person' = [person EXCEPT ![p] = [Row(<<v>>) EXCEPT !.count = 1, !.cover = v]],
              who' = [who EXCEPT ![v] = p], sightings' = sightings \union {<<v, p, TRUE>>}
       PROVE  PersonsInv'
    <2> DEFINE row == [Row(<<v>>) EXCEPT !.count = 1, !.cover = v]
    <2>1. p \in Persons
        BY DEF FreeIds
    <2>2. row \in Identities /\ row.samples = <<v>> /\ row.cover = v
        <3> DEFINE samples == <<v>>
        <3>1. samples \in Seq(Visits)
            OBVIOUS
        <3> HIDE DEF samples
        <3>2. row = [Row(samples) EXCEPT !.count = 1, !.cover = v]
            BY DEF samples
        <3> HIDE DEF row
        <3>3. row = [row |-> TRUE, named |-> FALSE, samples |-> samples, count |-> 1, cover |-> v]
            BY <3>2 DEF Row
        <3>4. row \in Identities /\ row.samples = samples /\ row.cover = v
            BY <3>1, <3>3 DEF Identities
        <3>5. QED
            BY <3>4 DEF samples
    <2> HIDE DEF row
    <2>3. Len(row.samples) <= MaxSamples /\ ToSet(row.samples) = {v}
        BY <2>2, PersonsAssumption DEF ToSet
    <2>4. Now' = Given(Now, v, p, row, TRUE)
        BY <1>1, <1>11 DEF Now, Given, row
    <2>5. QED
        BY <1>6, <2>1, <2>2, <2>3, <2>4
<1>12. QED
    BY <1>7, <1>9, <1>10, <1>11

\* An old event is nobody's, and nobody's photo is of it.
LEMMA PurgeEventKeeps ==
    ASSUME PersonsInv, NEW v \in Visits, PurgeEvent(v)
    PROVE  PersonsInv'
<1> DEFINE P == [p \in Persons |-> IF Exists(person, p) /\ person[p].cover = v
                                   THEN [person[p] EXCEPT !.cover = Nobody] ELSE person[p]]
<1>1. /\ person \in [Persons -> Identities \union {NoRow}] /\ who \in [Visits -> Persons \union {Nobody}]
      /\ sightings \subseteq Rows
      /\ SightedAsAssigned(Now, Around) /\ TaughtOwn(Now, Nobody, Nobody, Around)
      /\ CoversOwn(Now, Around) /\ Capped(Now)
      /\ Now.person = person /\ Now.who = who /\ Now.sightings = sightings
      /\ Nobody \notin Persons /\ Nobody \notin Visits /\ stored[v] = "live"
      /\ Around \in Context /\ Around.stored = stored /\ Around.early = early
    BY PersonsAssumption DEF PersonsInv, Sound, Own, States, Now, PurgeEvent, Nobody, Around
<1>2. /\ stored' \in [Visits -> {"new", "live", "purged"}] /\ stored'[v] = "purged"
      /\ \A w \in Visits \ {v} : stored'[w] = stored[w]
    BY <1>1 DEF Context, PurgeEvent
<1> DEFINE c == [early |-> early, stored |-> stored']
<1>0. c \in Context /\ Around' = c /\ c.early = early /\ c.stored = stored' /\ Around' \in Context
    BY <1>1, <1>2 DEF Context, Around, PurgeEvent
<1> HIDE DEF c
<1>3. MatchesAreOfNew'
    BY <1>1, <1>2 DEF PersonsInv, MatchesAreOfNew, PurgeEvent
<1>4. /\ who' \in [Visits -> Persons \union {Nobody}] /\ who'[v] = Nobody
      /\ \A w \in Visits \ {v} : who'[w] = who[w]
    BY <1>1 DEF PurgeEvent
<1>5. ASSUME NEW q \in Persons
      PROVE  /\ P[q] \in Identities \union {NoRow} /\ (Exists(P, q) <=> Exists(person, q))
             /\ Exists(P, q) => /\ P[q].samples = person[q].samples /\ P[q].cover # v
                                /\ P[q].cover \in {person[q].cover, Nobody}
    <2>1. CASE Exists(person, q) /\ person[q].cover = v
        <3>1. person[q] \in Identities
            BY <1>1, <2>1, RowsAreIdentities
        <3> DEFINE row == [person[q] EXCEPT !.cover = Nobody]
        <3>2. row \in Identities /\ row.samples = person[q].samples /\ row.cover = Nobody /\ row.row
            BY <3>1 DEF Identities
        <3>3. P[q] = row
            BY <2>1
        <3> HIDE DEF row, P
        <3>4. QED
            BY <1>1, <2>1, <3>2, <3>3 DEF Exists
    <2>2. CASE ~(Exists(person, q) /\ person[q].cover = v)
        <3>1. P[q] = person[q]
            BY <2>2
        <3> HIDE DEF P
        <3>2. QED
            BY <1>1, <2>2, <3>1 DEF Exists
    <2>3. QED
        BY <2>1, <2>2
<1>6. person' = P /\ P \in [Persons -> Identities \union {NoRow}]
    <2>1. P = [q \in Persons |-> P[q]]
        OBVIOUS
    <2>2. person' = P
        BY DEF PurgeEvent
    <2> HIDE DEF P
    <2>3. QED
        BY <1>5, <2>1, <2>2
<1> HIDE DEF P
<1>7. /\ sightings' \subseteq Rows
      /\ \A w \in Visits, q \in Persons :
            /\ Shown(sightings', w, q) <=> Shown(sightings, w, q) /\ w # v
            /\ Bare(sightings', w, q) <=> Bare(sightings, w, q) /\ w # v
    <2>1. sightings' = {x \in sightings : x[1] # v}
        BY DEF PurgeEvent
    <2>2. \A w, q, b : <<w, q, b>>[1] = w
        OBVIOUS
    <2>3. QED
        BY <1>1, <2>1, <2>2 DEF Shown, Bare
<1>8. Now' = [person |-> P, who |-> who', sightings |-> sightings']
    BY <1>6 DEF Now
<1> DEFINE t == [person |-> P, who |-> who', sightings |-> sightings']
<1>9. t \in States /\ t.person = P /\ t.who = who' /\ t.sightings = sightings'
    BY <1>4, <1>6, <1>7 DEF States
<1> HIDE DEF t
<1>10. SightedAsAssigned(t, c)
    <2> SUFFICES ASSUME NEW w \in Visits, NEW q \in Persons
                 PROVE  /\ Shown(sightings', w, q) => who'[w] = q /\ stored'[w] # "new"
                        /\ Bare(sightings', w, q) => (who'[w] = q /\ stored'[w] = "live") \/ w \in early
                        /\ Shown(sightings', w, q) \/ Bare(sightings', w, q) => Exists(P, q) /\ stored'[w] # "purged"
                        /\ who'[w] = q => Shown(sightings', w, q) \/ Bare(sightings', w, q)
        BY <1>0, <1>9 DEF SightedAsAssigned
    <2>1. /\ Shown(sightings, w, q) => who[w] = q /\ stored[w] # "new"
          /\ Bare(sightings, w, q) => (who[w] = q /\ stored[w] = "live") \/ w \in early
          /\ Shown(sightings, w, q) \/ Bare(sightings, w, q) => Exists(person, q) /\ stored[w] # "purged"
          /\ who[w] = q => Shown(sightings, w, q) \/ Bare(sightings, w, q)
        BY <1>1 DEF SightedAsAssigned
    <2>2. CASE w = v
        BY <1>1, <1>4, <1>7, <2>2
    <2>3. CASE w # v
        BY <1>2, <1>4, <1>5, <1>7, <2>1, <2>3
    <2>4. QED
        BY <2>2, <2>3
<1>11. TaughtOwn(t, Nobody, Nobody, c)
    <2> SUFFICES ASSUME NEW q \in Persons, NEW w \in Visits, Exists(P, q), w \in ToSet(P[q].samples)
                 PROVE  Shown(sightings', w, q) \/ stored'[w] = "purged"
        BY <1>0, <1>9 DEF TaughtOwn
    <2>1. Shown(sightings, w, q) \/ stored[w] = "purged"
        BY <1>1, <1>5 DEF TaughtOwn
    <2>2. QED
        BY <1>2, <1>7, <2>1
<1>12. CoversOwn(t, c)
    <2> SUFFICES ASSUME NEW q \in Persons, Exists(P, q), P[q].cover # Nobody
                 PROVE  who'[P[q].cover] = q \/ P[q].cover \in early
        BY <1>0, <1>9 DEF CoversOwn
    <2>1. P[q].cover = person[q].cover /\ P[q].cover # v /\ Exists(person, q)
        BY <1>5
    <2>2. person[q] \in Identities
        BY <1>1, <2>1, RowsAreIdentities
    <2>3. P[q].cover \in Visits /\ (who[P[q].cover] = q \/ P[q].cover \in early)
        BY <1>1, <2>1, <2>2 DEF CoversOwn, Identities
    <2>4. QED
        BY <1>4, <2>1, <2>3
<1>13. Capped(t)
    BY <1>1, <1>5, <1>9 DEF Capped
<1>14. Sound(Now', Around')
    BY <1>0, <1>8, <1>9, <1>10, <1>11, <1>12, <1>13 DEF Sound, Own, t
<1>15. QED
    BY <1>0, <1>3, <1>14 DEF PersonsInv

LEMMA PersonsInitSound == PersonsInit => PersonsInv
<1> SUFFICES ASSUME PersonsInit PROVE PersonsInv
    OBVIOUS
<1>1. /\ person = [p \in Persons |-> NoRow] /\ who = [v \in Visits |-> Nobody] /\ sightings = {}
      /\ DOMAIN matching = {} /\ stored = [v \in Visits |-> "new"] /\ early = {}
    BY DEF PersonsInit
<1>2. Now \in States /\ Now.person = person /\ Now.who = who /\ Now.sightings = sightings
    BY <1>1 DEF Now, States
<1>3. \A p \in Persons : ~Exists(person, p)
    BY <1>1 DEF Exists, NoRow
<1>4. SightedAsAssigned(Now, Around) /\ Around \in Context
    BY <1>1, <1>2, PersonsAssumption DEF SightedAsAssigned, Shown, Bare, Around, Context, Nobody
<1>5. TaughtOwn(Now, Nobody, Nobody, Around) /\ CoversOwn(Now, Around) /\ Capped(Now)
    BY <1>2, <1>3 DEF TaughtOwn, CoversOwn, Capped
<1>6. QED
    BY <1>1, <1>2, <1>4, <1>5 DEF PersonsInv, Sound, Own, MatchesAreOfNew

LEMMA PersonsNextSound == PersonsInv /\ [PersonsNext]_personVars => PersonsInv'
<1> SUFFICES ASSUME PersonsInv, [PersonsNext]_personVars PROVE PersonsInv'
    OBVIOUS
<1>1. CASE UNCHANGED personVars
    <2>1. Now' = Now /\ Around' = Around /\ stored' = stored /\ matching' = matching
        BY <1>1 DEF personVars, Now, Around
    <2>2. QED
        BY <2>1 DEF PersonsInv, MatchesAreOfNew
<1>2. CASE PersonsNext
    <2>1. ASSUME NEW v \in Visits, Match(v) PROVE PersonsInv'
        BY <2>1, MatchKeeps
    <2>2. ASSUME NEW v \in Visits, RecordSighting(v) PROVE PersonsInv'
        BY <2>2, RecordSightingKeeps
    <2>3. ASSUME NEW v \in Visits, RateEventPhoto(v) PROVE PersonsInv'
        BY <2>3, RateEventPhotoKeeps
    <2>4. ASSUME NEW v \in Visits, PurgeEvent(v) PROVE PersonsInv'
        BY <2>4, PurgeEventKeeps
    <2>5. ASSUME NEW v \in Visits, NEW p \in Persons, NEW named \in BOOLEAN, AssignPerson(v, p, named)
          PROVE  PersonsInv'
        BY <2>5, AssignPersonKeeps
    <2>6. ASSUME NEW p \in Persons, NEW named \in BOOLEAN, UpdatePerson(p, named) PROVE PersonsInv'
        BY <2>6, UpdatePersonKeeps
    <2>7. ASSUME NEW to \in Persons, NEW from \in Persons, MergePersons(to, from) PROVE PersonsInv'
        BY <2>7, MergePersonsKeeps
    <2>8. QED
        BY <1>2, <2>1, <2>2, <2>3, <2>4, <2>5, <2>6, <2>7 DEF PersonsNext
<1>3. QED
    BY <1>1, <1>2

\* Through any sequence of recognitions that overlap, corrections (also of an event that
\* is still being recognised), merges, namings and purges, of any number of identities
\* and events, an identity learns from its own events only: what it recognises by is of
\* events that are assigned to it or that retention deleted, and the photo that stands
\* for it of one of its events, or of one that was assigned to it by hand before the
\* recognition assigned it (_detach_from_person, merge_persons).
THEOREM IdentitiesAreOwnThroughout == PersonsSpec => []IdentitiesAreOwn
<1>1. PersonsInv => IdentitiesAreOwn
    <2> SUFFICES ASSUME PersonsInv PROVE CorrectionUnteaches /\ CoverIsOwn
        BY DEF IdentitiesAreOwn
    <2>1. /\ TaughtOwn(Now, Nobody, Nobody, Around) /\ CoversOwn(Now, Around) /\ Now.person = person
          /\ Now.who = who /\ Nobody \notin Persons /\ Now.sightings = sightings
          /\ Around.stored = stored /\ Around.early = early /\ SightedAsAssigned(Now, Around)
        BY PersonsAssumption DEF PersonsInv, Sound, Own, Now, Nobody, Around
    <2>2. QED
        BY <2>1 DEF TaughtOwn, CoversOwn, SightedAsAssigned, CorrectionUnteaches, CoverIsOwn
<1>2. QED
    BY <1>1, PersonsInitSound, PersonsNextSound, PTL DEF PersonsSpec

==============================================================================
