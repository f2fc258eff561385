------------------------------ MODULE Accounts ------------------------------
(***************************************************************************)
(* Password sign-in (api/auth_routes.py) as two API replicas that share    *)
(* the database run it: the one-time registration of the owner, the count  *)
(* of wrong passwords and the lockout, the sessions.                       *)
(*                                                                         *)
(* A login reads the account, verifies the password against what it read,  *)
(* and writes in a later statement, so that a login on the other replica   *)
(* comes between.  The lock per e-mail address leaves at most one login    *)
(* of the account in flight on each replica.  The audit rows, append-only  *)
(* and read by none of this, are left out.                                 *)
(***************************************************************************)
EXTENDS Integers, FiniteSets

CONSTANTS AcReplicas,         \* the API's replicas
          AcPeople,           \* those who ask to be registered
          AcTokens,           \* session tokens
          MaxFailedAttempts,  \* settings.auth_max_failed_attempts
          LockoutTime,        \* settings.auth_lockout_minutes
          SessionTtl,         \* settings.session_ttl_minutes
          AcHorizon           \* bound: the last instant looked at

ASSUME AccountsAssumption ==
    /\ IsFiniteSet(AcPeople)
    /\ MaxFailedAttempts \in Nat \ {0}
    /\ LockoutTime \in Nat /\ SessionTtl \in Nat \ {0} /\ AcHorizon \in Nat \ {0}

VARIABLES minute,     \* the time
          users,      \* the accounts committed
          enrol,      \* each registration: "none", "holding" the lock, "clear" to go
          counter,    \* per account: failed_attempts and locked_until (0: NULL)
          logins,     \* the login in flight on each replica
          sessions,   \* when each stored session expires (0: no such row)
          wrong,      \* history: wrong passwords since the last login admitted
          barred      \* history: until when these keep everyone out

acVars == <<minute, users, enrol, counter, logins, sessions, wrong, barred>>

NoLogin == [stage |-> "none", at |-> 0]

AcInit == /\ minute = 1
          /\ users = {}
          /\ enrol = [p \in AcPeople |-> "none"]
          /\ counter = [failed |-> 0, until |-> 0]
          /\ logins = [r \in AcReplicas |-> NoLogin]
          /\ sessions = [t \in AcTokens |-> 0]
          /\ wrong = 0 /\ barred = 0

-----------------------------------------------------------------------------
(* Registration in production: an advisory lock of the transaction, the    *)
(* look for a first user, the insert.                                      *)

RegistrationFree == \A p \in AcPeople : enrol[p] = "none"

LockInitialRegistration(p) ==
    /\ RegistrationFree
    /\ enrol' = [enrol EXCEPT ![p] = "holding"]
    /\ UNCHANGED <<minute, users, counter, logins, sessions, wrong, barred>>

FirstUser(p) ==
    /\ enrol[p] = "holding"
    /\ enrol' = [enrol EXCEPT ![p] = IF users = {} THEN "clear" ELSE "none"]
    /\ UNCHANGED <<minute, users, counter, logins, sessions, wrong, barred>>

Register(p) ==
    /\ enrol[p] = "clear"
    /\ users' = users \cup {p}
    /\ enrol' = [enrol EXCEPT ![p] = "none"]
    /\ UNCHANGED <<minute, counter, logins, sessions, wrong, barred>>

-----------------------------------------------------------------------------
(* login: the account as read decides what is written afterwards.          *)

IsLocked == counter.until > minute

\* A locked account and an unknown address are refused at once, and so is a
\* right password for a disabled account: nothing is written.
Login(r, right) ==
    /\ logins[r] = NoLogin
    /\ users # {}
    /\ ~IsLocked
    /\ logins' = [logins EXCEPT
                    ![r] = [stage |-> IF right THEN "right" ELSE "wrong", at |-> minute]]
    /\ UNCHANGED <<minute, users, enrol, counter, sessions, wrong, barred>>

\* One UPDATE, from the row as it is now.
FailedMore(c, at) ==
    [failed |-> c.failed + 1,
     until  |-> IF c.failed + 1 >= MaxFailedAttempts THEN at + LockoutTime ELSE c.until]

RegisterFailedAttempt(r) ==
    /\ logins[r].stage = "wrong"
    /\ counter' = FailedMore(counter, logins[r].at)
    /\ wrong' = wrong + 1
    /\ barred' = IF wrong' >= MaxFailedAttempts THEN logins[r].at + LockoutTime ELSE barred
    /\ logins' = [logins EXCEPT ![r] = NoLogin]
    /\ UNCHANGED <<minute, users, enrol, sessions>>

UnlockedWhenRead(c, at) == TRUE  \* mutant: the lock as it was read with the account
\* The WHERE of the other UPDATE: the lock as it is now, the time as it was
\* when the request came.
StillUnlocked(c, at) == c.until <= at

FinalizeSuccessfulLogin(r) ==
    /\ logins[r].stage = "right"
    /\ IF StillUnlocked(counter, logins[r].at)
       THEN /\ counter' = [failed |-> 0, until |-> 0]
            /\ logins' = [logins EXCEPT ![r].stage = "admitted"]
            /\ wrong' = 0 /\ barred' = 0
       ELSE /\ logins' = [logins EXCEPT ![r] = NoLogin]
            /\ UNCHANGED <<counter, wrong, barred>>
    /\ UNCHANGED <<minute, users, enrol, sessions>>

\* The session is a commit of its own, after the one that admitted the login.
AddSession(r, t) ==
    /\ logins[r].stage = "admitted"
    /\ sessions[t] = 0
    /\ sessions' = [sessions EXCEPT ![t] = logins[r].at + SessionTtl]
    /\ logins' = [logins EXCEPT ![r] = NoLogin]
    /\ UNCHANGED <<minute, users, enrol, counter, wrong, barred>>

-----------------------------------------------------------------------------
(* The sessions: dependencies.py deletes the expired one it is shown.      *)

Usable(t) == sessions[t] # 0 /\ sessions[t] >= minute

DropExpired(t) ==
    /\ sessions[t] # 0 /\ ~Usable(t)
    /\ sessions' = [sessions EXCEPT ![t] = 0]
    /\ UNCHANGED <<minute, users, enrol, counter, logins, wrong, barred>>

Logout(t) ==
    /\ Usable(t)
    /\ sessions' = [sessions EXCEPT ![t] = 0]
    /\ UNCHANGED <<minute, users, enrol, counter, logins, wrong, barred>>

RevokeAllSessions(t) ==
    /\ Usable(t)
    /\ sessions' = [u \in AcTokens |-> 0]
    /\ UNCHANGED <<minute, users, enrol, counter, logins, wrong, barred>>

\* A replica that stops loses its login, a connection that drops its lock.
LoginLost(r) ==
    /\ logins[r] # NoLogin
    /\ logins' = [logins EXCEPT ![r] = NoLogin]
    /\ UNCHANGED <<minute, users, enrol, counter, sessions, wrong, barred>>

RegistrationLost(p) ==
    /\ enrol[p] # "none"
    /\ enrol' = [enrol EXCEPT ![p] = "none"]
    /\ UNCHANGED <<minute, users, counter, logins, sessions, wrong, barred>>

AcTick == /\ minute < AcHorizon
          /\ minute' = minute + 1
          /\ UNCHANGED <<users, enrol, counter, logins, sessions, wrong, barred>>

AcNext == \/ \E p \in AcPeople : \/ LockInitialRegistration(p) \/ FirstUser(p)
                                 \/ Register(p) \/ RegistrationLost(p)
          \/ \E r \in AcReplicas : \/ \E right \in BOOLEAN : Login(r, right)
                                   \/ RegisterFailedAttempt(r)
                                   \/ FinalizeSuccessfulLogin(r)
                                   \/ \E t \in AcTokens : AddSession(r, t)
                                   \/ LoginLost(r)
          \/ \E t \in AcTokens : DropExpired(t) \/ Logout(t) \/ RevokeAllSessions(t)
          \/ AcTick

AcSpec == AcInit /\ [][AcNext]_acVars

-----------------------------------------------------------------------------
\* Types of the accounts' state.
AccountsTypeOK ==
    /\ minute \in 1 .. AcHorizon
    /\ users \subseteq AcPeople
    /\ enrol \in [AcPeople -> {"none", "holding", "clear"}]
    /\ counter \in [failed : Nat, until : Nat]
    /\ logins \in [AcReplicas -> [stage : {"none", "right", "wrong", "admitted"}, at : Nat]]
    /\ sessions \in [AcTokens -> Nat]
    /\ wrong \in Nat /\ barred \in Nat

\* Whatever the two replicas interleave, one account at most is registered by
\* its password: the check for a first user and the insert are kept together
\* by the advisory lock.
OneOwner == Cardinality(users) <= 1

\* No login completes once the wrong password that reaches the limit has been
\* committed, not even one that had read the account before, until the lock
\* has passed: what _finalize_successful_login promises across replicas.
LockoutHolds ==
    [][\A r \in AcReplicas :
          /\ logins[r].stage = "right"
          /\ logins'[r].stage = "admitted"
          => barred <= logins[r].at]_acVars

\* The ways into an account: one owner registers, and a lock holds.
AccountsAreGuarded == []OneOwner /\ LockoutHolds
=============================================================================
