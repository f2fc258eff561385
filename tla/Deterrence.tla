------------------------------ MODULE Deterrence ------------------------------
(***************************************************************************)
(* One siren, light or voice action (app/services/deterrence.py): asked    *)
(* for, then confirmed, cancelled or left to expire by people working on   *)
(* several replicas.  The advisory lock is held from before the row is     *)
(* read until its commit; a request that dies releases it and its changes  *)
(* are lost, but not the sound it has made.                                *)
(***************************************************************************)
EXTENDS Integers

CONSTANTS
    DtRequests,   \* the HTTP requests that may run at a time
    DtTTL,        \* deterrence_confirmation_ttl_seconds, in ticks
    DtCrashes     \* bound: requests that die

ASSUME DeterrenceAssumption ==
    DtTTL \in Nat /\ DtCrashes \in Nat /\ "free" \notin DtRequests

VARIABLES
    dtStatus,     \* the row's status, "none" before it is created
    dtAge,        \* ticks since it was asked for
    dtLock,       \* the request that holds the advisory lock, or "free"
    dtReq,        \* what each request does, where it is and what it read
    dtSounded,    \* history: how often the provider ran
    dtDied,       \* history: how often a request died after its provider ran
    dtTold,       \* history: what people were told the action has become
    dtCrashes

deterrenceVars == <<dtStatus, dtAge, dtLock, dtReq, dtSounded, dtDied, dtTold, dtCrashes>>

DtIdle  == [pc |-> "idle", does |-> "none", result |-> "none"]
DtFinal == {"executed", "failed", "cancelled", "expired"}

RequestAction ==
    /\ dtStatus = "none" /\ dtStatus' = "pending" /\ dtAge' = 0
    /\ UNCHANGED <<dtLock, dtReq, dtSounded, dtDied, dtTold, dtCrashes>>

\* confirm_action or cancel_action is called, by a person each time.
DtCall(q, does) ==
    /\ dtStatus # "none" /\ dtReq[q] = DtIdle
    /\ dtReq' = [dtReq EXCEPT ![q].pc = "lock", ![q].does = does]
    /\ UNCHANGED <<dtStatus, dtAge, dtLock, dtSounded, dtDied, dtTold, dtCrashes>>

\* _acquire_action_lock
LockFreeToAny(q) == dtReq[q].pc = "lock"  \* mutant: nobody waits
LockFree(q) == dtLock = "free"
DtAcquire(q) ==
    /\ dtReq[q].pc = "lock" /\ LockFree(q)
    /\ dtLock' = q
    /\ dtReq' = [dtReq EXCEPT ![q].pc = "read"]
    /\ UNCHANGED <<dtStatus, dtAge, dtSounded, dtDied, dtTold, dtCrashes>>

DtUnlock(q) == dtLock' = IF dtLock = q THEN "free" ELSE dtLock
DtGoes(q, pc, result) == dtReq' = [dtReq EXCEPT ![q].pc = pc, ![q].result = result]

\* The row is read and its status and age are looked at; a refusal ends the call.
DtRead(q) ==
    /\ dtReq[q].pc = "read"
    /\ IF dtStatus # "pending"
       THEN /\ DtUnlock(q) /\ dtReq' = [dtReq EXCEPT ![q] = DtIdle]
            /\ dtTold' = dtTold \union {dtStatus}
       ELSE /\ UNCHANGED <<dtLock, dtTold>>
            /\ CASE dtReq[q].does = "cancel" -> DtGoes(q, "commit", "cancelled")
                 [] dtReq[q].does = "confirm" /\ dtAge > DtTTL -> DtGoes(q, "commit", "expired")
                 [] OTHER                   -> DtGoes(q, "execute", "none")
    /\ UNCHANGED <<dtStatus, dtAge, dtSounded, dtDied, dtCrashes>>

\* The provider runs; it may have sounded even when it raises.
DtExecute(q) ==
    /\ dtReq[q].pc = "execute"
    /\ \/ dtSounded' = dtSounded + 1 /\ \E r \in {"executed", "failed"} : DtGoes(q, "commit", r)
       \/ dtSounded' = dtSounded /\ DtGoes(q, "commit", "failed")
    /\ UNCHANGED <<dtStatus, dtAge, dtLock, dtDied, dtTold, dtCrashes>>

\* The commit releases the lock; the answer and the audit entry follow it.
DtCommit(q) ==
    /\ dtReq[q].pc = "commit"
    /\ dtStatus' = dtReq[q].result /\ DtUnlock(q)
    /\ dtReq' = [dtReq EXCEPT ![q].pc = "answer"]
    /\ UNCHANGED <<dtAge, dtSounded, dtDied, dtTold, dtCrashes>>

DtAnswer(q) ==
    /\ dtReq[q].pc = "answer"
    /\ dtTold' = dtTold \union {dtReq[q].result}
    /\ dtReq' = [dtReq EXCEPT ![q] = DtIdle]
    /\ UNCHANGED <<dtStatus, dtAge, dtLock, dtSounded, dtDied, dtCrashes>>

DtCrash(q) ==
    /\ dtReq[q].pc # "idle" /\ dtCrashes < DtCrashes /\ dtCrashes' = dtCrashes + 1
    /\ dtDied' = IF dtReq[q].pc = "commit" THEN dtDied + 1 ELSE dtDied
    /\ DtUnlock(q) /\ dtReq' = [dtReq EXCEPT ![q] = DtIdle]
    /\ UNCHANGED <<dtStatus, dtAge, dtSounded, dtTold>>

DtTick ==
    /\ dtStatus # "none" /\ dtAge <= DtTTL /\ dtAge' = dtAge + 1
    /\ UNCHANGED <<dtStatus, dtLock, dtReq, dtSounded, dtDied, dtTold, dtCrashes>>

DeterrenceInit ==
    /\ dtStatus = "none" /\ dtAge = 0 /\ dtLock = "free"
    /\ dtReq = [q \in DtRequests |-> DtIdle]
    /\ dtSounded = 0 /\ dtDied = 0 /\ dtTold = {} /\ dtCrashes = 0

DeterrenceNext ==
    \/ RequestAction \/ DtTick
    \/ \E q \in DtRequests :
          \/ \E does \in {"confirm", "cancel"} : DtCall(q, does)
          \/ DtAcquire(q) \/ DtRead(q) \/ DtExecute(q) \/ DtCommit(q) \/ DtAnswer(q) \/ DtCrash(q)

DeterrenceSpec == DeterrenceInit /\ [][DeterrenceNext]_deterrenceVars

\* --- properties ------------------------------------------------------------

\* Every variable has its type, and the lock's holder is between its
\* acquisition and its commit.
DeterrenceTypeOK ==
    /\ dtStatus \in {"none", "pending"} \union DtFinal
    /\ dtAge \in 0..(DtTTL + 1)
    /\ dtLock \in DtRequests \union {"free"}
    /\ dtReq \in [DtRequests -> [pc : {"idle", "lock", "read", "execute", "commit", "answer"},
                                 does : {"none", "confirm", "cancel"},
                                 result : DtFinal \union {"none"}]]
    /\ dtSounded \in Nat /\ dtDied \in 0..dtCrashes /\ dtCrashes \in 0..DtCrashes
    /\ dtTold \subseteq DtFinal
    /\ dtLock # "free" => dtReq[dtLock].pc \in {"read", "execute", "commit"}

\* Two confirmations of the same action never sound it twice
\* (_acquire_action_lock); only one that died before its commit may have.
NoDoubleSiren == dtSounded <= 1 + dtDied

\* Whoever was told what became of the action was told the truth for good: it
\* never sounds after that, and never becomes anything else.
ToldIsFinal ==
    /\ \A said \in dtTold : dtStatus = said
    /\ dtTold # {} => \A q \in DtRequests : dtReq[q].pc # "execute"

\* The siren does what the last person was told it does.
SirenObeys == NoDoubleSiren /\ ToldIsFinal
================================================================================
