------------------------------ MODULE SceneWriter ------------------------------
(***************************************************************************)
(* What the ingestion lease promises about one camera's stored scene state *)
(* (app/services/ingestion_lease.py, docstring): one replica at a time is  *)
(* its writer, every change of writer starts a new term, and a writer only *)
(* replaces the version its own copy was read from, so no replica ever     *)
(* overwrites another's newer state with a stale copy.                     *)
(* IngestionLease implements this specification.                           *)
(***************************************************************************)
EXTENDS Naturals

CONSTANTS Replicas,  \* the API replicas sharing the database
          NoReplica  \* the writer before the first acquisition

VARIABLES writer,    \* the replica that may write
          term,      \* number of acquisitions so far
          version,   \* version of the stored scene state
          copies     \* copies[r]: version r's cached scene reflects, 0 if none

writerVars == <<writer, term, version, copies>>

Init ==
    /\ writer = NoReplica
    /\ term = 0
    /\ version = 1
    /\ copies = [r \in Replicas |-> 0]

\* r becomes the writer under a new term; it may drop its copy, never keep
\* one that is out of date as a current one.
Acquire(r) ==
    /\ writer' = r
    /\ term' = term + 1
    /\ copies' \in {copies, [copies EXCEPT ![r] = 0]}
    /\ UNCHANGED version

\* Any replica may read the stored scene or drop its copy of it.
Read(r) ==
    /\ copies[r] = 0
    /\ copies' = [copies EXCEPT ![r] = version]
    /\ UNCHANGED <<writer, term, version>>

Drop(r) ==
    /\ copies' = [copies EXCEPT ![r] = 0]
    /\ UNCHANGED <<writer, term, version>>

\* Only the writer writes, and only over the version it has read.
Write(r) ==
    /\ writer = r
    /\ copies[r] = version
    /\ version' = version + 1
    /\ copies' = [copies EXCEPT ![r] = version + 1]
    /\ UNCHANGED <<writer, term>>

Next == \E r \in Replicas : Acquire(r) \/ Read(r) \/ Drop(r) \/ Write(r)

Spec == Init /\ [][Next]_writerVars
================================================================================
