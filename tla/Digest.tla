------------------------------- MODULE Digest -------------------------------
(***************************************************************************)
(* The daily digest (services/digest.py, digest_scheduler.py): replicas    *)
(* and requests make the digests of the same days at the same time.        *)
(* generate looks for a stored row, counts the day's events, has the       *)
(* summary rewritten (a call to a model, so this takes long), and stores.  *)
(* A digest is abstracted into the number of events it counts.             *)
(***************************************************************************)
EXTENDS Integers

CONSTANTS Writers,    \* whoever generates: the replicas' schedulers, requests
          DgDays,     \* bound: days looked at, 1 .. DgDays
          DgEvents,   \* bound: events of a day
          DgRuns      \* bound: digests generated

ASSUME DigestAssumption == DgDays \in Nat \ {0} /\ DgEvents \in Nat /\ DgRuns \in Nat

VARIABLES today,      \* the day it is
          happened,   \* the events of each day
          digest,     \* daily_digests: what each day's row counts, NoDigest if there is none
          drafts,     \* the generation each writer is at
          answers,    \* history: what each writer returned last
          refreshed,  \* history: the days for which a refresh was ever asked
          generated   \* how many were begun

dgVars == <<today, happened, digest, drafts, answers, refreshed, generated>>

NoDigest == -1
Days == 1 .. DgDays
NoDraft == [stage |-> "none", day |-> 1, refresh |-> FALSE, found |-> FALSE,
            counted |-> NoDigest, next |-> FALSE]
NoAnswer == [day |-> 0, counted |-> NoDigest]

DigestInit == /\ today = 1
          /\ happened = [d \in Days |-> 0]
          /\ digest = [d \in Days |-> NoDigest]
          /\ drafts = [w \in Writers |-> NoDraft]
          /\ answers = [w \in Writers |-> NoAnswer]
          /\ refreshed = {} /\ generated = 0

EventHappens == /\ happened[today] < DgEvents
                /\ happened' = [happened EXCEPT ![today] = @ + 1]
                /\ UNCHANGED <<today, digest, drafts, answers, refreshed, generated>>

Midnight == /\ today < DgDays
            /\ today' = today + 1
            /\ UNCHANGED <<happened, digest, drafts, answers, refreshed, generated>>

\* Where a generation leads when it is over: tick settles yesterday's digest
\* after it has refreshed today's.
Over(w) == IF drafts[w].next /\ drafts[w].day > 1
           THEN [NoDraft EXCEPT !.stage = "asked", !.day = drafts[w].day - 1]
           ELSE NoDraft

Returns(w, counted) ==
    /\ answers' = [answers EXCEPT ![w] = [day |-> drafts[w].day, counted |-> counted]]
    /\ drafts' = [drafts EXCEPT ![w] = Over(w)]

Asks(w, day, refresh, next) ==
    /\ drafts[w] = NoDraft /\ generated < DgRuns
    /\ generated' = generated + 1
    /\ drafts' = [drafts EXCEPT ![w] = [NoDraft EXCEPT !.stage = "asked", !.day = day,
                                                       !.refresh = refresh, !.next = next]]
    /\ refreshed' = IF refresh THEN refreshed \cup {day} ELSE refreshed
    /\ UNCHANGED <<today, happened, digest, answers>>

Tick(w) == Asks(w, today, TRUE, TRUE)
Request(w) == \E day \in 1 .. today, refresh \in BOOLEAN : Asks(w, day, refresh, FALSE)

\* The stored row is returned unless a refresh is asked for.
FindStored(w) ==
    LET stored == digest[drafts[w].day] IN
    /\ drafts[w].stage = "asked"
    /\ IF stored # NoDigest /\ ~drafts[w].refresh
       THEN Returns(w, stored)
       ELSE /\ drafts' = [drafts EXCEPT ![w].stage = "found", ![w].found = stored # NoDigest]
            /\ UNCHANGED answers
    /\ UNCHANGED <<today, happened, digest, refreshed, generated>>

CollectStats(w) ==
    /\ drafts[w].stage = "found"
    /\ drafts' = [drafts EXCEPT ![w].stage = "counted", ![w].counted = happened[drafts[w].day]]
    /\ UNCHANGED <<today, happened, digest, answers, refreshed, generated>>

\* A writer that found no row inserts one; when another was first, the row
\* that is there is returned.
OwnCount(w) == drafts[w].counted  \* mutant: the loser returns its own
Winner(w) == digest[drafts[w].day]

Store(w) ==
    LET d == drafts[w].day IN
    /\ drafts[w].stage = "counted"
    /\ IF drafts[w].found \/ digest[d] = NoDigest
       THEN /\ digest' = [digest EXCEPT ![d] = drafts[w].counted]
            /\ Returns(w, drafts[w].counted)
       ELSE /\ Returns(w, Winner(w))
            /\ UNCHANGED digest
    /\ UNCHANGED <<today, happened, refreshed, generated>>

\* A query fails, or the process stops; tick goes no further either.
GenerateFails(w) ==
    /\ drafts[w] # NoDraft
    /\ drafts' = [drafts EXCEPT ![w] = NoDraft]
    /\ UNCHANGED <<today, happened, digest, answers, refreshed, generated>>

DigestNext == \/ EventHappens \/ Midnight
              \/ \E w \in Writers : \/ Tick(w) \/ Request(w)
                                    \/ FindStored(w) \/ CollectStats(w) \/ Store(w)
                                    \/ GenerateFails(w)

DigestSpec == DigestInit /\ [][DigestNext]_dgVars

-----------------------------------------------------------------------------
\* Types of the digests' state.
DigestTypeOK ==
    /\ today \in Days
    /\ happened \in [Days -> 0 .. DgEvents]
    /\ digest \in [Days -> NoDigest .. DgEvents]
    /\ drafts \in [Writers -> [stage : {"none", "asked", "found", "counted"}, day : Days,
                               refresh : BOOLEAN, found : BOOLEAN,
                               counted : NoDigest .. DgEvents, next : BOOLEAN]]
    /\ answers \in [Writers -> [day : 0 .. DgDays, counted : NoDigest .. DgEvents]]
    /\ refreshed \subseteq Days /\ generated \in 0 .. DgRuns

\* All that was ever answered about a day no refresh was asked for is what is
\* stored for it, whoever generated it first and while events went on
\* happening: the generator that loses the insert adopts the winner's row.
DigestsAgree ==
    \A w \in Writers :
       answers[w] # NoAnswer /\ answers[w].day \notin refreshed
          => answers[w].counted = digest[answers[w].day]
=============================================================================
