------------------------------- MODULE Suspicious -------------------------------
(***************************************************************************)
(* Unusual lingering (services/suspicious.py, observe): one record per     *)
(* tracked person, followed from frame to frame by place, with how long it *)
(* has been where lingering matters, when it was last reported and whose   *)
(* it is, once a confident recognition was photographed at its place.  A   *)
(* trusted person is not reported.                                         *)
(*                                                                         *)
(* Places are points on a line, those next to each other near enough to be *)
(* one person's; the score is reduced to its dwell limit.  Recognitions    *)
(* are external and, here, right.  One frame is one tick or more.          *)
(***************************************************************************)
EXTENDS Integers, Sequences, FiniteSets, Folds

CONSTANTS
    InOrder,       \* the people, in the order the detector lists them
    Haunts,        \* where each of them may be
    Watched,       \* places near a parked car, or in a zone that faces the street
    SuspectDwell,  \* seconds that make the score reach a level
    SuspectGap,    \* suspicious_gap_seconds
    SuspectDedupe, \* suspicious_dedupe_seconds
    Suspects,      \* bound: records at a time
    TrustChanges   \* bound: changes of trust, and persons deleted

People == {InOrder[i] : i \in 1..Len(InOrder)}

ASSUME SuspectAssumption ==
    /\ {SuspectDwell, SuspectGap, SuspectDedupe, Suspects} \subseteq Nat \ {0}
    /\ TrustChanges \in Nat /\ \A p \in People : Haunts[p] \subseteq Int
    /\ InOrder \in Seq(People) /\ \A i, j \in 1..Len(InOrder) : InOrder[i] = InOrder[j] => i = j
    /\ "nobody" \notin People

\* The greedy match knows a person by place alone: two who come within its reach of
\* each other it may exchange, with whatever is known of either.  What follows is
\* about people who do not, and of whom none gets out of its reach between two frames.
ASSUME PeopleKeepApart ==
    \A p, q \in People : \A x \in Haunts[p], y \in Haunts[q] :
        IF p = q THEN x - y <= 1 ELSE x - y > 1 \/ y - x > 1

VARIABLES
    suspects,     \* the records: place, ages of the last sighting and the last report, dwell, person
    photo,        \* the latest confident recognition: who, where, and its age
    trust,        \* of each person's row: "unknown", "trusted", or "deleted"
    suReported,     \* history: the people this frame reported
    vouched,      \* history: the people recognised since they came
    absent,       \* history: how long each has not been seen
    trustChanges

suspectVars == <<suspects, photo, trust, suReported, vouched, absent, trustChanges>>

Never     == -1
Forgotten == SuspectDedupe + SuspectGap + 1
Nobody0   == "nobody"
NoSuspect == [at |-> 0, last |-> Forgotten, since |-> Never, alert |-> Never, who |-> Nobody0]
SuAged(age, ticks, cap) == IF age = Never THEN Never ELSE IF age + ticks > cap THEN cap ELSE age + ticks

SuspectInit ==
    /\ suspects = [i \in 1..Suspects |-> NoSuspect]
    /\ photo = [who |-> Nobody0, at |-> 0, age |-> Forgotten]
    /\ trust \in [People -> {"unknown", "trusted"}]
    /\ suReported = {} /\ vouched = {} /\ absent = [p \in People |-> SuspectGap + 1]
    /\ trustChanges = 0

\* The record a detection continues: the nearest recent one that is near enough and
\* not taken by another detection of the frame, else a new one.
Far(rec, at)  == IF rec.at < at THEN at - rec.at ELSE rec.at - at
Open(recs, used, at) ==
    {i \in DOMAIN recs : i \notin used /\ recs[i].last <= SuspectGap /\ Far(recs[i], at) <= 1}
SuFresh(recs) == {i \in DOMAIN recs : recs[i] = NoSuspect}
SuspectOf(recs, used, at) ==
    IF Open(recs, used, at) # {}
    THEN CHOOSE i \in Open(recs, used, at) :
            \A j \in Open(recs, used, at) : Far(recs[i], at) <= Far(recs[j], at)
    ELSE CHOOSE i \in SuFresh(recs) : \A j \in SuFresh(recs) : i <= j

\* matched_person_for_box: a recent recognition photographed at this place.
MatchedPerson(ph, at) == IF ph.age <= SuspectGap /\ ph.at = at THEN ph.who ELSE Nobody0

\* Whose record it is: recognition sticks, until its person is deleted.
WhoNow(rec, ph, at)   == MatchedPerson(ph, at)  \* mutant: recognised anew each frame, or not at all
WhoSticks(rec, ph, at) ==
    IF MatchedPerson(ph, at) # Nobody0 THEN MatchedPerson(ph, at) ELSE rec.who

\* One detection of a frame.
Observed(rec, at, who) ==
    IF who # Nobody0 /\ trust[who] = "trusted"
    THEN [at |-> at, last |-> 0, since |-> Never, alert |-> Never, who |-> who]
    ELSE [at |-> at, last |-> 0, alert |-> rec.alert,
          since |-> IF at \notin Watched THEN Never ELSE IF rec.since = Never THEN 0 ELSE rec.since,
          who |-> IF who # Nobody0 /\ trust[who] = "deleted" THEN Nobody0 ELSE who]
Lingers(rec) == rec.since >= SuspectDwell /\ (rec.alert = Never \/ rec.alert >= SuspectDedupe)

Detect(frame, at, p) ==
    LET i   == SuspectOf(frame.recs, frame.used, at)
        rec == Observed(frame.recs[i], at, WhoSticks(frame.recs[i], frame.photo, at))
    IN  [recs |-> [frame.recs EXCEPT ![i] = IF Lingers(rec) THEN [rec EXCEPT !.alert = 0] ELSE rec],
         used |-> frame.used \union {i}, photo |-> frame.photo,
         told |-> IF Lingers(rec) THEN frame.told \union {p} ELSE frame.told]

\* Records not seen for long are dropped.
Limit == IF SuspectDedupe > SuspectGap THEN SuspectDedupe ELSE SuspectGap
Dropped(recs) == [i \in DOMAIN recs |-> IF recs[i].last > Limit THEN NoSuspect ELSE recs[i]]

\* observe, ticks after the last frame; places gives where the detected people are.
Elapsed(ticks) ==
    [i \in 1..Suspects |-> IF suspects[i] = NoSuspect THEN NoSuspect ELSE
        [suspects[i] EXCEPT !.last = SuAged(@, ticks, Forgotten), !.since = SuAged(@, ticks, SuspectDwell),
                            !.alert = SuAged(@, ticks, SuspectDedupe)]]

Observe(ticks, seen, places) ==
    LET ph    == [photo EXCEPT !.age = SuAged(@, ticks, Forgotten)]
        frame == MapThenFoldSet(
                    LAMBDA i, f : IF InOrder[i] \in seen THEN Detect(f, places[InOrder[i]], InOrder[i]) ELSE f,
                    [recs |-> Elapsed(ticks), used |-> {}, photo |-> ph, told |-> {}],
                    LAMBDA i : i,
                    LAMBDA s : CHOOSE i \in s : \A j \in s : i >= j,
                    1..Len(InOrder))
        back  == [p \in People |-> SuAged(absent[p], ticks, SuspectGap + 1)]
        stays == {p \in People : back[p] <= SuspectGap}
    IN
    /\ Cardinality(SuFresh(suspects)) >= Cardinality(seen)
    /\ suspects' = Dropped(frame.recs) /\ suReported' = frame.told
    /\ absent' = [p \in People |-> IF p \in seen THEN 0 ELSE back[p]]
    /\ vouched' = (vouched \intersect stays)
                  \union {p \in seen : MatchedPerson(ph, places[p]) = p}
    /\ \/ photo' = ph
       \/ \E p \in seen : trust[p] # "deleted" /\ photo' = [who |-> p, at |-> places[p], age |-> 0]
    /\ UNCHANGED <<trust, trustChanges>>

SetTrust(p, to) ==
    /\ trustChanges < TrustChanges /\ trustChanges' = trustChanges + 1
    /\ trust[p] \notin {to, "deleted"} /\ trust' = [trust EXCEPT ![p] = to]
    /\ photo' = IF to = "deleted" /\ photo.who = p THEN [photo EXCEPT !.age = Forgotten] ELSE photo
    /\ suReported' = {}
    /\ UNCHANGED <<suspects, vouched, absent>>

SuspectNext ==
    \/ \E ticks \in {1, SuspectGap + 1}, seen \in SUBSET People :
       \E places \in {f \in [seen -> UNION {Haunts[p] : p \in seen}] : \A p \in seen : f[p] \in Haunts[p]} :
          Observe(ticks, seen, places)
    \/ \E p \in People, to \in {"unknown", "trusted", "deleted"} : SetTrust(p, to)

SuspectSpec == SuspectInit /\ [][SuspectNext]_suspectVars

\* --- properties -------------------------------------------------------------------------

\* Every variable has its type.
SuspectTypeOK ==
    /\ \A i \in 1..Suspects :
          /\ suspects[i].last \in 0..Forgotten /\ suspects[i].since \in -1..SuspectDwell
          /\ suspects[i].alert \in -1..SuspectDedupe /\ suspects[i].who \in People \union {Nobody0}
    /\ suReported \subseteq People /\ vouched \subseteq People
    /\ photo.age \in 0..Forgotten

\* Someone who was recognised since coming into view, and is trusted, is not
\* reported, even in the frames in which nothing recognises them ("human trust
\* applies to every behaviour signal").
TrustedLeftAlone == \A p \in suReported \intersect vouched : trust[p] # "trusted"
================================================================================
