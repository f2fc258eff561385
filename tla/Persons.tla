-------------------------------- MODULE Persons --------------------------------
(***************************************************************************)
(* Identities of returning people (app/services/persons.py): recognition   *)
(* of an event's person, a human's corrections, naming, merging, and the   *)
(* purge of old events (app/services/retention.py).                        *)
(*                                                                         *)
(* An embedding is abstracted to the event it was made from. A centroid is *)
(* the mean of the samples: it can match an event that looks like one of   *)
(* them, and may miss it. Timestamps and notes are left out.               *)
(*                                                                         *)
(* An event's row is committed before its person is recognised (events.py, *)
(* then ai_pipeline.py), and a human may say who it is in between: such a  *)
(* sighting has no vector, and the recognition overwrites the person.      *)
(***************************************************************************)
EXTENDS Integers, Sequences, SequencesExt

CONSTANTS
    Visits,      \* events with a person photo
    Alike,       \* pairs of them that look alike
    Persons,     \* bound: identities at a time
    MaxSamples,  \* person_max_samples
    MaxEdits     \* bound: corrections and merges by a human

ASSUME PersonsAssumption ==
    /\ IsFiniteSet(Persons) /\ "nobody" \notin Persons \union Visits
    /\ Alike \subseteq Visits \X Visits
    /\ \A v, w \in Visits : <<v, w>> \in Alike => <<w, v>> \in Alike
    /\ MaxSamples \in Nat \ {0} /\ MaxEdits \in Nat

VARIABLES
    person,     \* persons: name set, samples, sighting_count, cover_event_id
    who,        \* events.person_id
    sightings,  \* person_sightings: event, person, whether the row has a vector
    matching,   \* recognitions read but not yet committed
    stored,     \* of each event: "new" until its person is looked for, "live", "purged"
    early,      \* the events assigned by hand while they were new
    edits

personVars == <<person, who, sightings, matching, stored, early, edits>>

Nobody == "nobody"
NoRow  == [row |-> FALSE]
Row(samples) == [row |-> TRUE, named |-> FALSE, samples |-> samples, count |-> 0, cover |-> Nobody]
Exists(P, p) == P[p].row
FreeIds(P) == {p \in Persons : ~Exists(P, p)}

CloseTo(samples, v) == \E w \in ToSet(samples) : v = w \/ <<v, w>> \in Alike
LastOf(samples) ==
    IF Len(samples) > MaxSamples THEN SubSeq(samples, Len(samples) - MaxSamples + 1, Len(samples))
    ELSE samples

\* The other samples, in their order.
SamplesKept(samples, gone) == samples  \* mutant: the vector that was taught stays
SamplesWithout(samples, gone) ==
    LET kept[i \in 0..Len(samples)] ==
            IF i = 0 THEN <<>>
            ELSE IF samples[i] \in gone THEN kept[i - 1] ELSE Append(kept[i - 1], samples[i])
    IN  kept[Len(samples)]

\* _add_reference_sample.
Taught(t, v) == IF v \in ToSet(t.samples) THEN t ELSE [t EXCEPT !.samples = LastOf(Append(@, v))]

\* --- recognition (record_sighting) ------------------------------------------

\* The best match is read here; the row it was computed from is written back when
\* the event is committed.
Match(v) ==
    /\ stored[v] = "new" /\ v \notin DOMAIN matching
    /\ \E p \in {q \in Persons : Exists(person, q) /\ CloseTo(person[q].samples, v)} \union {Nobody} :
         matching' = [w \in DOMAIN matching \union {v} |->
                         IF w = v THEN [person |-> p, read |-> IF p = Nobody THEN NoRow ELSE person[p]]
                         ELSE matching[w]]
    /\ UNCHANGED <<person, who, sightings, stored, early, edits>>

Forget(v) == [w \in DOMAIN matching \ {v} |-> matching[w]]

\* sighting_count is written as the value read plus one, the cover only if there
\* was none. A person deleted in between fails the commit: the event stays whose it
\* was. Whom a human had named in between is overwritten, and keeps count and cover.
RecordSighting(v) ==
    /\ v \in DOMAIN matching
    /\ matching' = Forget(v)
    /\ stored' = [stored EXCEPT ![v] = "live"]
    /\ LET m == matching[v] IN
       \/ /\ m.person # Nobody /\ Exists(person, m.person)
          /\ person' = [person EXCEPT ![m.person].count = m.read.count + 1,
                           ![m.person].cover = IF m.read.cover = Nobody THEN v ELSE @]
          /\ who' = [who EXCEPT ![v] = m.person]
          /\ sightings' = sightings \union {<<v, m.person, TRUE>>}
       \/ /\ m.person # Nobody /\ ~Exists(person, m.person)
          /\ UNCHANGED <<person, who, sightings>>
       \/ /\ m.person = Nobody
          /\ \E p \in FreeIds(person) :
               /\ person' = [person EXCEPT ![p] = [Row(<<v>>) EXCEPT !.count = 1, !.cover = v]]
               /\ who' = [who EXCEPT ![v] = p]
               /\ sightings' = sightings \union {<<v, p, TRUE>>}
    /\ UNCHANGED <<early, edits>>

\* --- corrections -------------------------------------------------------------

\* What the edits below work on.
Now == [person |-> person, who |-> who, sightings |-> sightings]
Later(s) == /\ person' = s.person /\ who' = s.who /\ sightings' = s.sightings
            /\ edits < MaxEdits /\ edits' = edits + 1
            /\ UNCHANGED <<matching, stored>>

SeenOf(s, p) == {v \in Visits : \E b \in BOOLEAN : <<v, p, b>> \in s.sightings}

\* The cover after v is taken away: another event of the identity (_next_cover_event).
NextCover(cover, others, v) ==
    IF cover # v THEN {cover} ELSE IF others = {} THEN {Nobody} ELSE others

\* _detach_from_person: a wrong assignment is undone with what its rows say it taught,
\* and an unnamed identity that was nothing else is deleted.
Detached(s, v) ==
    LET p == s.who[v] IN
    IF p = Nobody \/ ~Exists(s.person, p) THEN {s}
    ELSE LET left   == {x \in s.sightings : ~(x[1] = v /\ x[2] = p)}
             stale  == IF <<v, p, TRUE>> \in s.sightings THEN {v} ELSE {}
             others == SeenOf([s EXCEPT !.sightings = left], p)
             t(c)   == [s.person[p] EXCEPT !.samples = SamplesWithout(@, stale),
                                           !.count = IF @ > 0 THEN @ - 1 ELSE 0, !.cover = c]
             gone(c) == t(c).samples = <<>> /\ t(c).count = 0 /\ ~t(c).named
         IN  {[person |-> [s.person EXCEPT ![p] = IF gone(c) THEN NoRow ELSE t(c)],
               who |-> [s.who EXCEPT ![v] = Nobody], sightings |-> left] :
                 c \in NextCover(s.person[p].cover, others, v)}

\* merge_person.
Merged(s, to, from) ==
    LET a == s.person[to]
        b == s.person[from]
        more == SamplesWithout(b.samples, ToSet(a.samples))
    IN  [person |-> [s.person EXCEPT
                        ![to] = [a EXCEPT !.samples = LastOf(@ \o more), !.count = @ + b.count,
                                          !.cover = IF @ = Nobody THEN b.cover ELSE @],
                        ![from] = NoRow],
         who |-> [v \in Visits |-> IF s.who[v] = from THEN to ELSE s.who[v]],
         sightings |-> {IF x[2] = from THEN <<x[1], to, x[3]>> ELSE x : x \in s.sightings}]

\* consolidate_identity: the unnamed identities one of whose samples looks like one
\* of the named one's (find_duplicates reads them all before the first is merged).
Duplicates(s, p) ==
    {q \in Persons \ {p} : /\ Exists(s.person, q) /\ ~s.person[q].named
                           /\ \E v \in ToSet(s.person[q].samples) : CloseTo(s.person[p].samples, v)}
\* The most similar comes first; any may be.
Gathered(s, p, order) ==
    LET merged[i \in 0..Len(order)] == IF i = 0 THEN s ELSE Merged(merged[i - 1], p, order[i])
    IN  merged[Len(order)]
Consolidated(s, p) ==
    IF s.person[p].named THEN {Gathered(s, p, order) : order \in SetToSeqs(Duplicates(s, p))} ELSE {s}

\* assign_person: to an identity there is, or to a new one with the given name. The
\* vector is that of the event's latest row (_embedding_for_event): one written by hand
\* before the recognition is dated after it, and has none.
WasSeen(v) == v \notin early /\ \E q \in Persons : <<v, q, TRUE>> \in sightings
WithPerson(v, p, named) ==
    LET row == IF Exists(person, p) THEN person[p] ELSE Row(IF WasSeen(v) THEN <<v>> ELSE <<>>)
    IN  [Now EXCEPT !.person[p] = [row EXCEPT !.named = @ \/ named]]
Assigned(s, v, p) ==
    LET t == [s.person[p] EXCEPT !.count = IF who[v] = p THEN @ ELSE @ + 1,
                                 !.cover = IF @ = Nobody THEN v ELSE @]
    IN  [person |-> [s.person EXCEPT ![p] = IF WasSeen(v) THEN Taught(t, v) ELSE t],
         who |-> [s.who EXCEPT ![v] = p],
         sightings |-> s.sightings \union {<<v, p, WasSeen(v)>>}]

AssignPerson(v, p, named) ==
    /\ stored[v] # "purged"
    /\ early' = IF stored[v] = "new" THEN early \union {v} ELSE early
    /\ Exists(person, p) \/ (named /\ p \in FreeIds(person))
    /\ LET base == WithPerson(v, p, named)
       IN  \E s \in (IF who[v] = p THEN {base} ELSE Detached(base, v)) :
             LET t == Assigned(s, v, p)
             IN  /\ \A x \in s.sightings : Exists(s.person, x[2])  \* else the foreign key fails
                 /\ \E u \in (IF named THEN Consolidated(t, p) ELSE {t}) : Later(u)

\* PATCH /persons: the name is set, which gathers the duplicates, or cleared.
UpdatePerson(p, named) ==
    /\ Exists(person, p)
    /\ \E s \in Consolidated([Now EXCEPT !.person[p].named = named], p) : Later(s)
    /\ UNCHANGED early

MergePersons(to, from) ==
    /\ to # from /\ Exists(person, to) /\ Exists(person, from)
    /\ Later(Merged(Now, to, from))
    /\ UNCHANGED early

\* rate_event_photo: the best-rated photo becomes the cover.
RateEventPhoto(v) ==
    /\ stored[v] # "purged" /\ who[v] # Nobody /\ Exists(person, who[v])
    /\ Later([Now EXCEPT !.person[who[v]].cover = v])
    /\ UNCHANGED early

\* retention._delete_event_children and the event itself.
PurgeEvent(v) ==
    /\ stored[v] = "live"
    /\ stored' = [stored EXCEPT ![v] = "purged"]
    /\ sightings' = {x \in sightings : x[1] # v}
    /\ who' = [who EXCEPT ![v] = Nobody]
    /\ person' = [p \in Persons |-> IF Exists(person, p) /\ person[p].cover = v
                                    THEN [person[p] EXCEPT !.cover = Nobody] ELSE person[p]]
    /\ UNCHANGED <<matching, early, edits>>

PersonsInit ==
    /\ person = [p \in Persons |-> NoRow] /\ who = [v \in Visits |-> Nobody]
    /\ sightings = {} /\ matching = <<>> /\ stored = [v \in Visits |-> "new"]
    /\ early = {} /\ edits = 0

PersonsNext ==
    \/ \E v \in Visits : Match(v) \/ RecordSighting(v) \/ RateEventPhoto(v) \/ PurgeEvent(v)
    \/ \E v \in Visits, p \in Persons, named \in BOOLEAN : AssignPerson(v, p, named)
    \/ \E p \in Persons, named \in BOOLEAN : UpdatePerson(p, named)
    \/ \E p, q \in Persons : MergePersons(p, q)

PersonsSpec == PersonsInit /\ [][PersonsNext]_personVars

\* --- properties ---------------------------------------------------------------

\* Every variable has its type, samples are capped, every assigned event has a row for
\* its person, and only one assigned too early has a row for anyone else.
PersonsTypeOK ==
    /\ \A p \in Persons : Exists(person, p) =>
          /\ person[p].named \in BOOLEAN /\ person[p].samples \in Seq(Visits)
          /\ Len(person[p].samples) <= MaxSamples /\ person[p].count \in Nat
    /\ who \in [Visits -> Persons \union {Nobody}]
    /\ sightings \subseteq Visits \X Persons \X BOOLEAN
    /\ \A v \in Visits : who[v] # Nobody => \E b \in BOOLEAN : <<v, who[v], b>> \in sightings
    /\ \A x \in sightings : /\ Exists(person, x[2])
                            /\ who[x[1]] = x[2] \/ (x[1] \in early /\ ~x[3])
    /\ DOMAIN matching \subseteq {v \in Visits : stored[v] = "new"}

\* No identity keeps the vector of an event that is not, or no longer, of that
\* person: a correction takes back what the mistake had taught.
CorrectionUnteaches ==
    \A p \in Persons, v \in Visits :
        Exists(person, p) /\ v \in ToSet(person[p].samples) => who[v] = p \/ stored[v] = "purged"

\* The photo that stands for an identity is of one of its own events, or of one that a
\* human gave it before the recognition gave the event to another.
CoverIsOwn ==
    \A p \in Persons : Exists(person, p) /\ person[p].cover # Nobody =>
        who[person[p].cover] = p \/ person[p].cover \in early

\* Through any sequence of recognitions, corrections, merges, namings and purges an
\* identity learns from its own events only (_detach_from_person, merge_persons).
IdentitiesAreOwn == CorrectionUnteaches /\ CoverIsOwn
================================================================================
